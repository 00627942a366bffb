----------------------------- MODULE BatchProofs -----------------------------
(***************************************************************************)
(* Proofs about CandidateBatch, for every table of codes, configurations,  *)
(* verdicts and outcomes, any number of threads and any cache size.        *)
(*                                                                         *)
(* Each candidate is rewritten by one step at a time, so the invariant is  *)
(* about one candidate and its place in the batch (SoundAt): what is known *)
(* of it depends on the phase and on whether the phase has passed it.      *)
(***************************************************************************)
EXTENDS BatchProperties, SequenceTheorems, Extrema

FilesSet == Codes \X Configs

ReportSet == [of : FilesSet, object : (Nat \X Nat) \cup FilesSet]

CandidateSet ==
  [edit : EditType, code : Codes, config : Configs, lessons : Seq(Lesson),
   valid : BOOLEAN, stage : Stages, jittered : BOOLEAN,
   report : ReportSet \cup {NoReport}, calls : Nat]

\* a cached report is its key's, in an object of the cache's own
EntrySet ==
  {e \in [key : FilesSet, of : FilesSet, object : FilesSet] :
     e.key = Key(e.of) /\ e.object = e.key}

InHand == {"process", "repair", "diversity", "behaviour"}

Judging == {"submit", "evaluate", "select"}

Phases == InHand \cup Judging \cup {"generate", "raised", "stopped"}

Types ==
  /\ mode \in {"explore", "exploit"} /\ current \in FilesSet /\ k \in Nat
  /\ pc \in Phases /\ batch \in Seq(CandidateSet) /\ at \in Nat
  /\ pc \in InHand => at \in DOMAIN batch
  /\ pc = "repair" => ~ batch[at].valid
  /\ pc = "behaviour" => mode = "explore"
  /\ fixing \in EditType /\ rounds \in Nat /\ passed \subseteq Valid
  /\ pc = "evaluate" => worker \in [DOMAIN batch -> {"out", "queued", "missed", "done"}]
  /\ cache \in Seq(EntrySet)

-----------------------------------------------------------------------------
(* A candidate *)

\* the guards have been past candidate i
Guarded(i) ==
  \/ pc \in Judging
  \/ pc = "behaviour" /\ i < at
  \/ pc = "diversity" /\ mode = "exploit" /\ i < at

\* it differs from the incumbent, as the mode's guard sees it
Differs(c) == IF mode = "exploit" THEN ~ Unchanged(c) ELSE Files(c) \notin {current} \ Slow

\* it goes on, or has been backtested
Alive(c) == c.valid \/ c.report # NoReport

Validated(c) == Files(c) \in passed /\ Files(c) = <<c.edit.code, c.edit.config>>

\* its report is one of its own backtest, in an object of its own
ReportOwn(i) ==
  LET c == batch[i]
  IN  /\ Plain[c.report.of[1]] = Plain[c.code] /\ c.report.of[2] = c.config
      /\ c.report.object = Own(i)

\* it has not been to the diversity check yet, or will not be
Unjittered(i) ==
  mode = "exploit" \/ pc \in {"process", "repair"} \/ (pc = "diversity" /\ i >= at)

SoundAt(i) ==
  LET c == batch[i]
  IN  /\ c.valid <=> c.stage = "ok"
      /\ Alive(c) => Validated(c)
      /\ pc \notin {"evaluate", "select"} => c.report = NoReport
      /\ c.report # NoReport => ReportOwn(i)
      /\ Guarded(i) /\ Alive(c) => Differs(c)
      /\ Unjittered(i) => ~ c.jittered
      /\ pc = "evaluate" /\ worker[i] \in {"queued", "missed"} => c.valid

AllSound == \A i \in DOMAIN batch : SoundAt(i)

ApartAt(i) ==
  batch[i].jittered =>
    \A f \in PoolBefore(i) : Alike(batch[i].config, f, PoolBefore(i)) < Threshold

Apart == \A i \in DOMAIN batch : ApartAt(i)

Inv == Types /\ AllSound

\* Model codes are no numbers, so that a candidate's object is none of the cache's.
ObjectsApart == Codes \cap Nat = {}

-----------------------------------------------------------------------------
(* Types *)

(* A new candidate is one.                                                 *)
LEMMA CandidateTyped ==
  ASSUME NEW a \in Answers
  PROVE  /\ Candidate(a) \in CandidateSet /\ ~ Candidate(a).valid
         /\ Candidate(a).stage \in {"raw", "llm_error"}
         /\ Candidate(a).report = NoReport /\ ~ Candidate(a).jittered
<1>1. a \in [kind : {"edit", "unusable", "unreachable", "refused"},
             code : Codes, config : Configs, lessons : Seq(Lesson)]
  BY BatchAssumption
<1>2. NoEdit \in EditType /\ Edit(a.code, a.config, 1) \in EditType
  BY <1>1, BatchAssumption DEF NoEdit, Edit, EditType
<1> QED
  BY <1>1, <1>2 DEF Candidate, CandidateSet, Stages

(* A batch is never empty.                                                 *)
LEMMA BatchNonEmpty == BatchSize >= 1
<1>1. NCandidates \in Nat \ {0}
  BY BatchAssumption
<1> DEFINE few == AtMost(3, NCandidates)
           full == IF PreparedMode = "exploit" THEN AtLeast(few, NCandidates \div 2)
                   ELSE NCandidates
<1>2. few \in Nat /\ few >= 1 /\ NCandidates \div 2 \in Nat
  BY <1>1 DEF AtMost
<1>3. full \in Nat /\ full >= 1
  BY <1>1, <1>2 DEF AtLeast
<1>4. BatchSize = full \/ BatchSize = AtMost(full, few)
  BY DEF BatchSize
<1> HIDE DEF few, full
<1> QED
  BY <1>2, <1>3, <1>4 DEF AtMost

(* What preflight passes is valid.                                         *)
LEMMA PreflightValid ==
  ASSUME NEW files, TRUE \in Preflight(files)
  PROVE  files \in Valid
<1> QED
  BY BatchAssumption DEF Preflight

(* Advancing keeps a candidate in hand until the last phase is done.       *)
LEMMA Advances ==
  ASSUME NEW phase \in {"process", "diversity", "behaviour"}, Types, pc \in InHand,
         Advance(phase), DOMAIN batch' = DOMAIN batch
  PROVE  /\ pc' \in InHand \cup {"submit"} /\ pc' # "repair" /\ at' \in Nat
         /\ pc' \in InHand => at' \in DOMAIN batch'
         /\ \/ pc' = phase /\ at' = at + 1
            \/ at = Len(batch) /\ at' = 1
                   /\ \/ phase = "process" /\ pc' = "diversity"
                      \/ phase = "diversity" /\ mode = "explore" /\ pc' = "behaviour"
                      \/ phase = "diversity" /\ mode = "exploit" /\ pc' = "submit"
                      \/ phase = "behaviour" /\ pc' = "submit"
<1>1. at \in 1 .. Len(batch) /\ DOMAIN batch = 1 .. Len(batch) /\ Len(batch) \in Nat
  BY DEF Types
<1>2. CASE at < Len(batch)
  <2>1. pc' = phase /\ at' = at + 1
    BY <1>2 DEF Advance, Following
  <2>2. at' \in 1 .. Len(batch)
    BY <1>1, <1>2, <2>1
  <2>3. at' \in DOMAIN batch' /\ at' \in Nat
    BY <1>1, <2>2
  <2> QED
    BY <2>1, <2>3 DEF InHand
<1>3. CASE ~ at < Len(batch)
  BY <1>1, <1>3 DEF Advance, Following, InHand, Types
<1> QED
  BY <1>2, <1>3

-----------------------------------------------------------------------------
(* A candidate that a step leaves alone *)

(* While the candidates are taken one after the other, what is known of    *)
(* one stays known when another's turn ends.                               *)
LEMMA AdvanceKeeps ==
  ASSUME NEW phase \in {"process", "diversity", "behaviour"}, Types,
         pc = phase \/ (pc = "repair" /\ phase = "process"), Advance(phase),
         DOMAIN batch' = DOMAIN batch, passed \subseteq passed',
         UNCHANGED <<mode, current, k>>,
         NEW i \in DOMAIN batch, i # at, batch'[i] = batch[i], SoundAt(i)
  PROVE  SoundAt(i)'
<1>1. /\ pc' \in InHand \cup {"submit"} /\ pc' # "repair" /\ at' \in Nat
      /\ \/ pc' = phase /\ at' = at + 1
         \/ at = Len(batch) /\ at' = 1
                   /\ \/ phase = "process" /\ pc' = "diversity"
                      \/ phase = "diversity" /\ mode = "explore" /\ pc' = "behaviour"
                      \/ phase = "diversity" /\ mode = "exploit" /\ pc' = "submit"
                      \/ phase = "behaviour" /\ pc' = "submit"
  BY Advances DEF InHand
<1>2. /\ i \in 1 .. Len(batch) /\ at \in Nat /\ mode \in {"explore", "exploit"}
      /\ pc = "behaviour" => mode = "explore"
  BY DEF Types
<1>3. Guarded(i)' => Guarded(i)
  BY <1>1, <1>2 DEF Guarded, InHand, Judging
<1>4. Unjittered(i)' => Unjittered(i)
  BY <1>1, <1>2 DEF Unjittered, InHand
<1>5. /\ pc' \notin {"evaluate", "select"} /\ pc \notin {"evaluate", "select"}
  BY <1>1 DEF InHand
<1> DEFINE c == batch[i]
<1>6. /\ batch'[i] = c /\ Validated(c) => Validated(c)' /\ Differs(c)' = Differs(c)
      /\ Alive(c)' = Alive(c)
  BY DEF Validated, Differs, Alive, Unchanged, Alike, Files
<1>7. /\ c.valid <=> c.stage = "ok"
      /\ Alive(c) => Validated(c)
      /\ c.report = NoReport
      /\ Guarded(i) /\ Alive(c) => Differs(c)
      /\ Unjittered(i) => ~ c.jittered
  BY <1>5 DEF SoundAt
<1> QED
  BY <1>3, <1>4, <1>5, <1>6, <1>7 DEF SoundAt, Alive, Validated, Differs, Unchanged, Files, Alike

(* Within a phase other candidates stay as they are.                       *)
LEMMA OthersKeep ==
  ASSUME Types, passed \subseteq passed',
         UNCHANGED <<mode, current, k, at>>,
         \/ pc' = pc
         \/ pc = "process" /\ pc' = "repair"
         \/ pc = "repair" /\ pc' = "raised"
         \/ pc = "submit" /\ pc' = "evaluate"
         \/ pc = "evaluate" /\ pc' = "select",
         NEW i \in DOMAIN batch, batch'[i] = batch[i], SoundAt(i),
         pc' = "evaluate" /\ worker'[i] \in {"queued", "missed"} => batch[i].valid
  PROVE  SoundAt(i)'
<1> DEFINE c == batch[i]
<1>1. Guarded(i)' => Guarded(i)
  BY DEF Guarded, Judging
<1>2. Unjittered(i)' => Unjittered(i)
  BY DEF Unjittered
<1>3. pc' \notin {"evaluate", "select"} => pc \notin {"evaluate", "select"}
  OBVIOUS
<1>4. /\ batch'[i] = c /\ Validated(c) => Validated(c)' /\ Differs(c)' = Differs(c)
      /\ Alive(c)' = Alive(c) /\ ReportOwn(i)' = ReportOwn(i)
  BY DEF Validated, Differs, Alive, Unchanged, Alike, Files, ReportOwn, Own
<1> QED
  BY <1>1, <1>2, <1>3, <1>4 DEF SoundAt, Alive, Validated, Differs, Unchanged, Files, Alike,
     ReportOwn, Own

\* The rest of the state keeps its type.
RestTyped ==
  /\ fixing' \in EditType /\ rounds' \in Nat /\ passed' \subseteq Valid
  /\ passed \subseteq passed'
  /\ UNCHANGED <<mode, current, k, cache>>

(* A turn that ends with a candidate as its phase lets it go keeps the     *)
(* invariant.                                                              *)
LEMMA TurnEnds ==
  ASSUME NEW phase \in {"process", "diversity", "behaviour"}, Inv,
         pc = phase \/ (pc = "repair" /\ phase = "process"), Advance(phase), RestTyped,
         NEW c \in CandidateSet, batch' = [batch EXCEPT ![at] = c],
         c.valid <=> c.stage = "ok", c.valid => Validated(c)', c.report = NoReport,
         c.valid /\ (phase = "behaviour" \/ (phase = "diversity" /\ mode = "exploit"))
           => Differs(c),
         phase = "process" \/ mode = "exploit" => ~ c.jittered
  PROVE  Inv'
<1>1. Types /\ AllSound /\ pc \in InHand /\ at \in DOMAIN batch
  BY DEF Inv, InHand, Types
<1>2. batch' \in Seq(CandidateSet) /\ DOMAIN batch' = DOMAIN batch /\ batch'[at] = c
      /\ \A i \in DOMAIN batch : i # at => batch'[i] = batch[i]
  <2>1. at \in 1 .. Len(batch) /\ batch \in Seq(CandidateSet)
    BY <1>1 DEF Types
  <2> QED
    BY <2>1, ExceptSeq
<1>3. /\ pc' \in InHand \cup {"submit"} /\ pc' # "repair" /\ at' \in Nat
      /\ pc' \in InHand => at' \in DOMAIN batch'
      /\ \/ pc' = phase /\ at' = at + 1
         \/ at = Len(batch) /\ at' = 1
                   /\ \/ phase = "process" /\ pc' = "diversity"
                      \/ phase = "diversity" /\ mode = "explore" /\ pc' = "behaviour"
                      \/ phase = "diversity" /\ mode = "exploit" /\ pc' = "submit"
                      \/ phase = "behaviour" /\ pc' = "submit"
  BY <1>1, <1>2, Advances
<1>4. Types'
  <2>1. pc' \in Phases /\ pc' # "evaluate"
    BY <1>3 DEF Phases, InHand, Judging
  <2>2. pc' = "behaviour" => mode' = "explore"
    BY <1>1, <1>3 DEF Types, RestTyped
  <2> QED
    BY <1>1, <1>2, <1>3, <2>1, <2>2 DEF Types, RestTyped
<1>a. PICK n : n = at
  OBVIOUS
<1>5. SoundAt(n)'
  <2>1. n \in Nat /\ mode \in {"explore", "exploit"}
    BY <1>1, <1>a DEF Types
  <2> DEFINE G == pc' \in Judging \/ (pc' = "behaviour" /\ n < at')
                    \/ (pc' = "diversity" /\ mode' = "exploit" /\ n < at')
             U == \/ mode' = "exploit" \/ pc' \in {"process", "repair"}
                  \/ (pc' = "diversity" /\ n >= at')
  <2>2. G => phase = "behaviour" \/ (phase = "diversity" /\ mode = "exploit")
    BY <1>3, <1>a, <2>1 DEF Judging, InHand, RestTyped
  <2>3. U => phase = "process" \/ mode = "exploit"
    BY <1>3, <1>a, <2>1 DEF InHand, RestTyped
  <2>4. pc' \notin {"evaluate", "select"}
    BY <1>3 DEF InHand
  <2>5. (Alive(c) <=> c.valid) /\ (Differs(c)' <=> Differs(c))
    BY DEF Alive, Differs, Unchanged, Alike, Files, RestTyped
  <2>6. batch'[n] = c
    BY <1>2, <1>a
  <2>7. (Guarded(n)' <=> G) /\ (Unjittered(n)' <=> U)
    BY DEF Guarded, Unjittered
  <2> HIDE DEF G, U
  <2>8. /\ batch'[n].valid <=> batch'[n].stage = "ok"
        /\ Alive(batch[n])' => Validated(batch[n])'
        /\ batch'[n].report = NoReport
        /\ Guarded(n)' /\ Alive(batch[n])' => Differs(batch[n])'
        /\ Unjittered(n)' => ~ batch'[n].jittered
    BY <2>2, <2>3, <2>5, <2>6, <2>7 DEF Alive, Validated, Differs, Unchanged, Files, Alike
  <2> QED
    BY <2>4, <2>8 DEF SoundAt, NoReport
<1>6. ASSUME NEW i \in DOMAIN batch, i # n PROVE SoundAt(i)'
  BY <1>a, <1>1, <1>2, <1>6, AdvanceKeeps DEF AllSound, RestTyped
<1>7. AllSound'
  BY <1>2, <1>5, <1>6 DEF AllSound
<1> QED
  BY <1>4, <1>7 DEF Inv

-----------------------------------------------------------------------------
(* The candidates one after the other *)

(* The candidate in hand is one, as yet without a report.                  *)
LEMMA Hand ==
  ASSUME Inv, pc \in InHand
  PROVE  /\ at \in DOMAIN batch /\ at \in Nat /\ batch[at] \in CandidateSet
         /\ batch[at].report = NoReport /\ SoundAt(at)
         /\ [batch EXCEPT ![at] = batch[at]] = batch
<1>1. at \in 1 .. Len(batch) /\ batch \in Seq(CandidateSet)
  BY DEF Inv, Types
<1>2. batch[at] \in CandidateSet
  BY <1>1, ElementOfSeq
<1>3. SoundAt(at)
  BY <1>1 DEF Inv, AllSound
<1>4. pc \notin {"evaluate", "select"}
  BY DEF InHand
<1> QED
  BY <1>1, <1>2, <1>3, <1>4 DEF SoundAt

(* The tail of a candidate's processing keeps the invariant.               *)
LEMMA SettleSound ==
  ASSUME Inv, pc \in {"process", "repair"}, NEW ok \in BOOLEAN, NEW edit \in EditType,
         NEW calls \in Nat, Settle(ok, edit, calls),
         ok => <<edit.code, edit.config>> \in Valid,
         fixing' \in EditType, rounds' \in Nat, UNCHANGED <<mode, current, k, cache>>
  PROVE  Inv'
<1>1. batch[at] \in CandidateSet /\ batch[at].report = NoReport /\ ~ batch[at].jittered
  <2>1. Unjittered(at)
    BY DEF Unjittered
  <2> QED
    BY <2>1, Hand DEF InHand, SoundAt
<1>2. batch' = [batch EXCEPT ![at] = Settled(batch[at], ok, edit, calls)]
  BY DEF Settle
<1>3. /\ Advance("process")
      /\ passed' = passed \cup (IF ok THEN {<<edit.code, edit.config>>} ELSE {})
  BY DEF Settle
<1>4. PICK n : n = Settled(batch[at], ok, edit, calls)
  OBVIOUS
<1>5. /\ n \in CandidateSet /\ n.edit = (IF ok THEN edit ELSE batch[at].edit)
      /\ n.code = edit.code /\ n.config = edit.config /\ n.valid = ok
      /\ n.stage = (IF ok THEN "ok" ELSE "validation")
      /\ n.report = NoReport /\ ~ n.jittered
  BY <1>1, <1>4 DEF Settled, CandidateSet, EditType, Stages
<1>6. n.valid <=> n.stage = "ok"
  BY <1>5
<1>7. n.valid => Validated(n)'
  BY <1>3, <1>5 DEF Validated, Files
<1>8. RestTyped
  BY <1>3 DEF RestTyped, Inv, Types
<1>9. batch' = [batch EXCEPT ![at] = n]
  BY <1>2, <1>4
<1> QED
  BY <1>3, <1>5, <1>6, <1>7, <1>8, <1>9, TurnEnds

(* So does a step that rejects nothing and rewrites nothing.               *)
LEMMA PassesOn ==
  ASSUME NEW phase \in {"process", "diversity", "behaviour"}, Inv,
         pc = phase, Advance(phase),
         UNCHANGED <<modeVars, k, batch, fixVars, passed, cache>>,
         batch[at].valid => phase = "diversity" /\ mode = "explore"
  PROVE  Inv'
<1>1. /\ batch[at] \in CandidateSet /\ batch[at].report = NoReport /\ SoundAt(at)
      /\ [batch EXCEPT ![at] = batch[at]] = batch
  BY Hand DEF InHand
<1>2. RestTyped
  BY DEF RestTyped, Inv, Types, modeVars, fixVars
<1>3. /\ batch[at].valid <=> batch[at].stage = "ok"
      /\ batch[at].valid => Validated(batch[at])
      /\ phase = "process" \/ mode = "exploit" => ~ batch[at].jittered
  BY <1>1 DEF SoundAt, Alive, Unjittered
<1> DEFINE c == batch[at]
<1>4. Validated(c) => /\ Files(c) \in passed'
                      /\ Files(c) = <<c.edit.code, c.edit.config>>
  BY DEF Validated
<1>5. PICK d : d = c
  OBVIOUS
<1>6. d.valid => Validated(d)'
  BY <1>3, <1>4, <1>5 DEF Validated, Files
<1>7. batch' = [batch EXCEPT ![at] = d]
  BY <1>1, <1>5
<1> HIDE DEF c
<1> QED
  BY <1>1, <1>2, <1>3, <1>5, <1>6, <1>7, TurnEnds DEF c

(* So does a verdict of a guard.                                           *)
LEMMA VerdictSound ==
  ASSUME NEW phase \in {"diversity", "behaviour"}, Inv,
         pc = phase, phase = "diversity" => mode = "exploit", Advance(phase),
         NEW stage \in {"exploit_no_change", "identical_behavior"},
         NEW rejected \in BOOLEAN, batch[at].valid,
         batch' = [batch EXCEPT ![at] = IF rejected THEN Rejected(batch[at], stage)
                                        ELSE batch[at]],
         UNCHANGED <<modeVars, k, fixVars, passed, cache>>,
         ~ rejected => Differs(batch[at])
  PROVE  Inv'
<1>1. /\ batch[at] \in CandidateSet /\ batch[at].report = NoReport /\ SoundAt(at)
  BY Hand DEF InHand
<1>2. RestTyped
  BY DEF RestTyped, Inv, Types, modeVars, fixVars
<1>3. PICK c : c = batch[at]
  OBVIOUS
<1>4. c.stage = "ok" /\ Validated(c)
  BY <1>1, <1>3 DEF SoundAt, Alive
<1>5. PICK d : d = IF rejected THEN Rejected(c, stage) ELSE c
  OBVIOUS
<1>6. /\ d \in CandidateSet /\ d.report = NoReport
      /\ d.valid <=> ~ rejected
      /\ d.valid <=> d.stage = "ok"
      /\ d.valid => d = c
  BY <1>1, <1>3, <1>4, <1>5 DEF Rejected, CandidateSet, Stages
<1>7. d.valid => Validated(d)'
  BY <1>4, <1>6 DEF Validated, Files
<1>8. d.valid => Differs(d)
  BY <1>3, <1>6
<1>9. batch' = [batch EXCEPT ![at] = d]
  BY <1>3, <1>5
<1>10. mode = "exploit" => ~ d.jittered
  BY <1>1, <1>3, <1>5 DEF SoundAt, Unjittered, Rejected
<1> QED
  BY <1>2, <1>6, <1>7, <1>8, <1>9, <1>10, TurnEnds

(* A step that leaves the batch and the place in it alone.                 *)
LEMMA BatchStays ==
  ASSUME Inv, RestTyped, UNCHANGED <<batch, at>>,
         \/ pc = "process" /\ pc' = "repair"
         \/ pc = "repair" /\ pc' \in {"repair", "raised"}
         \/ pc = "evaluate" /\ pc' = "select",
         pc' = "repair" => ~ batch[at].valid
  PROVE  Inv'
<1>1. Types /\ AllSound
  BY DEF Inv
<1>2. Types'
  BY <1>1 DEF Types, RestTyped, Phases, InHand, Judging
<1>3. ASSUME NEW i \in DOMAIN batch PROVE SoundAt(i)'
  <2>1. SoundAt(i)
    BY <1>1 DEF AllSound
  <2> QED
    BY <1>1, <2>1, OthersKeep DEF RestTyped
<1>4. AllSound'
  BY <1>3 DEF AllSound
<1> QED
  BY <1>2, <1>4 DEF Inv

(* Codemod and the first preflight.                                        *)
LEMMA ProcessEditSound ==
  ASSUME Inv, NEW ok \in BOOLEAN, ProcessEdit(ok)
  PROVE  Inv'
<1>1. PICK edit : edit = [batch[at].edit EXCEPT !.code = Codemod[batch[at].code]]
  OBVIOUS
<1>2. /\ pc = "process" /\ batch[at].stage = "raw" /\ ok \in Preflight(<<edit.code, edit.config>>)
      /\ \/ Settle(ok, edit, 1) /\ UNCHANGED fixVars
         \/ /\ pc' = "repair" /\ fixing' = edit /\ rounds' = 0
            /\ UNCHANGED <<batch, at, passed, iterCost>>
      /\ UNCHANGED <<modeVars, k, evalVars>>
  BY <1>1 DEF ProcessEdit
<1>3. batch[at] \in CandidateSet /\ SoundAt(at)
  BY <1>2, Hand DEF InHand
<1>4. edit \in EditType
  <2>1. Codemod[batch[at].code] \in Codes
    BY <1>3, BatchAssumption DEF CandidateSet
  <2> QED
    BY <1>1, <1>3, <2>1 DEF CandidateSet, EditType
<1>5. ok => <<edit.code, edit.config>> \in Valid
  BY <1>2, PreflightValid
<1>6. UNCHANGED <<mode, current, k, cache>>
  BY <1>2 DEF modeVars, evalVars
<1>7. CASE Settle(ok, edit, 1) /\ UNCHANGED fixVars
  <2>1. fixing' \in EditType /\ rounds' \in Nat
    BY <1>7 DEF fixVars, Inv, Types
  <2> QED
    BY <1>2, <1>4, <1>5, <1>6, <1>7, <2>1, SettleSound
<1>8. CASE /\ pc' = "repair" /\ fixing' = edit /\ rounds' = 0
           /\ UNCHANGED <<batch, at, passed, iterCost>>
  <2>1. RestTyped
    BY <1>4, <1>6, <1>8 DEF RestTyped, Inv, Types
  <2>2. ~ batch[at].valid
    BY <1>2, <1>3 DEF SoundAt
  <2> QED
    BY <1>2, <1>8, <2>1, <2>2, BatchStays
<1> QED
  BY <1>2, <1>7, <1>8

(* The rounds of repair.                                                   *)
LEMMA RepairSound ==
  ASSUME Inv, NEW answer \in Answers, NEW ok \in BOOLEAN,
         Repair(answer, ok) \/ RepairFails(answer) \/ RepairRefused(answer)
  PROVE  Inv'
<1>1. /\ pc = "repair" /\ fixing \in EditType /\ rounds \in Nat /\ passed \subseteq Valid
      /\ UNCHANGED <<mode, current, k, cache>> /\ ~ batch[at].valid
  BY DEF Repair, RepairFails, RepairRefused, modeVars, evalVars, Inv, Types
<1>2. CASE Repair(answer, ok)
  <2>1. PICK edit : edit = Repaired(answer)
    OBVIOUS
  <2>2. /\ rounds' = rounds + 1 /\ ok \in Preflight(<<edit.code, edit.config>>)
        /\ \/ Settle(ok, edit, rounds + 2) /\ UNCHANGED fixing
           \/ fixing' = edit /\ UNCHANGED <<batch, at, passed, iterCost, pc>>
    BY <1>2, <2>1 DEF Repair
  <2>3. edit \in EditType
    <3>1. answer.code \in Codes /\ answer.config \in Configs
      BY BatchAssumption
    <3>2. Codemod[answer.code] \in Codes /\ fixing.cost + 1 \in Nat
      BY <1>1, <3>1, BatchAssumption DEF EditType
    <3> QED
      BY <2>1, <3>1, <3>2 DEF Repaired, Edit, EditType
  <2>4. ok => <<edit.code, edit.config>> \in Valid
    BY <2>2, PreflightValid
  <2>5. CASE Settle(ok, edit, rounds + 2) /\ UNCHANGED fixing
    BY <1>1, <2>2, <2>3, <2>4, <2>5, SettleSound
  <2>6. CASE fixing' = edit /\ UNCHANGED <<batch, at, passed, iterCost, pc>>
    <3>1. RestTyped
      BY <1>1, <2>2, <2>3, <2>6 DEF RestTyped
    <3> QED
      BY <1>1, <2>6, <3>1, BatchStays
  <2> QED
    BY <2>2, <2>5, <2>6
<1>3. CASE RepairFails(answer)
  <2>1. Settle(FALSE, fixing, rounds + 1) /\ fixing' = fixing /\ rounds' = rounds
    BY <1>3 DEF RepairFails, fixVars
  <2>2. rounds + 1 \in Nat /\ fixing' \in EditType /\ rounds' \in Nat
    BY <1>1, <2>1
  <2> QED
    BY <1>1, <2>1, <2>2, SettleSound
<1>4. CASE RepairRefused(answer)
  <2>1. pc' = "raised" /\ UNCHANGED <<batch, at, fixVars, passed>>
    BY <1>4 DEF RepairRefused
  <2>2. RestTyped
    BY <1>1, <2>1 DEF RestTyped, fixVars
  <2> QED
    BY <1>1, <2>1, <2>2, BatchStays
<1> QED
  BY <1>2, <1>3, <1>4

(* What is passed over.                                                    *)
LEMMA SkipsSound ==
  ASSUME Inv, SkipFailedCall \/ SkipInvalid \/ KeepConfig
  PROVE  Inv'
<1>1. UNCHANGED <<modeVars, k, batch, fixVars, passed, cache>>
  BY DEF SkipFailedCall, SkipInvalid, KeepConfig, evalVars
<1>2. CASE SkipFailedCall
  <2>1. pc = "process" /\ batch[at].stage = "llm_error" /\ Advance("process")
    BY <1>2 DEF SkipFailedCall
  <2>2. ~ batch[at].valid
    BY <2>1, Hand DEF InHand, SoundAt
  <2> QED
    BY <1>1, <2>1, <2>2, PassesOn
<1>3. CASE SkipInvalid
  <2>1. pc \in {"diversity", "behaviour"} /\ ~ batch[at].valid /\ Advance(pc)
    BY <1>3 DEF SkipInvalid
  <2> QED
    BY <1>1, <2>1, PassesOn
<1>4. CASE KeepConfig
  <2>1. pc = "diversity" /\ mode = "explore" /\ Advance("diversity")
    BY <1>4 DEF KeepConfig
  <2> QED
    BY <1>1, <2>1, PassesOn
<1> QED
  BY <1>2, <1>3, <1>4

-----------------------------------------------------------------------------
(* Diversity and the guards *)

(* A mutated configuration.                                                *)
LEMMA JitterSound ==
  ASSUME Inv, NEW g \in Configs, NEW ok \in BOOLEAN, Jitter(g, ok)
  PROVE  Inv'
<1>1. PICK c : c = batch[at]
  OBVIOUS
<1>2. /\ pc = "diversity" /\ mode = "explore" /\ c.valid
      /\ ok \in Preflight(<<c.edit.code, g>>) /\ Advance("diversity")
      /\ batch' = [batch EXCEPT ![at] = Salvaged(c, g, ok)]
      /\ passed' = passed \cup (IF ok THEN {<<c.edit.code, g>>} ELSE {})
      /\ UNCHANGED <<modeVars, k, fixVars, evalVars>>
  BY <1>1 DEF Jitter
<1>3. /\ c \in CandidateSet /\ c.report = NoReport /\ c.stage = "ok" /\ Validated(c)
  <2>1. /\ batch[at] \in CandidateSet /\ batch[at].report = NoReport /\ SoundAt(at)
    BY <1>2, Hand DEF InHand
  <2> QED
    BY <1>1, <1>2, <2>1 DEF SoundAt, Alive
<1>4. c.code = c.edit.code /\ c.config = c.edit.config
  BY <1>3 DEF Validated, Files
<1>5. PICK d : d = Salvaged(c, g, ok)
  OBVIOUS
<1>6. /\ d \in CandidateSet /\ d.report = NoReport /\ d.valid /\ d.stage = "ok"
      /\ d.code = c.code
      /\ ok => d.config = g /\ d.edit.config = g /\ d.edit.code = c.edit.code
      /\ ~ ok => d = c
  <2>1. CASE ok
    <3>1. d = [c EXCEPT !.edit = [c.edit EXCEPT !.config = g], !.config = g,
                        !.jittered = TRUE]
      BY <1>5, <2>1 DEF Salvaged
    <3>2. PICK e : e = [c.edit EXCEPT !.config = g]
      OBVIOUS
    <3>3. c.edit \in EditType
      BY <1>3 DEF CandidateSet
    <3>4. e \in EditType /\ e.config = g /\ e.code = c.edit.code
      BY <3>2, <3>3 DEF EditType
    <3>5. d = [c EXCEPT !.edit = e, !.config = g, !.jittered = TRUE]
      BY <3>1, <3>2
    <3> QED
      BY <1>2, <1>3, <2>1, <3>4, <3>5 DEF CandidateSet
  <2>2. CASE ~ ok
    BY <1>2, <1>3, <1>5, <2>2 DEF Salvaged
  <2> QED
    BY <2>1, <2>2
<1>7. Validated(d)'
  BY <1>2, <1>3, <1>4, <1>6 DEF Validated, Files
<1>8. RestTyped
  <2>1. ok => <<c.edit.code, g>> \in Valid
    BY <1>2, PreflightValid
  <2> QED
    BY <1>2, <2>1 DEF RestTyped, Inv, Types, modeVars, fixVars, evalVars
<1>9. batch' = [batch EXCEPT ![at] = d]
  BY <1>2, <1>5
<1> QED
  BY <1>2, <1>6, <1>7, <1>8, <1>9, TurnEnds

(* The guard against a configuration that does not change.                 *)
LEMMA CheckExploitSound ==
  ASSUME Inv, CheckExploit
  PROVE  Inv'
<1>1. PICK rejected \in BOOLEAN : rejected <=> Unchanged(batch[at])
  OBVIOUS
<1>2. /\ pc = "diversity" /\ mode = "exploit" /\ batch[at].valid /\ Advance("diversity")
      /\ batch' = [batch EXCEPT ![at] = IF rejected
                      THEN Rejected(batch[at], "exploit_no_change") ELSE batch[at]]
      /\ UNCHANGED <<modeVars, k, fixVars, passed, cache>>
  BY <1>1 DEF CheckExploit, evalVars
<1>3. ~ rejected => Differs(batch[at])
  BY <1>1, <1>2 DEF Differs
<1> QED
  BY <1>2, <1>3, VerdictSound

(* Comparing the incumbent's own files in time finds them identical.       *)
LEMMA OwnFilesIdentical ==
  ASSUME NEW c, Files(c) \in Valid, current \in FilesSet, Files(c) \in {current} \ Slow
  PROVE  FoundIdentical(c) = {TRUE}
<1>1. Files(c) = <<current[1], c.config>>
  BY DEF Files, FilesSet
<1> QED
  BY <1>1 DEF FoundIdentical

(* The guard against a candidate that behaves as the incumbent does.       *)
LEMMA CheckBehaviourSound ==
  ASSUME Inv, NEW identical \in BOOLEAN, CheckBehaviour(identical)
  PROVE  Inv'
<1>1. /\ pc = "behaviour" /\ batch[at].valid /\ Advance("behaviour")
      /\ identical \in FoundIdentical(batch[at])
      /\ batch' = [batch EXCEPT ![at] = IF identical
                      THEN Rejected(batch[at], "identical_behavior") ELSE batch[at]]
      /\ UNCHANGED <<modeVars, k, fixVars, passed, cache>>
  BY DEF CheckBehaviour, evalVars
<1>2. Files(batch[at]) \in Valid /\ current \in FilesSet /\ mode = "explore"
  <2>1. SoundAt(at)
    BY <1>1, Hand DEF InHand
  <2> QED
    BY <1>1, <2>1 DEF SoundAt, Alive, Validated, Inv, Types
<1>3. ~ identical => Differs(batch[at])
  BY <1>1, <1>2, OwnFilesIdentical DEF Differs
<1> QED
  BY <1>1, <1>3, VerdictSound

-----------------------------------------------------------------------------
(* Generation and evaluation *)

(* A new batch.                                                            *)
LEMMA GenerateSound ==
  ASSUME Inv, NEW answers \in Batches, Generate(answers)
  PROVE  Inv'
<1>1. /\ answers \in Seq(Answers) /\ Len(answers) = BatchSize
      /\ batch' = [i \in DOMAIN answers |-> Candidate(answers[i])]
      /\ k' = k + 1 /\ mode' = PreparedMode /\ at' = 1 /\ pc' \in {"raised", "process"}
      /\ UNCHANGED <<current, fixVars, passed, cache>>
  BY BatchAssumption DEF Generate, evalVars
<1>2. Len(answers) \in Nat /\ DOMAIN answers = 1 .. Len(answers) /\ Len(answers) >= 1
  BY <1>1, BatchNonEmpty
<1>3. \A i \in DOMAIN answers :
        /\ batch'[i] = Candidate(answers[i]) /\ batch'[i] \in CandidateSet
        /\ ~ batch'[i].valid /\ batch'[i].stage \in {"raw", "llm_error"}
        /\ batch'[i].report = NoReport /\ ~ batch'[i].jittered
  <2>1. \A i \in DOMAIN answers : answers[i] \in Answers
    BY <1>1, <1>2, ElementOfSeq
  <2> QED
    BY <1>1, <2>1, CandidateTyped
<1>4. batch' \in Seq(CandidateSet) /\ DOMAIN batch' = DOMAIN answers
  <2>1. batch' = [i \in 1 .. Len(answers) |-> Candidate(answers[i])]
    BY <1>1, <1>2
  <2>2. batch' \in [1 .. Len(answers) -> CandidateSet]
    BY <1>2, <1>3, <2>1
  <2> QED
    BY <1>2, <2>2
<1>5. Types'
  <2>1. mode' \in {"explore", "exploit"} /\ at' \in DOMAIN batch' /\ k' \in Nat
    BY <1>1, <1>2, <1>4 DEF PreparedMode, Inv, Types
  <2> QED
    BY <1>1, <1>4, <2>1 DEF Inv, Types, Phases, InHand, Judging, fixVars
<1>6. AllSound'
  BY <1>1, <1>3, <1>4 DEF AllSound, SoundAt, Alive, Guarded, Judging
<1> QED
  BY <1>5, <1>6 DEF Inv

(* The candidates that are valid go to the threads.                        *)
LEMMA SubmitSound ==
  ASSUME Inv, Submit
  PROVE  Inv'
<1>1. /\ pc = "submit" /\ pc' = "evaluate"
      /\ worker' = [i \in DOMAIN batch |-> IF batch[i].valid THEN "queued" ELSE "out"]
      /\ UNCHANGED <<mode, current, k, batch, at, fixVars, passed, cache>>
  BY DEF Submit, modeVars
<1>2. Types'
  BY <1>1 DEF Inv, Types, Phases, InHand, Judging, fixVars
<1>3. ASSUME NEW i \in DOMAIN batch PROVE SoundAt(i)'
  <2>1. Types /\ SoundAt(i)
    BY DEF Inv, AllSound
  <2>2. worker'[i] \in {"queued", "missed"} => batch[i].valid
    BY <1>1
  <2> QED
    BY <1>1, <2>1, <2>2, OthersKeep
<1> QED
  BY <1>1, <1>2, <1>3 DEF Inv, AllSound

(* The cache without the entry of a key holds entries of the cache.        *)
LEMMA WithoutTyped ==
  ASSUME NEW key, cache \in Seq(EntrySet)
  PROVE  Without(key) \in Seq(EntrySet)
<1>1. CASE Entries(key) = {}
  BY <1>1 DEF Without
<1>2. CASE Entries(key) # {}
  <2>1. PICK j \in Entries(key) : Without(key) = RemoveAt(cache, j)
    BY <1>2 DEF Without
  <2>2. j \in 1 .. Len(cache) /\ Len(cache) \in Nat
    BY <2>1 DEF Entries
  <2>3. RemoveAt(cache, j) = SubSeq(cache, 1, j - 1) \o SubSeq(cache, j + 1, Len(cache))
    BY DEF RemoveAt
  <2>4. SubSeq(cache, 1, j - 1) \in Seq(EntrySet)
        /\ SubSeq(cache, j + 1, Len(cache)) \in Seq(EntrySet)
    BY <2>2, SubSeqProperties
  <2> QED
    BY <2>1, <2>3, <2>4, ConcatProperties
<1> QED
  BY <1>1, <1>2

(* A report goes into the cache under its own key.                         *)
LEMMA InsertedTyped ==
  ASSUME NEW entry \in EntrySet, cache \in Seq(EntrySet)
  PROVE  Inserted(entry) \in Seq(EntrySet)
<1>1. PICK grown : grown = Append(Without(entry.key), entry)
  OBVIOUS
<1>2. Without(entry.key) \in Seq(EntrySet)
  BY WithoutTyped
<1>3. grown \in Seq(EntrySet) /\ grown # << >>
  BY <1>1, <1>2, AppendProperties
<1>4. Tail(grown) \in Seq(EntrySet)
  BY <1>3, HeadTailProperties
<1> QED
  BY <1>1, <1>3, <1>4 DEF Inserted

(* A backtest that comes to its end, in a thread or from the cache.        *)
LEMMA TaskEnds ==
  ASSUME Inv, pc = "evaluate", NEW n \in DOMAIN batch, worker[n] \in {"queued", "missed"},
         NEW c \in CandidateSet, batch' = [batch EXCEPT ![n] = c],
         worker' = [worker EXCEPT ![n] = "done"], cache' \in Seq(EntrySet),
         UNCHANGED <<mode, current, k, pc, at, fixVars, passed>>,
         c.edit = batch[n].edit /\ Files(c) = Files(batch[n]),
         c.jittered = batch[n].jittered,
         c.valid <=> c.stage = "ok",
         c.report # NoReport =>
           /\ Plain[c.report.of[1]] = Plain[c.code] /\ c.report.of[2] = c.config
           /\ c.report.object = Own(n)
  PROVE  Inv'
<1>1. Types /\ AllSound /\ batch \in Seq(CandidateSet) /\ n \in 1 .. Len(batch)
      /\ worker \in [DOMAIN batch -> {"out", "queued", "missed", "done"}]
  BY DEF Inv, Types
<1>2. batch' \in Seq(CandidateSet) /\ DOMAIN batch' = DOMAIN batch /\ batch'[n] = c
      /\ \A i \in DOMAIN batch : i # n => batch'[i] = batch[i]
  BY <1>1, ExceptSeq
<1>3. /\ worker' \in [DOMAIN batch' -> {"out", "queued", "missed", "done"}]
      /\ worker'[n] = "done" /\ \A i \in DOMAIN batch : i # n => worker'[i] = worker[i]
  BY <1>1, <1>2
<1>4. Types'
  BY <1>1, <1>2, <1>3 DEF Types, InHand, fixVars
<1>5. SoundAt(n)'
  <2>1. batch[n].valid /\ SoundAt(n)
    BY <1>1 DEF AllSound, SoundAt
  <2>2. Validated(batch[n]) /\ Differs(batch[n])
    BY <2>1 DEF SoundAt, Alive, Guarded, Judging
  <2>3. Validated(c)'
    BY <2>2 DEF Validated, Files
  <2>4. c.report # NoReport => ReportOwn(n)'
    BY <1>2 DEF ReportOwn, Own
  <2>5. /\ c.valid <=> c.stage = "ok"
        /\ pc' = "evaluate" /\ worker'[n] = "done" /\ batch'[n] = c
    BY <1>2, <1>3
  <2>6. Unjittered(n)' => ~ c.jittered
    BY <2>1, <2>5 DEF SoundAt, Unjittered
  <2>7. Validated(batch[n])'
    BY <2>3, <2>5 DEF Validated, Files
  <2>8. Differs(batch[n])'
    <3>1. /\ mode' = mode /\ current' = current /\ batch'[n].config = c.config
          /\ Files(batch[n])' = Files(c)
      BY <2>5 DEF Files
    <3>2. Unchanged(batch[n])' <=> Unchanged(c)
      BY <3>1 DEF Unchanged, Alike
    <3>3. c.config = batch[n].config
      BY DEF Files
    <3>4. Unchanged(c) <=> Unchanged(batch[n])
      BY <3>3 DEF Unchanged
    <3>5. Differs(c)
      BY <2>2, <3>4 DEF Differs
    <3> QED
      BY <3>1, <3>2, <3>5 DEF Differs
  <2> QED
    BY <2>4, <2>5, <2>6, <2>7, <2>8 DEF SoundAt
<1>6. ASSUME NEW i \in DOMAIN batch, i # n PROVE SoundAt(i)'
  <2>1. SoundAt(i) /\ batch'[i] = batch[i] /\ worker'[i] = worker[i]
    BY <1>1, <1>2, <1>3, <1>6 DEF AllSound
  <2>2. worker'[i] \in {"queued", "missed"} => batch[i].valid
    BY <2>1 DEF SoundAt
  <2> QED
    BY <1>1, <2>1, <2>2, OthersKeep
<1>7. AllSound'
  BY <1>2, <1>5, <1>6 DEF AllSound
<1> QED
  BY <1>4, <1>7 DEF Inv

(* A thread takes a task.                                                  *)
LEMMA StartEvaluationSound ==
  ASSUME Inv, NEW i \in DOMAIN worker, StartEvaluation(i)
  PROVE  Inv'
<1>1. PICK key : key = Key(Files(batch[i]))
  OBVIOUS
<1>2. /\ pc = "evaluate" /\ worker[i] = "queued"
      /\ UNCHANGED <<mode, current, k, pc, at, fixVars, passed>>
  BY DEF StartEvaluation, NextTask, modeVars
<1>3. i \in DOMAIN batch /\ i \in 1 .. Len(batch) /\ batch[i] \in CandidateSet /\ SoundAt(i)
  <2>1. i \in 1 .. Len(batch) /\ batch \in Seq(CandidateSet)
    BY <1>2 DEF Inv, Types
  <2> QED
    BY <2>1, ElementOfSeq DEF Inv, AllSound
<1>4. CASE worker' = [worker EXCEPT ![i] = "missed"] /\ UNCHANGED <<batch, cache>>
  <2>1. Types'
    BY <1>2, <1>4 DEF Inv, Types, InHand, fixVars
  <2>2. ASSUME NEW j \in DOMAIN batch PROVE SoundAt(j)'
    <3>1. Types /\ SoundAt(j)
      BY DEF Inv, AllSound
    <3>2. worker'[j] \in {"queued", "missed"} => batch[j].valid
      BY <1>2, <1>4, <3>1 DEF SoundAt, Types
    <3> QED
      BY <1>2, <1>4, <3>1, <3>2, OthersKeep
  <2> QED
    BY <1>4, <2>1, <2>2 DEF Inv, AllSound
<1>5. CASE Entries(key) # {}
  <2>1. PICK e : e = cache[CHOOSE j \in Entries(key) : TRUE]
    OBVIOUS
  <2>2. /\ cache' = Append(Without(key), e)
        /\ batch' = [batch EXCEPT ![i].report = Report(e.of, Handed(i, e))]
        /\ worker' = [worker EXCEPT ![i] = "done"]
    BY <1>1, <1>5, <2>1 DEF StartEvaluation
  <2>3. e \in EntrySet /\ e.key = key /\ cache \in Seq(EntrySet)
    <3>1. PICK j \in Entries(key) : e = cache[j]
      BY <1>5, <2>1
    <3>2. j \in 1 .. Len(cache) /\ cache \in Seq(EntrySet) /\ cache[j].key = key
      BY <3>1 DEF Entries, Inv, Types
    <3> QED
      BY <3>1, <3>2, ElementOfSeq
  <2>4. cache' \in Seq(EntrySet)
    BY <2>2, <2>3, WithoutTyped, AppendProperties
  <2>5. PICK c : c = [batch[i] EXCEPT !.report = Report(e.of, Own(i))]
    OBVIOUS
  <2>6. batch' = [batch EXCEPT ![i] = c]
    BY <2>2, <2>5 DEF Handed
  <2>7. e.of \in FilesSet /\ Own(i) \in Nat \X Nat
    BY <1>3, <2>3 DEF EntrySet, Own, Inv, Types
  <2>8. Report(e.of, Own(i)) \in ReportSet
    BY <2>7 DEF Report, ReportSet
  <2>9. /\ c \in CandidateSet /\ c.report = Report(e.of, Own(i))
        /\ c.edit = batch[i].edit /\ c.code = batch[i].code /\ c.config = batch[i].config
        /\ c.valid = batch[i].valid /\ c.stage = batch[i].stage
        /\ c.jittered = batch[i].jittered
    BY <1>3, <2>5, <2>8 DEF CandidateSet
  <2>10. Plain[e.of[1]] = Plain[batch[i].code] /\ e.of[2] = batch[i].config
    BY <1>1, <2>3 DEF EntrySet, Key, Files
  <2>11. /\ c.edit = batch[i].edit /\ Files(c) = Files(batch[i])
         /\ c.valid <=> c.stage = "ok"
         /\ Plain[c.report.of[1]] = Plain[c.code] /\ c.report.of[2] = c.config
         /\ c.report.object = Own(i)
    BY <1>3, <2>9, <2>10 DEF Files, SoundAt, Report
  <2> QED
    BY <1>2, <1>3, <2>2, <2>4, <2>6, <2>9, <2>11, TaskEnds
<1> QED
  BY <1>1, <1>4, <1>5 DEF StartEvaluation

(* A thread brings a result.                                               *)
LEMMA FinishEvaluationSound ==
  ASSUME Inv, NEW i \in DOMAIN worker, FinishEvaluation(i)
  PROVE  Inv'
<1>1. PICK files : files = Files(batch[i])
  OBVIOUS
<1>2. PICK key : key = Key(files)
  OBVIOUS
<1>a. pc = "evaluate"
  BY DEF FinishEvaluation
<1>3. /\ pc = "evaluate" /\ worker[i] = "missed" /\ worker' = [worker EXCEPT ![i] = "done"]
      /\ UNCHANGED <<mode, current, k, pc, at, fixVars, passed>>
  BY DEF FinishEvaluation, modeVars
<1>4. /\ i \in DOMAIN batch /\ i \in 1 .. Len(batch) /\ batch[i] \in CandidateSet
      /\ SoundAt(i) /\ cache \in Seq(EntrySet) /\ k \in Nat
  <2>1. i \in 1 .. Len(batch) /\ batch \in Seq(CandidateSet)
    BY <1>a DEF Inv, Types
  <2> QED
    BY <2>1, ElementOfSeq DEF Inv, AllSound, Types
<1>5. files \in FilesSet /\ key \in FilesSet
  <2>1. files \in FilesSet
    BY <1>1, <1>4 DEF CandidateSet, Files, FilesSet
  <2> QED
    BY <1>2, <2>1, BatchAssumption DEF Key, FilesSet
<1>6. CASE Outcome[files] = "error"
  <2>1. batch' = [batch EXCEPT ![i] = Rejected(batch[i], "eval_error")] /\ cache' = cache
    BY <1>1, <1>6 DEF FinishEvaluation
  <2>2. PICK c : c = Rejected(batch[i], "eval_error")
    OBVIOUS
  <2>3. /\ c \in CandidateSet /\ c.edit = batch[i].edit /\ ~ c.valid /\ c.stage # "ok"
        /\ c.code = batch[i].code /\ c.config = batch[i].config
        /\ c.report = batch[i].report /\ c.jittered = batch[i].jittered
    BY <1>4, <2>2 DEF Rejected, CandidateSet, Stages
  <2>4. c.report # NoReport =>
          /\ Plain[c.report.of[1]] = Plain[c.code] /\ c.report.of[2] = c.config
          /\ c.report.object = Own(i)
    BY <1>4, <2>3 DEF SoundAt, ReportOwn
  <2>5. /\ batch' = [batch EXCEPT ![i] = c] /\ Files(c) = Files(batch[i])
        /\ cache' \in Seq(EntrySet)
    BY <1>4, <2>1, <2>2, <2>3 DEF Files
  <2> QED
    BY <1>3, <1>4, <2>3, <2>4, <2>5, TaskEnds
<1>7. CASE Outcome[files] # "error"
  <2>1. PICK e : e = [key |-> key, of |-> files, object |-> key]
    OBVIOUS
  <2>2. /\ batch' = [batch EXCEPT ![i].report = Report(files, Own(i))]
        /\ cache' = Inserted(e) \/ cache' = cache
    BY <1>1, <1>2, <1>7, <2>1 DEF FinishEvaluation
  <2>3. e \in EntrySet
    BY <1>2, <1>5, <2>1 DEF EntrySet
  <2>4. cache' \in Seq(EntrySet)
    BY <1>4, <2>2, <2>3, InsertedTyped
  <2>5. PICK c : c = [batch[i] EXCEPT !.report = Report(files, Own(i))]
    OBVIOUS
  <2>6. batch' = [batch EXCEPT ![i] = c]
    BY <2>2, <2>5
  <2>7. Report(files, Own(i)) \in ReportSet
    BY <1>4, <1>5 DEF Report, ReportSet, Own
  <2>8. /\ c \in CandidateSet /\ c.report = Report(files, Own(i))
        /\ c.edit = batch[i].edit /\ c.code = batch[i].code /\ c.config = batch[i].config
        /\ c.valid = batch[i].valid /\ c.stage = batch[i].stage
        /\ c.jittered = batch[i].jittered
    BY <1>4, <2>5, <2>7 DEF CandidateSet
  <2>9. /\ c.edit = batch[i].edit /\ Files(c) = Files(batch[i])
        /\ c.valid <=> c.stage = "ok"
        /\ Plain[c.report.of[1]] = Plain[c.code] /\ c.report.of[2] = c.config
        /\ c.report.object = Own(i)
    BY <1>1, <1>4, <2>8 DEF Files, SoundAt, Report
  <2> QED
    BY <1>3, <1>4, <2>4, <2>6, <2>8, <2>9, TaskEnds
<1> QED
  BY <1>6, <1>7

(* The threads are done.                                                   *)
LEMMA FinishBatchSound ==
  ASSUME Inv, FinishBatch
  PROVE  Inv'
<1>1. pc = "evaluate" /\ pc' = "select" /\ UNCHANGED <<batch, at>>
  BY DEF FinishBatch
<1>2. RestTyped
  BY DEF FinishBatch, RestTyped, Inv, Types, modeVars, fixVars, evalVars
<1> QED
  BY <1>1, <1>2, BatchStays

(* The gates' verdict and the end of the run.                              *)
LEMMA ConcludeSound ==
  ASSUME Inv, NEW winner \in Evaluated \cup {0}, Conclude(winner)
  PROVE  Inv'
<1>1. /\ pc' = "generate" /\ batch' = << >> /\ passed' = {} /\ fixing' = NoEdit /\ rounds' = 0
      /\ mode' \in {mode, "explore", "exploit"} /\ UNCHANGED <<k, at, cache>>
      /\ \/ current' = current
         \/ winner # 0 /\ current' = <<batch[winner].edit.code, batch[winner].edit.config>>
  BY DEF Conclude
<1>2. current' \in FilesSet
  <2>1. CASE winner # 0 /\ current' = <<batch[winner].edit.code, batch[winner].edit.config>>
    <3>1. winner \in 1 .. Len(batch) /\ batch \in Seq(CandidateSet)
      BY <2>1 DEF Evaluated, Inv, Types
    <3>2. batch[winner] \in CandidateSet
      BY <3>1, ElementOfSeq
    <3> QED
      BY <2>1, <3>2 DEF CandidateSet, EditType, FilesSet
  <2> QED
    BY <1>1, <2>1 DEF Inv, Types
<1>3. NoEdit \in EditType
  BY BatchAssumption DEF NoEdit, Edit, EditType
<1>4. Types'
  BY <1>1, <1>2, <1>3 DEF Inv, Types, Phases, InHand, Judging
<1>5. AllSound'
  BY <1>1 DEF AllSound
<1> QED
  BY <1>4, <1>5 DEF Inv

LEMMA FinishSound ==
  ASSUME Inv, Finish
  PROVE  Inv'
<1>1. /\ pc = "generate" /\ pc' = "stopped"
      /\ UNCHANGED <<mode, current, k, batch, at, fixVars, passed, cache, worker>>
  BY DEF Finish, modeVars, evalVars
<1>2. Types'
  BY <1>1 DEF Inv, Types, Phases, InHand, Judging, fixVars
<1>3. ASSUME NEW i \in DOMAIN batch PROVE SoundAt(i)'
  <2>1. SoundAt(i)
    BY DEF Inv, AllSound
  <2>2. /\ ~ Guarded(i)' /\ batch'[i] = batch[i]
        /\ Unjittered(i)' => Unjittered(i)
    BY <1>1 DEF Guarded, Unjittered, Judging
  <2>3. /\ batch[i].valid <=> batch[i].stage = "ok"
        /\ Alive(batch[i]) => Validated(batch[i])
        /\ batch[i].report = NoReport
        /\ Unjittered(i) => ~ batch[i].jittered
    BY <1>1, <2>1 DEF SoundAt
  <2> QED
    BY <1>1, <2>2, <2>3 DEF SoundAt, Alive, Validated, NoReport
<1> QED
  BY <1>1, <1>2, <1>3 DEF Inv, AllSound

-----------------------------------------------------------------------------
(* The invariant *)

LEMMA InitInv == Init => Inv
<1> SUFFICES ASSUME Init PROVE Inv
  OBVIOUS
<1>1. Types
  BY BatchAssumption DEF Init, Types, FilesSet, Phases, InHand, Judging, NoEdit, Edit, EditType
<1>2. AllSound
  BY DEF Init, AllSound
<1> QED
  BY <1>1, <1>2 DEF Inv

LEMMA StutterInv ==
  ASSUME Inv, UNCHANGED vars
  PROVE  Inv'
<1>1. UNCHANGED <<mode, current, k, pc, batch, at, fixing, rounds, passed, cache, worker>>
  BY DEF vars, modeVars, fixVars, evalVars
<1>2. Types'
  BY <1>1 DEF Inv, Types
<1>3. ASSUME NEW i \in DOMAIN batch PROVE SoundAt(i)'
  <2>1. Types /\ SoundAt(i)
    BY DEF Inv, AllSound
  <2>2. worker'[i] \in {"queued", "missed"} /\ pc' = "evaluate" => batch[i].valid
    BY <1>1, <2>1 DEF SoundAt
  <2> QED
    BY <1>1, <2>1, <2>2, OthersKeep
<1> QED
  BY <1>1, <1>2, <1>3 DEF Inv, AllSound

(* Every step keeps the invariant.                                         *)
LEMMA StepInv == Inv /\ [Next]_vars => Inv'
<1> SUFFICES ASSUME Inv, [Next]_vars PROVE Inv'
  OBVIOUS
<1>1. ASSUME NEW answers \in Batches, Generate(answers) PROVE Inv'
  BY <1>1, GenerateSound
<1>2. CASE Process
  BY <1>2, SkipsSound, ProcessEditSound, RepairSound DEF Process
<1>3. CASE Guard
  BY <1>3, SkipsSound, CheckExploitSound, JitterSound, CheckBehaviourSound DEF Guard
<1>4. CASE Evaluate
  BY <1>4, SubmitSound, StartEvaluationSound, FinishEvaluationSound, FinishBatchSound
     DEF Evaluate
<1>5. ASSUME NEW winner \in Evaluated \cup {0}, Conclude(winner) PROVE Inv'
  BY <1>5, ConcludeSound
<1>6. CASE Finish
  BY <1>6, FinishSound
<1>7. CASE UNCHANGED vars
  BY <1>7, StutterInv
<1> QED
  BY <1>1, <1>2, <1>3, <1>4, <1>5, <1>6, <1>7 DEF Next

THEOREM Invariance == Spec => []Inv
<1> QED
  BY InitInv, StepInv, PTL DEF Spec

(* What is backtested is what preflight passed and what a commit would     *)
(* write: codemod, repair rounds and jitter keep a candidate's code,       *)
(* configuration and edit together.                                        *)
THEOREM EvaluatedIsValidated == Spec => []EvaluatedWasValidated
<1>1. Inv => EvaluatedWasValidated
  BY DEF Inv, AllSound, SoundAt, Alive, Validated, EvaluatedWasValidated, Evaluated
<1> QED
  BY <1>1, Invariance, PTL


(* A backtest of the incumbent's own files is rejected in exploit mode for *)
(* its configuration, if that is like itself, and in explore mode for its  *)
(* behaviour, unless comparing that took too long.                         *)
THEOREM NoNoOp == Spec => []NoNoOpBacktested
<1>1. Inv => NoNoOpBacktested
  <2> SUFFICES ASSUME Inv, NEW i \in Evaluated, Files(batch[i]) = current
               PROVE  IF mode = "explore" THEN current \in Slow
                      ELSE Alike(current[2], current[2], {current[2]}) < 999
    BY DEF NoNoOpBacktested
  <2>1. i \in DOMAIN batch /\ i \in 1 .. Len(batch) /\ batch \in Seq(CandidateSet)
        /\ SoundAt(i) /\ batch[i].report # NoReport /\ current \in FilesSet
        /\ mode \in {"explore", "exploit"}
    BY DEF Evaluated, Inv, Types, AllSound
  <2>2. Differs(batch[i])
    BY <2>1 DEF SoundAt, Guarded, Judging, Alive
  <2>3. batch[i].config = current[2] /\ current[2] \in Configs
    BY <2>1 DEF Files, FilesSet
  <2>4. Alike(current[2], current[2], {current[2]}) \in Int
    <3>1. PICK c : c = current[2]
      OBVIOUS
    <3>2. PICK t : t = <<c, c, {c} \cup {c}>>
      OBVIOUS
    <3>3. t \in Configs \X Configs \X SUBSET Configs
      BY <2>3, <3>1, <3>2
    <3>4. Similarity[t] \in 0 .. 1000
      <4> DEFINE Triples == Configs \X Configs \X SUBSET Configs
                 Grades  == 0 .. 1000
      <4>1. Similarity \in [Triples -> Grades] /\ t \in Triples
        BY <3>3, BatchAssumption
      <4> HIDE DEF Triples, Grades
      <4>2. Similarity[t] \in Grades
        BY <4>1
      <4> QED
        BY <4>2 DEF Grades
    <3>5. Alike(current[2], current[2], {current[2]}) = Similarity[t]
      BY <3>1, <3>2 DEF Alike
    <3> QED
      BY <3>4, <3>5
  <2>5. CASE mode = "explore"
    BY <2>2, <2>5 DEF Differs
  <2>6. CASE mode = "exploit"
    BY <2>2, <2>3, <2>4, <2>6 DEF Differs, Unchanged
  <2> QED
    BY <2>1, <2>5, <2>6
<1> QED
  BY <1>1, Invariance, PTL

-----------------------------------------------------------------------------
(* The cache *)

(* Deflation only ever meets a candidate's own copy.                       *)
LEMMA CacheStaysClean ==
  ASSUME ObjectsApart, Inv, dirty = {}, [Next]_vars
  PROVE  dirty' = {}
<1>1. CASE \E winner \in Evaluated \cup {0} : Conclude(winner)
  <2>1. dirty' = dirty \cup ({batch[i].report.object : i \in Evaluated}
                               \cap {cache[j].object : j \in DOMAIN cache})
    BY <1>1 DEF Conclude
  <2>2. ASSUME NEW i \in Evaluated PROVE batch[i].report.object = <<k, i>>
    BY <2>2 DEF Evaluated, Inv, AllSound, SoundAt, ReportOwn, Own
  <2>3. ASSUME NEW j \in DOMAIN cache PROVE cache[j].object \in FilesSet
    <3>1. j \in 1 .. Len(cache) /\ cache \in Seq(EntrySet)
      BY DEF Inv, Types
    <3> QED
      BY <3>1, ElementOfSeq DEF EntrySet
  <2>4. ASSUME NEW i \in Evaluated PROVE <<k, i>> \notin FilesSet
    <3>1. k \in Nat
      BY DEF Inv, Types
    <3> QED
      BY <3>1 DEF FilesSet, ObjectsApart
  <2> QED
    BY <2>1, <2>2, <2>3, <2>4
<1>2. CASE \E i \in DOMAIN worker : FinishEvaluation(i)
  BY <1>2 DEF FinishEvaluation
<1>3. CASE UNCHANGED vars
  BY <1>3 DEF vars, evalVars
<1>4. CASE dirty' = dirty
  BY <1>4
<1>5. CASE \E answers \in Batches : Generate(answers)
  BY <1>5 DEF Generate, evalVars
<1>6. CASE Process
  BY <1>6 DEF Process, SkipFailedCall, ProcessEdit, Repair, RepairFails, RepairRefused, evalVars
<1>7. CASE Guard
  BY <1>7 DEF Guard, SkipInvalid, KeepConfig, CheckExploit, Jitter, CheckBehaviour, evalVars
<1>8. CASE Submit \/ FinishBatch \/ Finish \/ \E i \in DOMAIN worker : StartEvaluation(i)
  BY <1>8 DEF Submit, FinishBatch, Finish, StartEvaluation, evalVars
<1> QED
  BY <1>1, <1>2, <1>3, <1>5, <1>6, <1>7, <1>8 DEF Next, Evaluate

(* The report a candidate is judged by is of its own code, comments aside, *)
(* and configuration, in an object no deflation has touched and no other   *)
(* candidate holds, for any number of threads and any size of the cache.   *)
THEOREM CacheInvisible ==
  ASSUME ObjectsApart
  PROVE  Spec => []CacheTransparent
<1>1. Init => dirty = {}
  BY DEF Init
<1>2. Inv /\ dirty = {} /\ [Next]_vars => (dirty = {})'
  BY CacheStaysClean
<1>3. Inv /\ dirty = {} => CacheTransparent
  BY DEF Inv, AllSound, SoundAt, ReportOwn, Own, CacheTransparent, Evaluated
<1> QED
  BY <1>1, <1>2, <1>3, Invariance, PTL DEF Spec

-----------------------------------------------------------------------------
(* Jitter *)

\* only later phases give a candidate up for its behaviour or its backtest
Undecided ==
  pc \in {"process", "repair", "diversity"} =>
    \A i \in DOMAIN batch : batch[i].stage \notin WentOn \ {"ok"}

\* what a step may make of a candidate without bringing it closer to others
Kept(c, d) ==
  /\ d.config = c.config /\ (d.jittered => c.jittered)
  /\ d.stage \in WentOn <=> c.stage \in WentOn

LEMMA ApartKept ==
  ASSUME Inv, Apart, tried' = tried, DOMAIN batch' = DOMAIN batch,
         \A i \in DOMAIN batch : Kept(batch[i], batch'[i])
  PROVE  Apart'
<1> SUFFICES ASSUME NEW i \in DOMAIN batch, batch'[i].jittered PROVE ApartAt(i)'
  BY DEF Apart, ApartAt
<1>1. \A f \in PoolBefore(i) : Alike(batch[i].config, f, PoolBefore(i)) < Threshold
  BY DEF Apart, ApartAt, Kept
<1>2. \A j \in 1 .. i - 1 : j \in DOMAIN batch
  BY DEF Inv, Types
<1>3. PoolBefore(i)' = PoolBefore(i)
  BY <1>2 DEF PoolBefore, Recent, Kept
<1>4. batch'[i].config = batch[i].config
  BY DEF Kept
<1> QED
  BY <1>1, <1>3, <1>4 DEF ApartAt, Alike

(* In exploit mode, and before the diversity check, no candidate is        *)
(* jittered.                                                               *)
LEMMA NoneJittered ==
  ASSUME Inv', \/ mode' = "exploit" \/ pc' \in {"process", "repair"}
               \/ pc' = "diversity" /\ at' = 1
  PROVE  Apart'
<1>1. ASSUME NEW i \in DOMAIN batch' PROVE ~ batch'[i].jittered
  <2>1. i \in Nat /\ i >= 1
    BY DEF Inv, Types
  <2> QED
    BY <2>1 DEF Inv, AllSound, SoundAt, Unjittered
<1> QED
  BY <1>1 DEF Apart, ApartAt

\* The two go together.
Diverse == Apart /\ Undecided

LEMMA OneKept ==
  ASSUME Inv, Diverse, tried' = tried, NEW n \in DOMAIN batch, NEW c,
         batch' = [batch EXCEPT ![n] = c], Kept(batch[n], c),
         pc' \in {"process", "repair", "diversity"} =>
           pc \in {"process", "repair", "diversity"} /\ c.stage \notin WentOn \ {"ok"}
  PROVE  Diverse'
<1>1. /\ DOMAIN batch' = DOMAIN batch
      /\ \A i \in DOMAIN batch : batch'[i] = IF i = n THEN c ELSE batch[i]
  BY DEF Inv, Types
<1>2. \A i \in DOMAIN batch : Kept(batch[i], batch'[i])
  BY <1>1 DEF Kept
<1> QED
  BY <1>1, <1>2, ApartKept DEF Diverse, Undecided

LEMMA AllKept ==
  ASSUME Inv, Diverse, tried' = tried, batch' = batch,
         pc' \in {"process", "repair", "diversity"} => pc \in {"process", "repair", "diversity"}
  PROVE  Diverse'
<1>1. \A i \in DOMAIN batch : Kept(batch[i], batch'[i])
  BY DEF Kept
<1> QED
  BY <1>1, ApartKept DEF Diverse, Undecided

(* A turn of processing ends or goes to repair.                            *)
LEMMA ProcessDiverse ==
  ASSUME Inv, Inv', Diverse, Process
  PROVE  Diverse'
<1>1. pc \in {"process", "repair"}
  BY DEF Process, SkipFailedCall, ProcessEdit, Repair, RepairFails, RepairRefused
<1>2. ASSUME NEW ok, NEW edit, NEW calls, Settle(ok, edit, calls) PROVE Diverse'
  <2>1. at \in DOMAIN batch
    BY <1>1 DEF Inv, Types, InHand
  <2>2. PICK c : c = Settled(batch[at], ok, edit, calls)
    OBVIOUS
  <2>3. batch' = [batch EXCEPT ![at] = c] /\ Advance("process")
    BY <1>2, <2>2 DEF Settle
  <2>4. batch[at] \in CandidateSet
    BY <1>1, Hand DEF InHand
  <2>5. c.stage \in {"ok", "validation"}
    BY <2>2, <2>4 DEF Settled, CandidateSet
  <2>6. pc' = "process" \/ (pc' = "diversity" /\ at' = 1)
    BY <2>3 DEF Advance, Following
  <2>7. Apart'
    BY <2>6, NoneJittered
  <2>8. Undecided'
    BY <1>1, <2>1, <2>3, <2>5 DEF Undecided, Diverse, WentOn, Inv, Types
  <2> QED
    BY <2>7, <2>8 DEF Diverse
<1>3. ASSUME batch' = batch, tried' = tried PROVE Diverse'
  BY <1>1, <1>3, AllKept
<1> QED
  BY <1>2, <1>3 DEF Process, SkipFailedCall, ProcessEdit, Repair, RepairFails, RepairRefused,
     modeVars

(* A verdict on a candidate that was valid.                                *)
LEMMA VerdictDiverse ==
  ASSUME Inv, Diverse, NEW stage \in WentOn \ {"ok"}, NEW n \in DOMAIN batch,
         batch[n].valid, tried' = tried,
         batch' = [batch EXCEPT ![n] = Rejected(batch[n], stage)] \/ batch' = batch,
         pc' \notin {"process", "repair", "diversity"}
  PROVE  Diverse'
<1>1. CASE batch' = [batch EXCEPT ![n] = Rejected(batch[n], stage)]
  <2>1. PICK c : c = Rejected(batch[n], stage)
    OBVIOUS
  <2>2. batch[n] \in CandidateSet
    <3>1. n \in 1 .. Len(batch) /\ batch \in Seq(CandidateSet)
      BY DEF Inv, Types
    <3> QED
      BY <3>1, ElementOfSeq
  <2>3. c.stage = stage /\ c.config = batch[n].config /\ c.jittered = batch[n].jittered
    BY <2>1, <2>2 DEF Rejected, CandidateSet
  <2>4. batch[n].stage = "ok"
    BY DEF Inv, AllSound, SoundAt
  <2>5. Kept(batch[n], c) /\ batch' = [batch EXCEPT ![n] = c]
    BY <1>1, <2>1, <2>3, <2>4 DEF Kept, WentOn
  <2> QED
    BY <2>3, <2>5, OneKept
<1>2. CASE batch' = batch
  BY <1>2, AllKept
<1> QED
  BY <1>1, <1>2

(* A mutation is chosen apart from the pool.                               *)
LEMMA JitterDiverse ==
  ASSUME Inv, Diverse, NEW g \in Configs, NEW ok \in BOOLEAN, Jitter(g, ok)
  PROVE  Diverse'
<1>1. PICK c : c = batch[at]
  OBVIOUS
<1>2. /\ pc = "diversity" /\ c.valid /\ g \in Jittered(c) /\ tried' = tried
      /\ batch' = [batch EXCEPT ![at] = Salvaged(c, g, ok)]
      /\ Advance("diversity") /\ mode = "explore"
  BY <1>1 DEF Jitter, modeVars
<1>3. at \in DOMAIN batch /\ at \in Nat /\ c \in CandidateSet /\ c.stage = "ok"
  BY <1>1, <1>2, Hand DEF InHand, SoundAt
<1>4. CASE ~ ok
  <2>1. Salvaged(c, g, ok) = c
    BY <1>4 DEF Salvaged
  <2>2. batch' = batch
    BY <1>1, <1>2, <1>3, <2>1, Hand DEF InHand
  <2> QED
    BY <1>2, <2>2, AllKept
<1>5. CASE ok
  <2>1. PICK d : d = Salvaged(c, g, ok)
    OBVIOUS
  <2>2. d.config = g /\ d.stage = "ok"
    BY <1>3, <1>5, <2>1 DEF Salvaged, CandidateSet
  <2>3. /\ DOMAIN batch' = DOMAIN batch
        /\ \A i \in DOMAIN batch : batch'[i] = IF i = at THEN d ELSE batch[i]
    BY <1>2, <1>3, <2>1 DEF Inv, Types
  <2>4. \A j \in 1 .. at - 1 : j \in DOMAIN batch /\
          (batch[j].stage \in WentOn <=> batch[j].valid)
    <3>1. \A j \in 1 .. at - 1 : j \in DOMAIN batch
      BY <1>3 DEF Inv, Types
    <3> QED
      BY <1>2, <3>1 DEF Diverse, Undecided, Inv, AllSound, SoundAt, WentOn
  <2>5. \A f \in PoolBefore(at) : Alike(g, f, PoolBefore(at)) < Threshold
    <3>1. Pool = PoolBefore(at)
      BY <2>4 DEF Pool, PoolBefore
    <3> QED
      BY <1>2, <3>1 DEF Jittered
  <2>6. ASSUME NEW i \in DOMAIN batch, batch'[i].jittered PROVE ApartAt(i)'
    <3>1. i \in Nat /\ \A j \in 1 .. i - 1 : j \in DOMAIN batch
      BY DEF Inv, Types
    <3>2. CASE i = at
      <4>1. batch'[i] = d /\ \A j \in 1 .. i - 1 : batch'[j] = batch[j]
        BY <1>3, <2>3, <3>1, <3>2
      <4>2. PoolBefore(i)' = PoolBefore(i)
        BY <1>2, <4>1 DEF PoolBefore, Recent
      <4> QED
        BY <2>2, <2>5, <3>2, <4>1, <4>2 DEF ApartAt, Alike
    <3>3. CASE i # at
      <4>1. batch'[i] = batch[i] /\ i < at
        <5>1. batch'[i] = batch[i]
          BY <2>3, <3>3
        <5>2. ~ Unjittered(i)
          BY <2>6, <5>1 DEF Inv, AllSound, SoundAt
        <5> QED
          BY <1>2, <1>3, <3>1, <5>1, <5>2 DEF Unjittered
      <4>2. \A j \in 1 .. i - 1 : batch'[j] = batch[j]
        BY <1>3, <2>3, <3>1, <4>1
      <4>3. ApartAt(i) /\ batch[i].jittered
        BY <2>6, <4>1 DEF Diverse, Apart
      <4>4. PoolBefore(i)' = PoolBefore(i)
        BY <1>2, <4>2 DEF PoolBefore, Recent
      <4> QED
        BY <4>1, <4>3, <4>4 DEF ApartAt, Alike
    <3> QED
      BY <3>2, <3>3
  <2>7. Apart'
    BY <2>3, <2>6 DEF Apart, ApartAt
  <2>8. Undecided'
    BY <1>2, <2>2, <2>3 DEF Diverse, Undecided
  <2> QED
    BY <2>7, <2>8 DEF Diverse
<1> QED
  BY <1>4, <1>5

(* The guards.                                                             *)
LEMMA GuardDiverse ==
  ASSUME Inv, Inv', Diverse, Guard
  PROVE  Diverse'
<1>1. CASE SkipInvalid \/ KeepConfig
  <2>1. batch' = batch /\ tried' = tried /\ pc \in {"diversity", "behaviour"} /\ Advance(pc)
    BY <1>1 DEF SkipInvalid, KeepConfig, modeVars
  <2>2. pc' \in {"process", "repair", "diversity"} => pc \in {"process", "repair", "diversity"}
    BY <2>1 DEF Advance, Following
  <2> QED
    BY <2>1, <2>2, AllKept
<1>2. CASE CheckExploit
  <2>1. /\ pc = "diversity" /\ batch[at].valid /\ mode = "exploit" /\ mode' = mode
        /\ batch' = [batch EXCEPT ![at] = IF Unchanged(batch[at])
                       THEN Rejected(batch[at], "exploit_no_change") ELSE batch[at]]
    BY <1>2 DEF CheckExploit, modeVars
  <2>2. at \in DOMAIN batch /\ batch[at] \in CandidateSet
    BY <2>1, Hand DEF InHand
  <2>3. Apart'
    BY <2>1, NoneJittered
  <2>4. PICK c : c = Rejected(batch[at], "exploit_no_change")
    OBVIOUS
  <2>5. c.stage = "exploit_no_change"
    BY <2>2, <2>4 DEF Rejected, CandidateSet
  <2>6. /\ DOMAIN batch' = DOMAIN batch
        /\ \A i \in DOMAIN batch : batch'[i] = batch[i] \/ batch'[i] = c
    BY <2>1, <2>2, <2>4 DEF Inv, Types
  <2>7. Undecided'
    BY <2>1, <2>5, <2>6 DEF Diverse, Undecided, WentOn
  <2> QED
    BY <2>3, <2>7 DEF Diverse
<1>3. ASSUME NEW identical, CheckBehaviour(identical) PROVE Diverse'
  <2>1. /\ pc = "behaviour" /\ batch[at].valid /\ tried' = tried /\ Advance("behaviour")
        /\ batch' = [batch EXCEPT ![at] = IF identical
                       THEN Rejected(batch[at], "identical_behavior") ELSE batch[at]]
    BY <1>3 DEF CheckBehaviour, modeVars
  <2>2. at \in DOMAIN batch /\ [batch EXCEPT ![at] = batch[at]] = batch
    BY <2>1, Hand DEF InHand
  <2>3. batch' = [batch EXCEPT ![at] = Rejected(batch[at], "identical_behavior")]
          \/ batch' = batch
    BY <2>1, <2>2
  <2>4. "identical_behavior" \in WentOn \ {"ok"}
        /\ pc' \notin {"process", "repair", "diversity"}
    BY <2>1 DEF WentOn, Advance, Following
  <2> QED
    BY <2>1, <2>2, <2>3, <2>4, VerdictDiverse
<1> QED
  BY <1>1, <1>2, <1>3, JitterDiverse DEF Guard

(* The backtests.                                                          *)
LEMMA EvaluateDiverse ==
  ASSUME Inv, Diverse, Evaluate
  PROVE  Diverse'
<1>1. CASE Submit \/ FinishBatch
  BY <1>1, AllKept DEF Submit, FinishBatch, modeVars
<1>2. ASSUME NEW i \in DOMAIN worker, StartEvaluation(i) \/ FinishEvaluation(i)
      PROVE  Diverse'
  <2>1. /\ pc = "evaluate" /\ pc' = "evaluate" /\ tried' = tried
        /\ worker[i] \in {"queued", "missed"}
    BY <1>2 DEF StartEvaluation, FinishEvaluation, NextTask, modeVars
  <2>2. i \in DOMAIN batch /\ batch[i] \in CandidateSet /\ batch[i].valid
    <3>1. i \in 1 .. Len(batch) /\ batch \in Seq(CandidateSet)
      BY <2>1 DEF Inv, Types
    <3> QED
      BY <2>1, <3>1, ElementOfSeq DEF Inv, AllSound, SoundAt
  <2>3. \/ batch' = batch
        \/ batch' = [batch EXCEPT ![i] = Rejected(batch[i], "eval_error")]
        \/ \E r : batch' = [batch EXCEPT ![i].report = r]
    BY <1>2 DEF StartEvaluation, FinishEvaluation
  <2>4. ASSUME NEW r, batch' = [batch EXCEPT ![i].report = r] PROVE Diverse'
    <3>1. PICK c : c = [batch[i] EXCEPT !.report = r]
      OBVIOUS
    <3>2. batch' = [batch EXCEPT ![i] = c]
      BY <2>4, <3>1
    <3>3. Kept(batch[i], c)
      BY <2>2, <3>1 DEF Kept, CandidateSet
    <3> QED
      BY <2>1, <2>2, <3>2, <3>3, OneKept
  <2>5. "eval_error" \in WentOn \ {"ok"}
    BY DEF WentOn
  <2> QED
    BY <2>1, <2>2, <2>3, <2>4, <2>5, VerdictDiverse
<1> QED
  BY <1>1, <1>2 DEF Evaluate

(* Every step keeps jittered candidates apart.                             *)
LEMMA StepDiverse == Inv /\ Inv' /\ Diverse /\ [Next]_vars => Diverse'
<1> SUFFICES ASSUME Inv, Inv', Diverse, [Next]_vars PROVE Diverse'
  OBVIOUS
<1>1. ASSUME NEW answers \in Batches, Generate(answers) PROVE Diverse'
  <2>1. batch' = [i \in DOMAIN answers |-> Candidate(answers[i])] /\ answers \in Seq(Answers)
    BY <1>1, BatchAssumption DEF Generate
  <2>2. ASSUME NEW i \in DOMAIN batch'
        PROVE  ~ batch'[i].jittered /\ batch'[i].stage \in {"raw", "llm_error"}
    <3>1. i \in 1 .. Len(answers) /\ batch'[i] = Candidate(answers[i])
      BY <2>1
    <3>2. answers[i] \in Answers
      BY <2>1, <3>1, ElementOfSeq
    <3> QED
      BY <3>1, <3>2, CandidateTyped
  <2> QED
    BY <2>2 DEF Diverse, Apart, ApartAt, Undecided, WentOn
<1>2. CASE Process
  BY <1>2, ProcessDiverse
<1>3. CASE Guard
  BY <1>3, GuardDiverse
<1>4. CASE Evaluate
  BY <1>4, EvaluateDiverse
<1>5. ASSUME NEW winner \in Evaluated \cup {0}, Conclude(winner) PROVE Diverse'
  <2>1. batch' = << >>
    BY <1>5 DEF Conclude
  <2> QED
    BY <2>1 DEF Diverse, Apart, Undecided
<1>6. CASE Finish \/ UNCHANGED vars
  BY <1>6, AllKept DEF Finish, vars, modeVars
<1> QED
  BY <1>1, <1>2, <1>3, <1>4, <1>5, <1>6 DEF Next

(* A jittered candidate stands apart from the recent configurations and    *)
(* from every candidate before it that went on, at any threshold and for   *)
(* any similarity.                                                         *)
THEOREM JitteredApart == Spec => []JitteredStandsApart
<1>1. Init => Diverse
  BY DEF Init, Diverse, Apart, Undecided
<1>2. Inv /\ Inv' /\ Diverse /\ [Next]_vars => Diverse'
  BY StepDiverse
<1>3. Diverse => JitteredStandsApart
  BY DEF Diverse, Apart, ApartAt, WentOn, JitteredStandsApart
<1> QED
  BY <1>1, <1>2, <1>3, Invariance, PTL DEF Spec

-----------------------------------------------------------------------------
(* Bounds *)

(* The candidates of a batch are taken in turn, up to the evaluation.      *)
LEMMA TurnShape ==
  ASSUME Inv, Process \/ Guard
  PROVE  /\ pc \in InHand /\ DOMAIN batch' = DOMAIN batch
         /\ UNCHANGED <<k, noAccept, tried, cache, worker>>
         /\ \/ pc' \in InHand
            \/ pc' = "submit" /\ at' = 1
            \/ pc' = "raised" /\ at' = at
<1>1. ASSUME NEW phase \in {"process", "diversity", "behaviour"}, pc \in InHand, Advance(phase)
      PROVE  pc' \in InHand \/ (pc' = "submit" /\ at' = 1)
  BY <1>1 DEF Advance, Following, InHand
<1>2. ASSUME NEW ok, NEW edit, NEW calls, pc \in InHand, Settle(ok, edit, calls)
      PROVE  /\ DOMAIN batch' = DOMAIN batch
             /\ pc' \in InHand \/ (pc' = "submit" /\ at' = 1)
  BY <1>1, <1>2 DEF Settle
<1>3. CASE SkipFailedCall \/ SkipInvalid \/ KeepConfig
  BY <1>1, <1>3 DEF SkipFailedCall, SkipInvalid, KeepConfig, InHand, modeVars, evalVars
<1>4. CASE \E ok \in BOOLEAN : ProcessEdit(ok)
  <2>1. /\ pc \in InHand /\ UNCHANGED <<modeVars, k, evalVars>>
        /\ \/ \E ok, edit, calls : Settle(ok, edit, calls)
           \/ pc' = "repair" /\ batch' = batch
    BY <1>4 DEF ProcessEdit, InHand
  <2> QED
    BY <1>2, <2>1 DEF InHand, modeVars, evalVars
<1>5. CASE \E answer \in Answers, ok \in BOOLEAN : Repair(answer, ok)
  <2>1. /\ pc \in InHand /\ UNCHANGED <<modeVars, k, evalVars>>
        /\ \/ \E ok, edit, calls : Settle(ok, edit, calls)
           \/ pc' = pc /\ batch' = batch
    BY <1>5 DEF Repair, InHand
  <2> QED
    BY <1>2, <2>1 DEF modeVars, evalVars
<1>6. CASE \E answer \in Answers : RepairFails(answer) \/ RepairRefused(answer)
  <2>1. /\ pc \in InHand /\ UNCHANGED <<modeVars, k, evalVars>>
        /\ \/ \E ok, edit, calls : Settle(ok, edit, calls)
           \/ pc' = "raised" /\ at' = at /\ batch' = batch
    BY <1>6 DEF RepairFails, RepairRefused, InHand
  <2> QED
    BY <1>2, <2>1 DEF modeVars, evalVars
<1>7. CASE CheckExploit \/ (\E g \in Configs, ok \in BOOLEAN : Jitter(g, ok))
  <2>1. /\ pc = "diversity" /\ UNCHANGED <<modeVars, k, evalVars>> /\ Advance("diversity")
        /\ DOMAIN batch' = DOMAIN batch
    BY <1>7 DEF CheckExploit, Jitter
  <2> QED
    BY <1>1, <2>1 DEF InHand, modeVars, evalVars
<1>8. CASE \E identical \in BOOLEAN : CheckBehaviour(identical)
  <2>1. /\ pc = "behaviour" /\ UNCHANGED <<modeVars, k, evalVars>> /\ Advance("behaviour")
        /\ DOMAIN batch' = DOMAIN batch
    BY <1>8 DEF CheckBehaviour
  <2> QED
    BY <1>1, <2>1 DEF InHand, modeVars, evalVars
<1> QED
  BY <1>3, <1>4, <1>5, <1>6, <1>7, <1>8 DEF Process, Guard

(* The evaluation works on the batch as it is.                             *)
LEMMA EvaluateShape ==
  ASSUME Inv, Evaluate
  PROVE  /\ pc \in {"submit", "evaluate"} /\ pc' \in {"evaluate", "select"}
         /\ DOMAIN batch' = DOMAIN batch
         /\ UNCHANGED <<k, noAccept, tried, at, fixing, rounds, iterCost>>
<1>1. CASE Submit \/ FinishBatch
  BY <1>1 DEF Submit, FinishBatch, modeVars, fixVars
<1>2. CASE \E i \in DOMAIN worker : StartEvaluation(i)
  BY <1>2 DEF StartEvaluation, modeVars, fixVars
<1>3. CASE \E i \in DOMAIN worker : FinishEvaluation(i)
  BY <1>3 DEF FinishEvaluation, modeVars, fixVars
<1> QED
  BY <1>1, <1>2, <1>3 DEF Evaluate

Iterations ==
  /\ k <= MaxIterations /\ noAccept \in Nat /\ noAccept <= k
  /\ pc \in InHand \cup Judging => noAccept < k

(* An iteration without a winner is counted once.                          *)
LEMMA IterationsKept == Inv /\ Iterations /\ [Next]_vars => Iterations'
<1> SUFFICES ASSUME Inv, Iterations, [Next]_vars PROVE Iterations'
  OBVIOUS
<1>0. k \in Nat /\ MaxIterations \in Nat
  BY BatchAssumption DEF Inv, Types
<1>1. CASE \E answers \in Batches : Generate(answers)
  <2>1. k' = k + 1 /\ k < MaxIterations /\ noAccept' = noAccept
    BY <1>1 DEF Generate
  <2> QED
    BY <1>0, <2>1 DEF Iterations
<1>2. CASE \E winner \in Evaluated \cup {0} : Conclude(winner)
  <2>1. /\ k' = k /\ pc = "select" /\ pc' = "generate"
        /\ noAccept' = noAccept + 1 \/ noAccept' = 0
    BY <1>2 DEF Conclude
  <2> QED
    BY <1>0, <2>1 DEF Iterations, InHand, Judging
<1>3. CASE Process \/ Guard \/ Evaluate \/ Finish \/ UNCHANGED vars
  <2>1. UNCHANGED <<k, noAccept>>
        /\ (pc' \in InHand \cup Judging => pc \in InHand \cup Judging)
    BY <1>3, TurnShape, EvaluateShape DEF Finish, InHand, Judging, vars, modeVars
  <2> QED
    BY <2>1 DEF Iterations
<1> QED
  BY <1>1, <1>2, <1>3 DEF Next

RoundsBounded == rounds <= MaxRepairs /\ (pc = "repair" => rounds < MaxRepairs)

(* A candidate is not sent for repair more often than allowed.             *)
LEMMA RoundsKept == Inv /\ RoundsBounded /\ [Next]_vars => RoundsBounded'
<1> SUFFICES ASSUME Inv, RoundsBounded, [Next]_vars PROVE RoundsBounded'
  OBVIOUS
<1>0. rounds \in Nat /\ MaxRepairs \in Nat
  BY BatchAssumption DEF Inv, Types
<1>1. CASE rounds' = rounds /\ pc' # "repair"
  BY <1>1 DEF RoundsBounded
<1>2. \A phase \in {"process", "diversity", "behaviour"} : Advance(phase) => pc' # "repair"
  BY DEF Advance, Following
<1>3. \A ok, edit, calls : Settle(ok, edit, calls) => pc' # "repair"
  BY <1>2 DEF Settle
<1>4. CASE \E answers \in Batches : Generate(answers)
  BY <1>1, <1>4 DEF Generate, fixVars
<1>5. CASE Process
  <2>1. ASSUME NEW ok \in BOOLEAN, ProcessEdit(ok) PROVE RoundsBounded'
    <3>1. \/ rounds' = rounds /\ \E edit, calls : Settle(ok, edit, calls)
          \/ rounds' = 0 /\ MaxRepairs # 0
      BY <2>1 DEF ProcessEdit, fixVars
    <3> QED
      BY <1>0, <1>1, <1>3, <3>1 DEF RoundsBounded
  <2>2. ASSUME NEW answer \in Answers, NEW ok \in BOOLEAN, Repair(answer, ok)
        PROVE  RoundsBounded'
    <3>1. /\ pc = "repair" /\ rounds' = rounds + 1
          /\ \/ \E edit, calls : Settle(ok, edit, calls)
             \/ rounds + 1 # MaxRepairs
      BY <2>2 DEF Repair
    <3> QED
      BY <1>0, <1>3, <3>1 DEF RoundsBounded
  <2>3. ASSUME NEW answer \in Answers, RepairFails(answer) \/ RepairRefused(answer)
        PROVE  RoundsBounded'
    BY <1>1, <1>3, <2>3 DEF RepairFails, RepairRefused, fixVars
  <2>4. CASE SkipFailedCall
    BY <1>1, <1>2, <2>4 DEF SkipFailedCall, fixVars
  <2> QED
    BY <1>5, <2>1, <2>2, <2>3, <2>4 DEF Process
<1>6. CASE Guard
  <2>1. rounds' = rounds /\ \E phase \in {"diversity", "behaviour"} : Advance(phase)
    <3>1. CASE SkipInvalid \/ KeepConfig \/ CheckExploit
      BY <3>1 DEF SkipInvalid, KeepConfig, CheckExploit, fixVars
    <3>2. CASE \E g \in Configs, ok \in BOOLEAN : Jitter(g, ok)
      BY <3>2 DEF Jitter, fixVars
    <3>3. CASE \E identical \in BOOLEAN : CheckBehaviour(identical)
      BY <3>3 DEF CheckBehaviour, fixVars
    <3> QED
      BY <1>6, <3>1, <3>2, <3>3 DEF Guard
  <2> QED
    BY <1>1, <1>2, <2>1
<1>7. CASE Evaluate
  BY <1>1, <1>7, EvaluateShape
<1>8. CASE \E winner \in Evaluated \cup {0} : Conclude(winner)
  BY <1>0, <1>8 DEF Conclude, RoundsBounded
<1>9. CASE Finish
  BY <1>1, <1>9 DEF Finish, fixVars
<1>10. CASE UNCHANGED vars
  BY <1>10 DEF RoundsBounded, vars, fixVars
<1> QED
  BY <1>4, <1>5, <1>6, <1>7, <1>8, <1>9, <1>10 DEF Next

AtInBatch == batch # << >> => at \in DOMAIN batch

(* There is always a candidate in hand.                                    *)
LEMMA AtKept == Inv /\ Inv' /\ AtInBatch /\ [Next]_vars => AtInBatch'
<1> SUFFICES ASSUME Inv, Inv', AtInBatch, [Next]_vars PROVE AtInBatch'
  OBVIOUS
<1>0. /\ DOMAIN batch = 1 .. Len(batch) /\ Len(batch) \in Nat
      /\ DOMAIN batch' = 1 .. Len(batch') /\ Len(batch') \in Nat
      /\ batch \in Seq(CandidateSet) /\ batch' \in Seq(CandidateSet)
      /\ pc' \in InHand => at' \in DOMAIN batch'
  BY DEF Inv, Types
<1>1. CASE \E answers \in Batches : Generate(answers)
  <2>1. PICK answers \in Batches : Generate(answers)
    BY <1>1
  <2>2. /\ answers \in Seq(Answers) /\ Len(answers) = BatchSize
        /\ batch' = [i \in DOMAIN answers |-> Candidate(answers[i])] /\ at' = 1
    BY <2>1, BatchAssumption DEF Generate
  <2> QED
    BY <2>2, BatchNonEmpty DEF AtInBatch
<1>2. CASE Process \/ Guard
  <2>1. DOMAIN batch' = DOMAIN batch /\ pc \in InHand /\ at \in DOMAIN batch
    BY <1>2, TurnShape DEF Inv, Types
  <2>2. 1 \in DOMAIN batch
    BY <1>0, <2>1
  <2> QED
    BY <1>0, <1>2, <2>1, <2>2, TurnShape DEF AtInBatch
<1>3. CASE Evaluate
  <2>1. DOMAIN batch' = DOMAIN batch /\ at' = at
    BY <1>3, EvaluateShape
  <2>2. batch' # << >> => batch # << >>
    BY <1>0, <2>1
  <2> QED
    BY <2>1, <2>2 DEF AtInBatch
<1>4. CASE \E winner \in Evaluated \cup {0} : Conclude(winner)
  BY <1>4 DEF Conclude, AtInBatch
<1>5. CASE Finish \/ UNCHANGED vars
  BY <1>5 DEF Finish, vars, AtInBatch
<1> QED
  BY <1>1, <1>2, <1>3, <1>4, <1>5 DEF Next

CostTyped == iterCost \in Nat

(* The cost of an iteration is a number.                                   *)
LEMMA CostKept == Inv /\ Inv' /\ CostTyped /\ [Next]_vars => CostTyped'
<1> SUFFICES ASSUME Inv, Inv', CostTyped, [Next]_vars PROVE CostTyped'
  OBVIOUS
<1>1. ASSUME NEW ok, NEW edit, NEW calls, Settle(ok, edit, calls), pc \in InHand
      PROVE  CostTyped'
  <2>1. at \in DOMAIN batch /\ DOMAIN batch' = DOMAIN batch /\ batch' \in Seq(CandidateSet)
    BY <1>1 DEF Settle, Inv, Types
  <2>2. batch'[at] \in CandidateSet
    BY <2>1, ElementOfSeq
  <2>3. batch'[at].edit.cost \in Nat
    BY <2>2 DEF CandidateSet, EditType
  <2>4. iterCost' = iterCost + batch'[at].edit.cost
    BY <1>1 DEF Settle
  <2> QED
    BY <2>3, <2>4 DEF CostTyped
<1>2. CASE Process
  <2>1. \/ \E ok, edit, calls : Settle(ok, edit, calls) /\ pc \in InHand
        \/ iterCost' = iterCost
    BY <1>2 DEF Process, SkipFailedCall, ProcessEdit, Repair, RepairFails, RepairRefused, InHand
  <2> QED
    BY <1>1, <2>1 DEF CostTyped
<1>3. CASE Guard
  BY <1>3 DEF Guard, SkipInvalid, KeepConfig, CheckExploit, Jitter, CheckBehaviour, CostTyped
<1>4. CASE Evaluate
  BY <1>4, EvaluateShape DEF CostTyped
<1>5. CASE (\E answers \in Batches : Generate(answers)) \/ Finish \/ UNCHANGED vars
  BY <1>5 DEF Generate, Finish, vars, CostTyped
<1>6. CASE \E winner \in Evaluated \cup {0} : Conclude(winner)
  <2>1. iterCost' = 0
    BY <1>6 DEF Conclude
  <2> QED
    BY <2>1 DEF CostTyped
<1> QED
  BY <1>2, <1>3, <1>4, <1>5, <1>6 DEF Next

TriedTyped == tried \in Seq(Configs)

(* The last ones of configurations are configurations.                     *)
LEMMA LastOnesTyped ==
  ASSUME NEW s \in Seq(Configs)
  PROVE  LastOnes(s) \in Seq(Configs)
<1>1. Len(s) \in Nat /\ RecentConfigs \in Nat
  BY BatchAssumption
<1>2. PICK m \in Int : m = AtLeast(1, Len(s) - RecentConfigs + 1) /\ m >= 1
  BY <1>1 DEF AtLeast
<1>3. \A i \in m .. Len(s) : s[i] \in Configs
  <2>1. \A i \in 1 .. Len(s) : s[i] \in Configs
    BY ElementOfSeq
  <2> QED
    BY <1>1, <1>2, <2>1
<1>4. SubSeq(s, m, Len(s)) \in Seq(Configs)
  BY <1>1, <1>3, SubSeqProperties
<1> QED
  BY <1>2, <1>4 DEF LastOnes

(* What was tried are configurations: the winner's first, then those of    *)
(* the other candidates that were backtested.                              *)
LEMMA TriedKept == Inv /\ TriedTyped /\ [Next]_vars => TriedTyped'
<1> SUFFICES ASSUME Inv, TriedTyped, [Next]_vars PROVE TriedTyped'
  OBVIOUS
<1>1. CASE \E winner \in Evaluated \cup {0} : Conclude(winner)
  <2>1. PICK winner \in Evaluated \cup {0} : Conclude(winner)
    BY <1>1
  <2> DEFINE rest == Evaluated \ {winner}
             others == Picked(batch, rest)
             first == IF winner = 0 THEN << >> ELSE <<batch[winner].edit.config>>
             second == [j \in DOMAIN others |-> others[j].config]
  <2>2. tried' = LastOnes(tried \o first \o second)
    BY <2>1 DEF Conclude
  <2>3. /\ DOMAIN batch = 1 .. Len(batch) /\ Len(batch) \in Nat
        /\ \A i \in DOMAIN batch : batch[i] \in CandidateSet
    BY ElementOfSeq, LenProperties DEF Inv, Types
  <2>4. rest \in SUBSET (1 .. Len(batch)) /\ rest \in SUBSET Int /\ IsFiniteSet(rest)
    <3>1. rest \in SUBSET (1 .. Len(batch))
      BY <2>3 DEF Evaluated
    <3>2. IsFiniteSet(1 .. Len(batch))
      BY <2>3, FS_Interval
    <3> QED
      BY <3>1, <3>2, FS_Subset
  <2> HIDE DEF rest
  <2>5. Cardinality(rest) \in Nat /\ \A j \in 1 .. Cardinality(rest) : Nth(rest, j) \in rest
    BY <2>4, NthElement, FS_CardinalityType
  <2>6. /\ DOMAIN others = 1 .. Cardinality(rest)
        /\ \A j \in 1 .. Cardinality(rest) : others[j] = batch[Nth(rest, j)]
    BY DEF Picked
  <2> HIDE DEF others
  <2>7. second \in Seq(Configs)
    <3>1. \A j \in 1 .. Cardinality(rest) : others[j].config \in Configs
      <4> TAKE j \in 1 .. Cardinality(rest)
      <4>1. others[j] \in CandidateSet
        BY <2>3, <2>4, <2>5, <2>6
      <4> QED
        BY <4>1 DEF CandidateSet
    <3>2. second = [j \in 1 .. Cardinality(rest) |-> others[j].config]
      BY <2>6
    <3> QED
      BY <2>5, <3>1, <3>2
  <2>8. first \in Seq(Configs)
    <3>1. CASE winner # 0
      <4>1. batch[winner] \in CandidateSet
        BY <2>3, <3>1 DEF Evaluated
      <4>2. batch[winner].edit.config \in Configs
        BY <4>1 DEF CandidateSet, EditType
      <4> QED
        BY <4>2
    <3> QED
      BY <3>1
  <2> HIDE DEF first, second
  <2>9. tried \o first \o second \in Seq(Configs)
    <3>1. tried \o first \in Seq(Configs)
      BY <2>8, ConcatProperties DEF TriedTyped
    <3> QED
      BY <2>7, <3>1, ConcatProperties
  <2> QED
    BY <2>2, <2>9, LastOnesTyped DEF TriedTyped
<1>2. CASE \/ \E answers \in Batches : Generate(answers)
           \/ Process \/ Guard \/ Evaluate \/ Finish \/ UNCHANGED vars
  <2>1. tried' = tried
    BY <1>2, TurnShape, EvaluateShape DEF Generate, Finish, vars, modeVars
  <2> QED
    BY <2>1 DEF TriedTyped
<1> QED
  BY <1>1, <1>2 DEF Next

\* Only what goes on has a report, and no thread brings one twice.
ReportsOnce ==
  /\ \A i \in DOMAIN batch : batch[i].report # NoReport => batch[i].valid
  /\ pc = "evaluate" => \A i \in DOMAIN batch :
       worker[i] \in {"queued", "missed"} => batch[i].report = NoReport
  /\ \A i \in DOMAIN worker : worker[i] \in {"out", "queued", "missed", "done"}

(* A candidate that a backtest rejected has no report.                     *)
LEMMA ReportsKept == Inv /\ Inv' /\ ReportsOnce /\ [Next]_vars => ReportsOnce'
<1> SUFFICES ASSUME Inv, Inv', ReportsOnce, [Next]_vars PROVE ReportsOnce'
  OBVIOUS
<1>1. CASE pc' \notin {"evaluate", "select"} /\ worker' \in {worker, << >>}
  <2>1. \A i \in DOMAIN batch' : batch'[i].report = NoReport
    BY <1>1 DEF Inv, AllSound, SoundAt, NoReport
  <2> QED
    BY <1>1, <2>1 DEF ReportsOnce, NoReport
<1>2. CASE Process \/ Guard
  <2>1. pc' \notin {"evaluate", "select"} /\ worker' = worker
    BY <1>2, TurnShape DEF InHand
  <2> QED
    BY <1>1, <2>1
<1>3. CASE \/ \E answers \in Batches : Generate(answers)
           \/ Finish
           \/ \E winner \in Evaluated \cup {0} : Conclude(winner)
  <2>1. pc' \notin {"evaluate", "select"} /\ worker' \in {worker, << >>}
    BY <1>3 DEF Generate, Finish, Conclude, evalVars
  <2> QED
    BY <1>1, <2>1
<1>4. CASE Submit
  <2>1. /\ pc = "submit" /\ batch' = batch
        /\ worker' = [i \in DOMAIN batch |-> IF batch[i].valid THEN "queued" ELSE "out"]
    BY <1>4 DEF Submit
  <2>2. \A i \in DOMAIN batch : batch[i].report = NoReport
    BY <2>1 DEF Inv, AllSound, SoundAt
  <2> QED
    BY <2>1, <2>2 DEF ReportsOnce, NoReport
<1>5. ASSUME NEW n \in DOMAIN worker, StartEvaluation(n) \/ FinishEvaluation(n)
      PROVE  ReportsOnce'
  <2>1. /\ pc = "evaluate" /\ pc' = pc /\ worker[n] \in {"queued", "missed"}
        /\ \/ batch' = batch /\ worker' = [worker EXCEPT ![n] = "missed"]
           \/ /\ worker' = [worker EXCEPT ![n] = "done"]
              /\ \/ \E r : batch' = [batch EXCEPT ![n].report = r]
                 \/ batch' = [batch EXCEPT ![n] = Rejected(batch[n], "eval_error")]
    BY <1>5 DEF StartEvaluation, FinishEvaluation, NextTask
  <2>2. n \in DOMAIN batch /\ batch[n].valid /\ batch[n].report = NoReport
        /\ batch \in Seq(CandidateSet) /\ DOMAIN worker = DOMAIN batch
    BY <2>1 DEF Inv, Types, AllSound, SoundAt, ReportsOnce
  <2>3. batch[n] \in CandidateSet
    BY <2>2, ElementOfSeq
  <2>4. CASE batch' = batch /\ worker' = [worker EXCEPT ![n] = "missed"]
    BY <2>1, <2>2, <2>4 DEF ReportsOnce
  <2>5. ASSUME NEW c, batch' = [batch EXCEPT ![n] = c], c.report # NoReport => c.valid,
               worker' = [worker EXCEPT ![n] = "done"]
        PROVE  ReportsOnce'
    BY <2>1, <2>2, <2>5 DEF ReportsOnce
  <2>6. ASSUME NEW r, batch' = [batch EXCEPT ![n].report = r],
               worker' = [worker EXCEPT ![n] = "done"]
        PROVE  ReportsOnce'
    <3>1. [batch[n] EXCEPT !.report = r].valid
      BY <2>2, <2>3 DEF CandidateSet
    <3>2. batch' = [batch EXCEPT ![n] = [batch[n] EXCEPT !.report = r]]
      BY <2>6
    <3> HIDE DEF NoReport
    <3> QED
      BY <2>5, <2>6, <3>1, <3>2
  <2>7. CASE /\ batch' = [batch EXCEPT ![n] = Rejected(batch[n], "eval_error")]
             /\ worker' = [worker EXCEPT ![n] = "done"]
    <3>1. Rejected(batch[n], "eval_error").report = NoReport
      BY <2>2, <2>3 DEF Rejected, CandidateSet
    <3> QED
      BY <2>5, <2>7, <3>1
  <2> QED
    BY <2>1, <2>4, <2>6, <2>7
<1>6. CASE FinishBatch
  BY <1>6 DEF FinishBatch, ReportsOnce, evalVars
<1>7. CASE UNCHANGED vars
  BY <1>7 DEF ReportsOnce, vars, evalVars
<1> QED
  BY <1>2, <1>3, <1>4, <1>5, <1>6, <1>7 DEF Next, Evaluate

KeysUnique(c) == \A i, j \in DOMAIN c : c[i].key = c[j].key => i = j

CacheBounded == Len(cache) <= CacheSize /\ KeysUnique(cache)

(* Without its entry, a key is not in the cache.                           *)
LEMMA WithoutKeeps ==
  ASSUME NEW key, cache \in Seq(EntrySet), KeysUnique(cache)
  PROVE  /\ KeysUnique(Without(key))
         /\ \A i \in DOMAIN Without(key) : Without(key)[i].key # key
         /\ Len(Without(key)) = IF Entries(key) = {} THEN Len(cache) ELSE Len(cache) - 1
<1>1. CASE Entries(key) = {}
  BY <1>1 DEF Without, Entries
<1>2. CASE Entries(key) # {}
  <2>1. PICK j \in Entries(key) : Without(key) = RemoveAt(cache, j)
    BY <1>2 DEF Without
  <2>2. j \in 1 .. Len(cache) /\ Len(cache) \in Nat /\ cache[j].key = key
    BY <2>1 DEF Entries
  <2> DEFINE s == SubSeq(cache, 1, j - 1)
             t == SubSeq(cache, j + 1, Len(cache))
             w == s \o t
  <2>3. \A i \in 1 .. Len(cache) : cache[i] \in EntrySet
    BY ElementOfSeq
  <2>4. /\ s \in Seq(EntrySet) /\ Len(s) = j - 1
        /\ \A i \in 1 .. j - 1 : s[i] = cache[i]
    <3>1. \A i \in 1 .. j - 1 : cache[i] \in EntrySet
      BY <2>2, <2>3
    <3> QED
      BY <2>2, <3>1, SubSeqProperties
  <2>5. /\ t \in Seq(EntrySet) /\ Len(t) = Len(cache) - j
        /\ \A i \in 1 .. Len(cache) - j : t[i] = cache[i + j]
    <3>1. \A i \in j + 1 .. Len(cache) : cache[i] \in EntrySet
      BY <2>2, <2>3
    <3>2. /\ t \in Seq(EntrySet)
          /\ Len(t) = IF j + 1 <= Len(cache) THEN Len(cache) - (j + 1) + 1 ELSE 0
          /\ \A i \in 1 .. Len(cache) - (j + 1) + 1 : t[i] = cache[(j + 1) + i - 1]
      BY <2>2, <3>1, SubSeqProperties
    <3> HIDE DEF t
    <3> QED
      BY <2>2, <3>2
  <2> HIDE DEF s, t
  <2>6. /\ w \in Seq(EntrySet) /\ Len(w) = Len(s) + Len(t)
        /\ \A i \in 1 .. Len(s) + Len(t) : w[i] = IF i <= Len(s) THEN s[i] ELSE t[i - Len(s)]
    BY <2>4, <2>5, ConcatProperties
  <2> HIDE DEF w
  <2>7. /\ Len(w) = Len(cache) - 1 /\ DOMAIN w = 1 .. Len(cache) - 1
        /\ \A i \in DOMAIN w : w[i] = IF i < j THEN cache[i] ELSE cache[i + 1]
    <3>1. Len(w) = Len(cache) - 1
      BY <2>2, <2>4, <2>5, <2>6
    <3>2. DOMAIN w = 1 .. Len(cache) - 1
      BY <2>6, <3>1, LenProperties
    <3>3. ASSUME NEW i \in 1 .. Len(cache) - 1
          PROVE  w[i] = IF i < j THEN cache[i] ELSE cache[i + 1]
      <4>1. w[i] = IF i <= j - 1 THEN s[i] ELSE t[i - (j - 1)]
        BY <2>2, <2>4, <2>5, <2>6
      <4>2. CASE i < j
        BY <2>2, <2>4, <4>1, <4>2
      <4>3. CASE ~ (i < j)
        <5>1. i - (j - 1) \in 1 .. Len(cache) - j
          BY <2>2, <4>3
        <5>2. t[i - (j - 1)] = cache[i - (j - 1) + j]
          BY <2>5, <5>1
        <5> QED
          BY <2>2, <4>1, <4>3, <5>2
      <4> QED
        BY <4>2, <4>3
    <3> QED
      BY <3>1, <3>2, <3>3
  <2>8. Without(key) = w
    BY <2>1 DEF RemoveAt, w, s, t
  <2>9. \A i \in DOMAIN w : \E n \in DOMAIN cache :
          n # j /\ w[i] = cache[n] /\ n = (IF i < j THEN i ELSE i + 1)
    BY <2>2, <2>7
  <2>10. KeysUnique(w) /\ \A i \in DOMAIN w : w[i].key # key
    <3>1. \A i \in DOMAIN w : w[i].key # key
      BY <2>2, <2>9 DEF KeysUnique
    <3>2. ASSUME NEW i \in DOMAIN w, NEW l \in DOMAIN w, w[i].key = w[l].key PROVE i = l
      <4>1. (IF i < j THEN i ELSE i + 1) = (IF l < j THEN l ELSE l + 1)
        BY <2>9, <3>2 DEF KeysUnique
      <4> QED
        BY <2>2, <2>7, <4>1
    <3> QED
      BY <3>1, <3>2 DEF KeysUnique
  <2> QED
    BY <1>2, <2>7, <2>8, <2>10
<1> QED
  BY <1>1, <1>2

(* An entry at the end of a cache without its key.                         *)
LEMMA AppendKeeps ==
  ASSUME NEW w \in Seq(EntrySet), KeysUnique(w), NEW e \in EntrySet,
         \A i \in DOMAIN w : w[i].key # e.key
  PROVE  /\ Append(w, e) \in Seq(EntrySet) /\ Len(Append(w, e)) = Len(w) + 1
         /\ KeysUnique(Append(w, e))
<1> DEFINE a == Append(w, e)
<1>1. /\ a \in Seq(EntrySet) /\ Len(a) = Len(w) + 1
      /\ \A i \in 1 .. Len(w) : a[i] = w[i]
      /\ a[Len(w) + 1] = e
  BY AppendProperties
<1> HIDE DEF a
<1>2. /\ Len(w) \in Nat /\ DOMAIN w = 1 .. Len(w)
      /\ DOMAIN a = 1 .. Len(w) + 1
  BY <1>1, LenProperties
<1>3. KeysUnique(a)
  <2> SUFFICES ASSUME NEW i \in DOMAIN a, NEW j \in DOMAIN a, a[i].key = a[j].key PROVE i = j
    BY DEF KeysUnique
  <2>1. /\ i \in 1 .. Len(w) \/ i = Len(w) + 1
        /\ j \in 1 .. Len(w) \/ j = Len(w) + 1
    BY <1>2
  <2>2. CASE i \in 1 .. Len(w) /\ j \in 1 .. Len(w)
    BY <1>1, <1>2, <2>2 DEF KeysUnique
  <2>3. CASE i \in 1 .. Len(w) /\ j = Len(w) + 1
    BY <1>1, <1>2, <2>3
  <2>4. CASE j \in 1 .. Len(w) /\ i = Len(w) + 1
    BY <1>1, <1>2, <2>4
  <2> QED
    BY <2>1, <2>2, <2>3, <2>4
<1> QED
  BY <1>1, <1>3 DEF a

(* A full cache gives up its oldest entry.                                 *)
LEMMA InsertedKeeps ==
  ASSUME NEW e \in EntrySet, cache \in Seq(EntrySet), CacheBounded
  PROVE  Len(Inserted(e)) <= CacheSize /\ KeysUnique(Inserted(e))
<1>1. PICK w : w = Without(e.key)
  OBVIOUS
<1>2. /\ w \in Seq(EntrySet) /\ KeysUnique(w) /\ \A i \in DOMAIN w : w[i].key # e.key
      /\ Len(w) \in Nat /\ Len(w) <= CacheSize /\ CacheSize \in Nat
  <2>1. /\ w \in Seq(EntrySet) /\ KeysUnique(w) /\ \A i \in DOMAIN w : w[i].key # e.key
        /\ Len(w) = IF Entries(e.key) = {} THEN Len(cache) ELSE Len(cache) - 1
    BY <1>1, WithoutTyped, WithoutKeeps DEF CacheBounded
  <2>2. Len(w) \in Nat /\ Len(cache) \in Nat /\ CacheSize \in Nat
    BY <2>1, LenProperties, BatchAssumption
  <2>3. Len(w) <= Len(cache)
    BY <2>1, <2>2
  <2> QED
    BY <2>1, <2>2, <2>3 DEF CacheBounded
<1>3. PICK a : a = Append(w, e)
  OBVIOUS
<1>4. a \in Seq(EntrySet) /\ Len(a) = Len(w) + 1 /\ KeysUnique(a) /\ a # << >>
  BY <1>2, <1>3, AppendKeeps, AppendProperties
<1>5. Inserted(e) = IF Len(a) > CacheSize THEN Tail(a) ELSE a
  BY <1>1, <1>3 DEF Inserted
<1>6. PICK t : t = Tail(a)
  OBVIOUS
<1>7. /\ t \in Seq(EntrySet) /\ Len(t) = Len(w)
      /\ \A i \in 1 .. Len(w) : t[i] = a[i + 1]
  <2>1. /\ t \in Seq(EntrySet) /\ Len(t) = Len(a) - 1
        /\ \A i \in 1 .. Len(t) : t[i] = a[i + 1]
    BY <1>4, <1>6, HeadTailProperties
  <2>2. Len(t) = Len(w)
    BY <1>2, <1>4, <2>1
  <2> QED
    BY <2>1, <2>2
<1>8. DOMAIN t = 1 .. Len(w) /\ DOMAIN a = 1 .. Len(w) + 1
  BY <1>4, <1>7, LenProperties
<1>9. KeysUnique(t)
  <2> SUFFICES ASSUME NEW i \in DOMAIN t, NEW j \in DOMAIN t, t[i].key = t[j].key PROVE i = j
    BY DEF KeysUnique
  <2>1. i + 1 \in DOMAIN a /\ j + 1 \in DOMAIN a /\ i \in Nat /\ j \in Nat
    BY <1>2, <1>8
  <2>2. a[i + 1].key = a[j + 1].key
    BY <1>7, <1>8
  <2>3. i + 1 = j + 1
    BY <1>4, <2>1, <2>2 DEF KeysUnique
  <2> QED
    BY <2>1, <2>3
<1>10. CASE Len(a) > CacheSize
  BY <1>2, <1>5, <1>6, <1>7, <1>9, <1>10
<1>11. CASE ~ (Len(a) > CacheSize)
  BY <1>2, <1>4, <1>5, <1>11
<1> QED
  BY <1>10, <1>11

(* The cache keeps to its size, one entry to a key.                        *)
LEMMA CacheKept == Inv /\ CacheBounded /\ [Next]_vars => CacheBounded'
<1> SUFFICES ASSUME Inv, CacheBounded, [Next]_vars PROVE CacheBounded'
  OBVIOUS
<1>0. cache \in Seq(EntrySet)
  BY DEF Inv, Types
<1>1. ASSUME NEW i \in DOMAIN worker, StartEvaluation(i) PROVE CacheBounded'
  <2>1. PICK key : key = Key(Files(batch[i]))
    OBVIOUS
  <2>2. CASE cache' = cache
    BY <2>2 DEF CacheBounded
  <2>3. CASE Entries(key) # {}
    <3>1. PICK e : e = cache[CHOOSE j \in Entries(key) : TRUE]
      OBVIOUS
    <3>2. cache' = Append(Without(key), e)
      BY <1>1, <2>1, <2>3, <3>1 DEF StartEvaluation
    <3>3. e \in EntrySet /\ e.key = key
      <4>1. PICK j \in Entries(key) : e = cache[j]
        BY <2>3, <3>1
      <4>2. j \in 1 .. Len(cache) /\ cache[j].key = key
        BY <4>1 DEF Entries
      <4> QED
        BY <1>0, <4>1, <4>2, ElementOfSeq
    <3>4. PICK w : w = Without(key)
      OBVIOUS
    <3>5. /\ w \in Seq(EntrySet) /\ KeysUnique(w) /\ \A j \in DOMAIN w : w[j].key # e.key
          /\ Len(w) = Len(cache) - 1
      BY <1>0, <2>3, <3>3, <3>4, WithoutTyped, WithoutKeeps DEF CacheBounded
    <3>6. Len(Append(w, e)) = Len(w) + 1 /\ KeysUnique(Append(w, e))
      BY <3>3, <3>5, AppendKeeps
    <3>7. Len(cache) \in Nat
      BY <1>0, LenProperties
    <3>8. cache' = Append(w, e)
      BY <3>2, <3>4
    <3>9. Len(cache') = Len(cache) /\ KeysUnique(cache')
      BY <3>5, <3>6, <3>7, <3>8
    <3> QED
      BY <3>9 DEF CacheBounded
  <2> QED
    BY <1>1, <2>1, <2>2, <2>3 DEF StartEvaluation
<1>2. ASSUME NEW i \in DOMAIN worker, FinishEvaluation(i) PROVE CacheBounded'
  <2>1. PICK files : files = Files(batch[i])
    OBVIOUS
  <2>2. PICK e : e = [key |-> Key(files), of |-> files, object |-> Key(files)]
    OBVIOUS
  <2>3. cache' = cache \/ cache' = Inserted(e)
    BY <1>2, <2>1, <2>2 DEF FinishEvaluation
  <2>4. e \in EntrySet
    <3>0. pc = "evaluate"
      BY <1>2 DEF FinishEvaluation
    <3>1. i \in 1 .. Len(batch) /\ batch \in Seq(CandidateSet)
      BY <1>0, <1>2, <3>0 DEF Inv, Types
    <3>2. batch[i] \in CandidateSet
      BY <3>1, ElementOfSeq
    <3>3. files \in FilesSet
      BY <2>1, <3>2 DEF CandidateSet, Files, FilesSet
    <3>4. Key(files) \in FilesSet
      BY <3>3, BatchAssumption DEF Key, FilesSet
    <3> QED
      BY <2>2, <3>3, <3>4 DEF EntrySet
  <2>5. Len(Inserted(e)) <= CacheSize /\ KeysUnique(Inserted(e))
    BY <1>0, <2>4, InsertedKeeps
  <2> QED
    BY <2>3, <2>5 DEF CacheBounded
<1>3. CASE cache' = cache
  BY <1>3 DEF CacheBounded
<1>4. CASE Process \/ Guard
  BY <1>3, <1>4, TurnShape
<1>5. CASE \/ \E answers \in Batches : Generate(answers)
           \/ Submit \/ FinishBatch \/ Finish \/ UNCHANGED vars
           \/ \E winner \in Evaluated \cup {0} : Conclude(winner)
  BY <1>3, <1>5 DEF Generate, Submit, FinishBatch, Finish, Conclude, vars, evalVars
<1> QED
  BY <1>1, <1>2, <1>4, <1>5 DEF Next, Evaluate

Bounds ==
  /\ Iterations /\ RoundsBounded /\ AtInBatch /\ CostTyped /\ TriedTyped /\ ReportsOnce
  /\ CacheBounded

(* The types and bounds of an iteration: no counter exceeds its limit, the *)
(* cache neither, and only a candidate that no stage rejected is reported. *)
THEOREM TypeCorrect == Spec => []TypeOK
<1>1. Init => Bounds
  <2> SUFFICES ASSUME Init PROVE Bounds
    OBVIOUS
  <2>0. <<BaseConfig>> \in Seq(Configs)
    BY BatchAssumption
  <2>1. LastOnes(<<BaseConfig>>) \in Seq(Configs)
    BY <2>0, LastOnesTyped
  <2>2. TriedTyped
    BY <2>1 DEF Init, TriedTyped
  <2>3. MaxIterations \in Nat /\ MaxRepairs \in Nat /\ CacheSize \in Nat
    BY BatchAssumption
  <2> QED
    BY <2>2, <2>3 DEF Init, Bounds, Iterations, InHand, Judging, RoundsBounded, AtInBatch,
       CostTyped, ReportsOnce, CacheBounded, KeysUnique
<1>2. Inv /\ Inv' /\ Bounds /\ [Next]_vars => Bounds'
  BY IterationsKept, RoundsKept, AtKept, CostKept, TriedKept, ReportsKept, CacheKept DEF Bounds
<1>3. Inv /\ Bounds => TypeOK
  <2> SUFFICES ASSUME Inv, Bounds PROVE TypeOK
    OBVIOUS
  <2>1. /\ mode \in {"explore", "exploit"} /\ current \in Codes \X Configs
        /\ fixing \in EditType /\ iterCost \in Nat /\ at \in Nat
        /\ batch # << >> => at \in DOMAIN batch
    BY DEF Inv, Types, FilesSet, Bounds, CostTyped, AtInBatch
  <2>2. k \in 0 .. MaxIterations /\ noAccept \in 0 .. MaxIterations /\ rounds \in 0 .. MaxRepairs
    <3>1. k \in Nat /\ rounds \in Nat /\ MaxIterations \in Nat /\ MaxRepairs \in Nat
      BY BatchAssumption DEF Inv, Types
    <3> QED
      BY <3>1 DEF Bounds, Iterations, RoundsBounded
  <2>3. \A i \in DOMAIN tried : tried[i] \in Configs
    BY ElementOfSeq DEF Bounds, TriedTyped
  <2>4. \A i \in DOMAIN batch : IsCandidate(batch[i])
    <3> TAKE i \in DOMAIN batch
    <3>1. i \in 1 .. Len(batch) /\ batch \in Seq(CandidateSet) /\ SoundAt(i)
      BY DEF Inv, Types, AllSound
    <3>2. batch[i] \in CandidateSet /\ (batch[i].valid <=> batch[i].stage = "ok")
      BY <3>1, ElementOfSeq DEF SoundAt
    <3> QED
      BY <3>2 DEF CandidateSet, IsCandidate
  <2>5. \A i \in Evaluated : batch[i].valid
    BY DEF Bounds, ReportsOnce, Evaluated
  <2>6. passed \subseteq Codes \X Configs
    BY BatchAssumption DEF Inv, Types
  <2>7. /\ Len(cache) <= CacheSize
        /\ \A i, j \in DOMAIN cache : cache[i].key = cache[j].key => i = j
    BY DEF Bounds, CacheBounded, KeysUnique
  <2>8. \A i \in DOMAIN worker : worker[i] \in {"out", "queued", "missed", "done"}
    BY DEF Bounds, ReportsOnce
  <2> QED
    BY <2>1, <2>2, <2>3, <2>4, <2>5, <2>6, <2>7, <2>8 DEF TypeOK
<1> QED
  BY <1>1, <1>2, <1>3, Invariance, PTL DEF Spec

-----------------------------------------------------------------------------
(* The cost of an iteration *)

\* the calls charged for some candidates, each by its candidate
Bill(b, S) == UNION {{i} \X (1 .. CostOf(b[i])) : i \in S}

\* the candidates whose processing has ended
Billed == {i \in DOMAIN batch : pc \in {"process", "repair"} => i < at}

\* a candidate before its processing: its first edit is paid, or there is none
Pending(c) == \/ c.stage = "raw" /\ c.edit.cost = 1
              \/ c.stage = "llm_error" /\ c.calls = 0

BillSound ==
  pc # "raised" =>
    /\ \A i \in DOMAIN batch \ Billed : Pending(batch[i])
    /\ pc = "repair" => batch[at].stage = "raw" /\ fixing.cost = rounds + 1
    /\ pc \in {"generate", "stopped"} => batch = << >>
    /\ IsFiniteSet(Bill(batch, Billed)) /\ iterCost = Cardinality(Bill(batch, Billed))

(* One more candidate is charged what it cost.                             *)
LEMMA BillGrows ==
  ASSUME NEW b, NEW S, NEW i, i \notin S, IsFiniteSet(Bill(b, S)), CostOf(b[i]) \in Nat
  PROVE  /\ IsFiniteSet(Bill(b, S \cup {i}))
         /\ Cardinality(Bill(b, S \cup {i})) = Cardinality(Bill(b, S)) + CostOf(b[i])
<1>1. PICK n \in Nat : n = CostOf(b[i])
  OBVIOUS
<1>2. Bill(b, S \cup {i}) = Bill(b, S) \cup ({i} \X (1 .. n))
  BY <1>1 DEF Bill
<1>3. \A m \in Bill(b, S) : m[1] # i
  BY DEF Bill
<1>4. /\ IsFiniteSet(Bill(b, S) \cup ({i} \X (1 .. n)))
      /\ Cardinality(Bill(b, S) \cup ({i} \X (1 .. n))) = Cardinality(Bill(b, S)) + n
  BY <1>3, MarksAdded
<1> QED
  BY <1>1, <1>2, <1>4

(* A step that changes no candidate's calls leaves the bill as it is.      *)
LEMMA BillStays ==
  ASSUME BillSound, {pc, pc'} \subseteq {"diversity", "behaviour", "submit", "evaluate", "select"},
         DOMAIN batch' = DOMAIN batch, iterCost' = iterCost,
         \A i \in DOMAIN batch : CostOf(batch'[i]) = CostOf(batch[i])
  PROVE  BillSound'
<1>1. Billed = DOMAIN batch /\ Billed' = DOMAIN batch
  BY DEF Billed
<1>2. Bill(batch, DOMAIN batch)' = Bill(batch, DOMAIN batch)
  BY DEF Bill
<1> QED
  BY <1>1, <1>2 DEF BillSound

(* When the processing of a candidate ends, its edits are on the bill.     *)
LEMMA TurnBilled ==
  ASSUME Inv, BillSound, pc \in {"process", "repair"}, Advance("process"),
         NEW n, batch' = [batch EXCEPT ![at] = n], CostOf(n) \in Nat,
         iterCost' = iterCost + CostOf(n)
  PROVE  BillSound'
<1>1. /\ DOMAIN batch = 1 .. Len(batch) /\ at \in DOMAIN batch /\ Len(batch) \in Nat
      /\ DOMAIN batch' = DOMAIN batch
  BY DEF Inv, Types, InHand
<1>2. \/ pc' = "process" /\ at' = at + 1
      \/ pc' = "diversity" /\ at = Len(batch)
  BY <1>1, Advances DEF Inv, InHand
<1>3. Billed = 1 .. at - 1
  BY <1>1 DEF Billed
<1>4. Billed' = Billed \cup {at}
  <2>1. Billed' = {i \in DOMAIN batch : pc' = "process" => i < at'}
    BY <1>1, <1>2 DEF Billed
  <2> QED
    BY <1>1, <1>2, <1>3, <2>1
<1>5. batch'[at] = n /\ \A i \in DOMAIN batch \ {at} : batch'[i] = batch[i]
  BY <1>1
<1>6. Bill(batch', Billed) = Bill(batch, Billed)
  <2>1. \A i \in Billed : batch'[i] = batch[i]
    BY <1>1, <1>3, <1>5
  <2> QED
    BY <2>1 DEF Bill
<1>7. /\ IsFiniteSet(Bill(batch, Billed)) /\ iterCost = Cardinality(Bill(batch, Billed))
      /\ \A i \in DOMAIN batch \ Billed : Pending(batch[i])
  BY DEF BillSound
<1>8. at \notin Billed
  BY <1>1, <1>3
<1>9. /\ IsFiniteSet(Bill(batch', Billed \cup {at}))
      /\ Cardinality(Bill(batch', Billed \cup {at})) = Cardinality(Bill(batch', Billed)) + CostOf(batch'[at])
  BY <1>5, <1>6, <1>7, <1>8, BillGrows
<1>10. Bill(batch, Billed)' = Bill(batch', Billed \cup {at})
  BY <1>4
<1>11. \A i \in DOMAIN batch' \ Billed' : Pending(batch'[i])
  BY <1>1, <1>4, <1>5, <1>7
<1>12. \A i \in DOMAIN batch' \ Billed' : Pending(batch[i])'
  BY <1>11 DEF Pending
<1>13. /\ IsFiniteSet(Bill(batch, Billed)') /\ iterCost' = Cardinality(Bill(batch, Billed)')
  BY <1>5, <1>6, <1>7, <1>9, <1>10
<1> QED
  BY <1>2, <1>12, <1>13 DEF BillSound

(* The tail of a candidate's processing charges the edits it is left with. *)
LEMMA SettleBilled ==
  ASSUME Inv, BillSound, pc \in {"process", "repair"}, NEW ok \in BOOLEAN, NEW edit,
         NEW calls \in Nat, Settle(ok, edit, calls), batch[at].stage = "raw",
         ok => edit.cost = calls
  PROVE  BillSound'
<1>1. at \in DOMAIN batch /\ batch[at] \in CandidateSet
  BY Hand DEF InHand
<1>2. batch[at].edit.cost = 1
  <2>1. at \notin Billed /\ pc # "raised"
    BY <1>1 DEF Billed, Inv, Types
  <2>2. Pending(batch[at])
    BY <1>1, <2>1 DEF BillSound
  <2> QED
    BY <2>2 DEF Pending
<1>3. PICK n : n = Settled(batch[at], ok, edit, calls)
  OBVIOUS
<1>4. /\ n.edit = (IF ok THEN edit ELSE batch[at].edit)
      /\ n.stage = (IF ok THEN "ok" ELSE "validation") /\ n.calls = calls
  BY <1>1, <1>3 DEF Settled, CandidateSet
<1>5. CostOf(n) = n.edit.cost /\ CostOf(n) \in Nat
  BY <1>2, <1>4 DEF CostOf
<1>6. batch' = [batch EXCEPT ![at] = n] /\ batch'[at] = n
  BY <1>1, <1>3 DEF Settle
<1>7. iterCost' = iterCost + CostOf(n) /\ Advance("process")
  BY <1>5, <1>6 DEF Settle
<1> QED
  BY <1>5, <1>6, <1>7, TurnBilled

(* Candidates are processed one by one, each charged when its turn ends.   *)
LEMMA ProcessBilled == Inv /\ BillSound /\ Process => BillSound'
<1> SUFFICES ASSUME Inv, BillSound, Process PROVE BillSound'
  OBVIOUS
<1>0. /\ pc \in {"process", "repair"} /\ at \in DOMAIN batch /\ batch[at] \in CandidateSet
      /\ at \notin Billed /\ at \in Nat
  <2>1. pc \in {"process", "repair"}
    BY DEF Process, SkipFailedCall, ProcessEdit, Repair, RepairFails, RepairRefused
  <2> QED
    BY <2>1, Hand DEF InHand, Billed
<1>1. Pending(batch[at]) /\ (pc = "repair" => batch[at].stage = "raw" /\ fixing.cost = rounds + 1)
  BY <1>0 DEF BillSound
<1>2. rounds \in Nat /\ fixing \in EditType
  BY DEF Inv, Types
<1>3. CASE SkipFailedCall
  <2>1. CostOf(batch[at]) = 0
    BY <1>1, <1>3 DEF SkipFailedCall, Pending, CostOf
  <2>2. batch' = [batch EXCEPT ![at] = batch[at]] /\ iterCost' = iterCost
    BY <1>0, <1>3, Hand DEF SkipFailedCall, InHand
  <2>3. iterCost \in Nat
    BY <1>0, FS_CardinalityType DEF BillSound
  <2>4. iterCost' = iterCost + CostOf(batch[at])
    BY <2>1, <2>2, <2>3
  <2>5. Advance("process") /\ CostOf(batch[at]) \in Nat
    BY <1>3, <2>1 DEF SkipFailedCall
  <2>6. PICK n : n = batch[at]
    OBVIOUS
  <2>7. /\ batch' = [batch EXCEPT ![at] = n] /\ CostOf(n) \in Nat
        /\ iterCost' = iterCost + CostOf(n)
    BY <2>2, <2>4, <2>5, <2>6
  <2> QED
    BY <1>0, <2>5, <2>7, TurnBilled
<1>4. ASSUME NEW ok \in BOOLEAN, ProcessEdit(ok) PROVE BillSound'
  <2>1. PICK edit : edit = [batch[at].edit EXCEPT !.code = Codemod[batch[at].code]]
    OBVIOUS
  <2>2. /\ pc = "process" /\ batch[at].stage = "raw"
        /\ \/ Settle(ok, edit, 1)
           \/ /\ pc' = "repair" /\ fixing' = edit /\ rounds' = 0
              /\ UNCHANGED <<batch, at, passed, iterCost>>
    BY <1>4, <2>1 DEF ProcessEdit
  <2>3. edit.cost = 1
    <3>1. edit.cost = batch[at].edit.cost
      BY <1>0, <2>1 DEF CandidateSet, EditType
    <3> QED
      BY <1>1, <2>2, <3>1 DEF Pending
  <2>4. CASE Settle(ok, edit, 1)
    BY <1>0, <2>2, <2>3, <2>4, SettleBilled
  <2>5. CASE pc' = "repair" /\ fixing' = edit /\ rounds' = 0 /\ UNCHANGED <<batch, at, iterCost>>
    <3>1. Billed' = Billed
      BY <2>2, <2>5 DEF Billed
    <3> QED
      BY <2>2, <2>3, <2>5, <3>1 DEF BillSound, Bill, Pending
  <2> QED
    BY <2>2, <2>4, <2>5
<1>5. ASSUME NEW answer \in Answers, NEW ok \in BOOLEAN, Repair(answer, ok) PROVE BillSound'
  <2>1. PICK edit : edit = Repaired(answer)
    OBVIOUS
  <2>2. /\ pc = "repair" /\ rounds' = rounds + 1
        /\ \/ Settle(ok, edit, rounds + 2)
           \/ fixing' = edit /\ UNCHANGED <<batch, at, passed, iterCost, pc>>
    BY <1>5, <2>1 DEF Repair
  <2>3. edit.cost = rounds + 2
    BY <1>1, <1>2, <2>1, <2>2 DEF Repaired, Edit
  <2>4. CASE Settle(ok, edit, rounds + 2)
    BY <1>0, <1>1, <1>2, <2>2, <2>3, <2>4, SettleBilled
  <2>5. CASE fixing' = edit /\ UNCHANGED <<batch, at, iterCost, pc>>
    <3>1. Billed' = Billed /\ edit.cost = rounds' + 1
      BY <1>2, <2>2, <2>3, <2>5 DEF Billed
    <3> QED
      BY <2>2, <2>5, <3>1 DEF BillSound, Bill, Pending
  <2> QED
    BY <2>2, <2>4, <2>5
<1>6. ASSUME NEW answer \in Answers, RepairFails(answer) PROVE BillSound'
  <2>1. pc = "repair" /\ Settle(FALSE, fixing, rounds + 1)
    BY <1>6 DEF RepairFails
  <2>2. rounds + 1 \in Nat /\ batch[at].stage = "raw"
    BY <1>1, <1>2, <2>1
  <2>3. ASSUME NEW edit, NEW calls \in Nat, NEW ok \in BOOLEAN, ~ ok, Settle(ok, edit, calls)
        PROVE  BillSound'
    BY <1>0, <2>2, <2>3, SettleBilled
  <2> QED
    BY <2>1, <2>2, <2>3
<1>7. ASSUME NEW answer \in Answers, RepairRefused(answer) PROVE BillSound'
  BY <1>7 DEF RepairRefused, BillSound
<1> QED
  BY <1>3, <1>4, <1>5, <1>6, <1>7 DEF Process

(* The guards reject candidates but take no call off the bill.             *)
LEMMA GuardBilled == Inv /\ BillSound /\ Guard => BillSound'
<1> SUFFICES ASSUME Inv, BillSound, Guard PROVE BillSound'
  OBVIOUS
<1>1. /\ pc \in {"diversity", "behaviour"} /\ iterCost' = iterCost
      /\ Advance("diversity") \/ Advance("behaviour")
  BY DEF Guard, SkipInvalid, KeepConfig, CheckExploit, Jitter, CheckBehaviour
<1>2. pc' \in {"diversity", "behaviour", "submit"}
  BY <1>1 DEF Advance, Following
<1>3. at \in DOMAIN batch /\ batch[at] \in CandidateSet /\ (batch[at].valid <=> batch[at].stage = "ok")
  BY <1>1, Hand DEF InHand, SoundAt
<1>4. ASSUME NEW stage \in {"exploit_no_change", "identical_behavior"}, batch[at].valid,
             \/ batch' = [batch EXCEPT ![at] = Rejected(batch[at], stage)]
             \/ batch' = [batch EXCEPT ![at] = batch[at]]
             \/ \E g, ok : batch' = [batch EXCEPT ![at] = Salvaged(batch[at], g, ok)]
      PROVE  /\ DOMAIN batch' = DOMAIN batch
             /\ \A i \in DOMAIN batch : CostOf(batch'[i]) = CostOf(batch[i])
  <2>1. CostOf(batch[at]) = batch[at].calls
    BY <1>3, <1>4 DEF CostOf
  <2>2. PICK n : n = Rejected(batch[at], stage)
    OBVIOUS
  <2>3. n.calls = batch[at].calls /\ n.stage = stage
    BY <1>3, <2>2 DEF Rejected, CandidateSet
  <2>4. CostOf(Rejected(batch[at], stage)) = batch[at].calls
    BY <2>2, <2>3 DEF CostOf
  <2>5. \A g, ok : CostOf(Salvaged(batch[at], g, ok)) = CostOf(batch[at])
    BY <1>3 DEF Salvaged, CandidateSet, CostOf
  <2>6. PICK m : batch' = [batch EXCEPT ![at] = m] /\ CostOf(m) = CostOf(batch[at])
    BY <1>4, <2>1, <2>4, <2>5
  <2> QED
    BY <1>3, <2>6
<1>5. CASE SkipInvalid \/ KeepConfig
  <2>1. batch' = batch
    BY <1>5 DEF SkipInvalid, KeepConfig
  <2> QED
    BY <1>1, <1>2, <2>1, BillStays
<1>6. CASE CheckExploit
  <2>1. /\ batch[at].valid
        /\ \/ batch' = [batch EXCEPT ![at] = Rejected(batch[at], "exploit_no_change")]
           \/ batch' = [batch EXCEPT ![at] = batch[at]]
    BY <1>6 DEF CheckExploit
  <2> QED
    BY <1>1, <1>2, <1>4, <2>1, BillStays
<1>7. CASE \E g \in Configs, ok \in BOOLEAN : Jitter(g, ok)
  <2>1. /\ batch[at].valid
        /\ \E g, ok : batch' = [batch EXCEPT ![at] = Salvaged(batch[at], g, ok)]
    BY <1>7 DEF Jitter
  <2> QED
    BY <1>1, <1>2, <1>4, <2>1, BillStays
<1>8. CASE \E identical \in BOOLEAN : CheckBehaviour(identical)
  <2>1. /\ batch[at].valid
        /\ \/ batch' = [batch EXCEPT ![at] = Rejected(batch[at], "identical_behavior")]
           \/ batch' = [batch EXCEPT ![at] = batch[at]]
    BY <1>8 DEF CheckBehaviour
  <2> QED
    BY <1>1, <1>2, <1>4, <2>1, BillStays
<1> QED
  BY <1>5, <1>6, <1>7, <1>8 DEF Guard

(* Nor does a backtest, one that fails included.                           *)
LEMMA EvaluateBilled == Inv /\ BillSound /\ Evaluate => BillSound'
<1> SUFFICES ASSUME Inv, BillSound, Evaluate PROVE BillSound'
  OBVIOUS
<1>1. /\ pc \in {"submit", "evaluate"} /\ pc' \in {"evaluate", "select"}
      /\ DOMAIN batch' = DOMAIN batch /\ iterCost' = iterCost
  BY EvaluateShape
<1>2. ASSUME NEW i \in DOMAIN batch, NEW n, CostOf(n) = CostOf(batch[i]),
             batch' = [batch EXCEPT ![i] = n]
      PROVE  BillSound'
  <2>1. \A j \in DOMAIN batch : CostOf(batch'[j]) = CostOf(batch[j])
    BY <1>2
  <2> QED
    BY <1>1, <2>1, BillStays
<1>3. CASE batch' = batch
  BY <1>1, <1>3, BillStays
<1>4. ASSUME NEW i \in DOMAIN worker, StartEvaluation(i) \/ FinishEvaluation(i) PROVE BillSound'
  <2>0. pc = "evaluate"
    BY <1>4 DEF StartEvaluation, FinishEvaluation
  <2>1. DOMAIN worker = DOMAIN batch /\ i \in 1 .. Len(batch) /\ batch \in Seq(CandidateSet)
    BY <1>4, <2>0 DEF Inv, Types
  <2>2. batch[i] \in CandidateSet /\ SoundAt(i)
    BY <2>1, ElementOfSeq DEF Inv, AllSound
  <2>3. \A report : CostOf([batch[i] EXCEPT !.report = report]) = CostOf(batch[i])
    BY <2>2 DEF CandidateSet, CostOf
  <2>4. CASE \E report : batch' = [batch EXCEPT ![i].report = report]
    <3>1. PICK report : batch' = [batch EXCEPT ![i] = [batch[i] EXCEPT !.report = report]]
      BY <2>4
    <3> QED
      BY <1>2, <2>1, <2>3, <3>1
  <2>5. CASE worker[i] = "missed" /\ batch' = [batch EXCEPT ![i] = Rejected(batch[i], "eval_error")]
    <3>1. batch[i].stage = "ok"
      BY <2>0, <2>2, <2>5 DEF SoundAt
    <3>2. CostOf(batch[i]) = batch[i].calls
      BY <3>1 DEF CostOf
    <3>3. PICK n : n = Rejected(batch[i], "eval_error")
      OBVIOUS
    <3>4. n.calls = batch[i].calls /\ n.stage = "eval_error"
      BY <2>2, <3>3 DEF Rejected, CandidateSet
    <3>5. CostOf(n) = CostOf(batch[i])
      BY <3>2, <3>4 DEF CostOf
    <3> QED
      BY <1>2, <2>1, <2>5, <3>3, <3>5
  <2>6. CASE batch' = batch
    BY <1>3, <2>6
  <2> QED
    BY <1>4, <2>4, <2>5, <2>6 DEF StartEvaluation, FinishEvaluation
<1>5. CASE Submit \/ FinishBatch
  BY <1>3, <1>5 DEF Submit, FinishBatch
<1> QED
  BY <1>4, <1>5 DEF Evaluate

(* A new batch owes nothing yet.                                           *)
LEMMA GenerateBilled ==
  ASSUME Inv, BillSound, NEW answers \in Batches, Generate(answers)
  PROVE  BillSound'
<1>1. /\ pc = "generate" /\ pc' \in {"raised", "process"} /\ at' = 1 /\ iterCost' = iterCost
      /\ batch' = [i \in DOMAIN answers |-> Candidate(answers[i])]
  BY DEF Generate
<1>2. /\ answers \in Seq(Answers) /\ DOMAIN answers = 1 .. Len(answers)
      /\ \A i \in DOMAIN answers : answers[i] \in Answers
  <2>1. answers \in Seq(Answers)
    BY BatchAssumption
  <2> QED
    BY <2>1, ElementOfSeq, LenProperties
<1>3. \A i \in DOMAIN batch' : Pending(batch'[i])
  <2> TAKE i \in DOMAIN batch'
  <2>1. batch'[i] = Candidate(answers[i])
    BY <1>1
  <2>2. CASE answers[i].kind = "edit"
    BY <2>1, <2>2 DEF Candidate, Edit, Pending
  <2>3. CASE answers[i].kind # "edit"
    BY <2>1, <2>3 DEF Candidate, Pending
  <2> QED
    BY <2>2, <2>3
<1>4. pc' = "process" => Billed' = {}
  BY <1>1, <1>2 DEF Billed
<1>5. Bill(batch', {}) = {} /\ Bill(batch, Billed) = {}
  BY <1>1 DEF Bill, Billed, BillSound
<1>6. iterCost = 0 /\ IsFiniteSet({}) /\ Cardinality({}) = 0
  BY <1>1, <1>5, FS_EmptySet DEF BillSound
<1>7. pc' = "process" => Bill(batch, Billed)' = {}
  BY <1>4, <1>5
<1> QED
  BY <1>1, <1>3, <1>6, <1>7 DEF BillSound, Pending

(* The bill is kept by every step.                                         *)
LEMMA BillKept == Inv /\ BillSound /\ [Next]_vars => BillSound'
<1> SUFFICES ASSUME Inv, BillSound, [Next]_vars PROVE BillSound'
  OBVIOUS
<1>1. ASSUME NEW winner \in Evaluated \cup {0}, Conclude(winner) PROVE BillSound'
  <2>1. pc' = "generate" /\ batch' = << >> /\ iterCost' = 0
    BY <1>1 DEF Conclude
  <2>2. Bill(batch, Billed)' = {} /\ Billed' = {} /\ DOMAIN batch' = {}
    BY <2>1 DEF Bill, Billed
  <2> QED
    BY <2>1, <2>2, FS_EmptySet DEF BillSound
<1>2. CASE Finish
  <2>1. /\ pc = "generate" /\ pc' = "stopped" /\ UNCHANGED <<batch, iterCost>>
    BY <1>2 DEF Finish
  <2>2. batch = << >> /\ Billed = {} /\ Billed' = {} /\ DOMAIN batch = {}
    BY <2>1 DEF Billed, BillSound
  <2> QED
    BY <2>1, <2>2 DEF BillSound, Bill
<1>3. CASE UNCHANGED vars
  <2>1. UNCHANGED <<pc, batch, at, fixing, rounds, iterCost>>
    BY <1>3 DEF vars, fixVars
  <2> QED
    BY <2>1 DEF BillSound, Bill, Billed, Pending, CostOf
<1> QED
  BY <1>1, <1>2, <1>3, ProcessBilled, GuardBilled, EvaluateBilled, GenerateBilled DEF Next

(* An iteration's cost holds every edit of a candidate that passed         *)
(* preflight, its repair rounds included, each once; of a candidate that   *)
(* stayed invalid it holds the first edit only.                            *)
THEOREM CostIsAccounted == Spec => []CostAccounted
<1>1. Init => BillSound
  <2> SUFFICES ASSUME Init PROVE BillSound
    OBVIOUS
  <2>1. pc = "generate" /\ batch = << >> /\ iterCost = 0
    BY DEF Init
  <2>2. Bill(batch, Billed) = {} /\ DOMAIN batch = {}
    BY <2>1 DEF Bill, Billed
  <2> QED
    BY <2>1, <2>2, FS_EmptySet DEF BillSound
<1>2. BillSound => CostAccounted
  BY DEF BillSound, CostAccounted, Charged, Bill, Billed
<1> QED
  BY <1>1, <1>2, BillKept, Invariance, PTL DEF Spec

-----------------------------------------------------------------------------
(* The lessons *)

\* stores that hold no lesson twice
LessonStore == {s \in Seq(Lesson) : \A i, j \in DOMAIN s : s[i] = s[j] => i = j}

(* Storing a lesson keeps the store without duplicates.                    *)
LEMMA StoredOnce ==
  ASSUME NEW s \in LessonStore, NEW l \in Lesson
  PROVE  Stored(s, l) \in LessonStore
<1>1. CASE \E i \in DOMAIN s : s[i] = l
  BY <1>1 DEF Stored
<1>2. CASE \A i \in DOMAIN s : s[i] # l
  <2>1. /\ Append(s, l) \in Seq(Lesson) /\ DOMAIN Append(s, l) = 1 .. Len(s) + 1
        /\ \A i \in 1 .. Len(s) : Append(s, l)[i] = s[i]
        /\ Append(s, l)[Len(s) + 1] = l /\ DOMAIN s = 1 .. Len(s) /\ Len(s) \in Nat
    BY DEF LessonStore
  <2>2. ASSUME NEW i \in DOMAIN Append(s, l), NEW j \in DOMAIN Append(s, l),
               Append(s, l)[i] = Append(s, l)[j]
        PROVE  i = j
    <3>1. (i \in 1 .. Len(s) \/ i = Len(s) + 1) /\ (j \in 1 .. Len(s) \/ j = Len(s) + 1)
      BY <2>1
    <3> QED
      BY <1>2, <2>1, <2>2, <3>1 DEF LessonStore
  <2>3. Append(s, l) \in LessonStore
    BY <2>1, <2>2 DEF LessonStore
  <2> QED
    BY <1>2, <2>3 DEF Stored
<1> QED
  BY <1>1, <1>2

\* f stores the lessons at more and more places, the last place last
StoreFold(old, lessons, f) ==
  f = [t \in SUBSET DOMAIN lessons |->
         IF t = {} THEN old ELSE Stored(f[t \ {Max(t)}], lessons[Max(t)])]

(* The recursion by which an edit's lessons are stored is defined.         *)
LEMMA IngestedFold ==
  ASSUME NEW s \in LessonStore, NEW lessons \in Seq(Lesson)
  PROVE  \E f : StoreFold(s, lessons, f) /\ Ingested(s, lessons) = f[DOMAIN lessons]
<1> DEFINE D == DOMAIN lessons
           ch == [t \in SUBSET D |-> Max(t)]
           step == [p \in (SUBSET D) \X LessonStore |->
                      IF p[1] = {} THEN s ELSE Stored(p[2], lessons[Max(p[1])])]
<1>1. D = 1 .. Len(lessons) /\ Len(lessons) \in Nat /\ IsFiniteSet(D)
  BY FS_Interval
<1>2. \A t \in SUBSET D : t # {} => Max(t) \in t
  BY <1>1, FiniteMax, FS_Subset
<1>3. \A t \in SUBSET D : t # {} => lessons[Max(t)] \in Lesson
  BY <1>2
<1>4. \A p \in (SUBSET D) \X LessonStore : p[1] # {} => Stored(p[2], lessons[Max(p[1])]) \in LessonStore
  BY <1>3, StoredOnce
<1>5. step \in [(SUBSET D) \X LessonStore -> LessonStore]
  BY <1>4
<1>6. \A t \in SUBSET D : t # {} => ch[t] \in t
  BY <1>2
<1>7. \A t \in SUBSET D : ch[t] = Max(t)
  OBVIOUS
<1>8. \A t \in SUBSET D, x \in LessonStore : t # {} => step[<<t, x>>] = Stored(x, lessons[Max(t)])
  OBVIOUS
<1> HIDE DEF D, ch, step
<1>9. PICK f \in [SUBSET D -> LessonStore] : IsFold(f, D, s, ch, step)
  BY <1>1, <1>5, <1>6, FoldExists
<1>10. \A t \in SUBSET D :
        f[t] = IF t = {} THEN s ELSE Stored(f[t \ {Max(t)}], lessons[Max(t)])
  <2>1. \A t \in SUBSET D : f[t \ {Max(t)}] \in LessonStore
    OBVIOUS
  <2> QED
    BY <1>7, <1>8, <1>9, <2>1 DEF IsFold
<1>11. StoreFold(s, lessons, f)
  BY <1>9, <1>10 DEF StoreFold, D
<1>12. StoreFold(s, lessons, CHOOSE g : StoreFold(s, lessons, g))
  BY <1>11
<1>13. Ingested(s, lessons) = (CHOOSE g : StoreFold(s, lessons, g))[DOMAIN lessons]
  BY DEF Ingested, FoldLeft, MapThenFoldSet, StoreFold
<1> QED
  BY <1>12, <1>13

(* Ingesting keeps the store without duplicates: by induction over the     *)
(* first n lessons.                                                        *)
LEMMA IngestedOnce ==
  ASSUME NEW s \in LessonStore, NEW lessons \in Seq(Lesson)
  PROVE  Ingested(s, lessons) \in LessonStore
<1>1. PICK f : StoreFold(s, lessons, f) /\ Ingested(s, lessons) = f[DOMAIN lessons]
  BY IngestedFold
<1> DEFINE T == {n \in Nat : n =< Len(lessons) => f[1 .. n] \in LessonStore}
<1>2. DOMAIN lessons = 1 .. Len(lessons) /\ Len(lessons) \in Nat
  OBVIOUS
<1>3. 0 \in T
  <2>1. 1 .. 0 = {}
    OBVIOUS
  <2>2. f[{}] = s
    BY <1>1 DEF StoreFold
  <2> QED
    BY <2>1, <2>2
<1>4. ASSUME NEW n \in Nat, n \in T
      PROVE  n + 1 \in T
  <2> SUFFICES ASSUME n + 1 =< Len(lessons)
               PROVE  f[1 .. n + 1] \in LessonStore
    OBVIOUS
  <2>1. Max(1 .. n + 1) = n + 1
    <3>0. n + 1 \in Int /\ 1 \in Int
      OBVIOUS
    <3>3. IsFiniteSet(1 .. n + 1)
      BY <3>0, FS_Interval
    <3>1. IsFiniteSet(1 .. n + 1) /\ 1 .. n + 1 \in SUBSET Int /\ 1 .. n + 1 # {}
      BY <3>3
    <3>2. Max(1 .. n + 1) \in 1 .. n + 1 /\ \A y \in 1 .. n + 1 : Max(1 .. n + 1) >= y
      BY <3>1, FiniteMax
    <3> QED
      BY <3>2
  <2>2. 1 .. n + 1 \in SUBSET DOMAIN lessons /\ 1 .. n + 1 # {}
        /\ (1 .. n + 1) \ {n + 1} = 1 .. n
    BY <1>2
  <2>3. f[1 .. n + 1] = Stored(f[1 .. n], lessons[n + 1])
    BY <1>1, <2>1, <2>2 DEF StoreFold
  <2>4. f[1 .. n] \in LessonStore /\ lessons[n + 1] \in Lesson
    BY <1>4
  <2> QED
    BY <2>3, <2>4, StoredOnce
<1>5. Len(lessons) \in T
  <2> HIDE DEF T
  <2> QED
    BY <1>2, <1>3, <1>4, ReachesAll
<1> QED
  BY <1>1, <1>2, <1>5

(* A lesson more has the characters of the ones after it and its own.      *)
LEMMA CharactersAdded ==
  ASSUME NEW s \in Seq(Lesson), NEW n \in 1 .. Len(s), IsFiniteSet(Characters(s, n + 1))
  PROVE  /\ IsFiniteSet(Characters(s, n))
         /\ Cardinality(Characters(s, n)) = Cardinality(Characters(s, n + 1)) + LessonSize[s[n]]
<1>1. LessonSize[s[n]] \in Nat
  BY LessonAssumption
<1>2. Len(s) \in Nat /\ n .. Len(s) = (n + 1 .. Len(s)) \cup {n} /\ n \notin n + 1 .. Len(s)
  OBVIOUS
<1>3. Characters(s, n) = Characters(s, n + 1) \cup ({n} \X (1 .. LessonSize[s[n]]))
  BY <1>2 DEF Characters
<1>4. \A m \in Characters(s, n + 1) : m[1] # n
  BY <1>2 DEF Characters
<1>5. PICK size \in Nat : size = LessonSize[s[n]]
  BY <1>1
<1> DEFINE rest == Characters(s, n + 1)
<1>6. IsFiniteSet(rest) /\ \A m \in rest : m[1] # n
  BY <1>4
<1>7. Characters(s, n) = rest \cup ({n} \X (1 .. size))
  BY <1>3, <1>5
<1> HIDE DEF rest
<1>8. /\ IsFiniteSet(rest \cup ({n} \X (1 .. size)))
      /\ Cardinality(rest \cup ({n} \X (1 .. size))) = Cardinality(rest) + size
  BY <1>6, MarksAdded
<1> QED
  BY <1>5, <1>7, <1>8 DEF rest

Taken == [blocks : Seq(Lesson), size : Nat, full : BOOLEAN]

TakeFold(s, f) ==
  f = [t \in SUBSET DOMAIN s |->
         IF t = {} THEN [blocks |-> << >>, size |-> 0, full |-> FALSE]
         ELSE Take(s[Min(t)], f[t \ {Min(t)}])]

(* A round of the loop over the rows keeps what it has taken typed.        *)
LEMMA TakeTyped ==
  ASSUME NEW l \in Lesson, NEW t \in Taken
  PROVE  Take(l, t) \in Taken
<1>1. t.blocks \in Seq(Lesson) /\ t.size \in Nat /\ t.size + LessonSize[l] \in Nat
  BY LessonAssumption DEF Taken
<1>2. <<l>> \o t.blocks \in Seq(Lesson)
  BY <1>1
<1> QED
  BY <1>1, <1>2 DEF Take, Taken

(* The recursion by which lessons are taken, newest first, is defined.     *)
LEMMA ToldFold ==
  ASSUME NEW s \in Seq(Lesson)
  PROVE  \E f : /\ TakeFold(s, f)
                /\ LessonsTold(s) = IF s # << >> /\ f[DOMAIN s].blocks = << >>
                                      THEN <<Last(s)>> ELSE f[DOMAIN s].blocks
<1> DEFINE D == DOMAIN s
           nothing == [blocks |-> << >>, size |-> 0, full |-> FALSE]
           ch == [t \in SUBSET D |-> Min(t)]
           step == [p \in (SUBSET D) \X Taken |->
                      IF p[1] = {} THEN nothing ELSE Take(s[Min(p[1])], p[2])]
<1>1. D = 1 .. Len(s) /\ Len(s) \in Nat /\ IsFiniteSet(D)
  BY FS_Interval
<1>2. \A t \in SUBSET D : t # {} => Min(t) \in t
  BY <1>1, FiniteMin, FS_Subset
<1>3. \A t \in SUBSET D : t # {} => s[Min(t)] \in Lesson
  BY <1>2
<1>0. nothing \in Taken
  BY DEF Taken
<1>4. \A p \in (SUBSET D) \X Taken : p[1] # {} => Take(s[Min(p[1])], p[2]) \in Taken
  BY <1>3, TakeTyped
<1> HIDE DEF nothing
<1>5. step \in [(SUBSET D) \X Taken -> Taken]
  BY <1>0, <1>4
<1>6. \A t \in SUBSET D : t # {} => ch[t] \in t
  BY <1>2
<1>7. \A t \in SUBSET D : ch[t] = Min(t)
  OBVIOUS
<1>8. \A t \in SUBSET D, x \in Taken : t # {} => step[<<t, x>>] = Take(s[Min(t)], x)
  OBVIOUS
<1> HIDE DEF D, ch, step
<1>9. PICK f \in [SUBSET D -> Taken] : IsFold(f, D, nothing, ch, step)
  BY <1>0, <1>1, <1>5, <1>6, FoldExists
<1>10. \A t \in SUBSET D :
         f[t] = IF t = {} THEN nothing ELSE Take(s[Min(t)], f[t \ {Min(t)}])
  <2>1. \A t \in SUBSET D : f[t \ {Min(t)}] \in Taken
    OBVIOUS
  <2> QED
    BY <1>7, <1>8, <1>9, <2>1 DEF IsFold
<1>11. TakeFold(s, f)
  BY <1>9, <1>10 DEF TakeFold, D, nothing
<1>12. TakeFold(s, CHOOSE g : TakeFold(s, g))
  BY <1>11
<1>13. LET taken == (CHOOSE g : TakeFold(s, g))[DOMAIN s]
       IN  LessonsTold(s) = IF s # << >> /\ taken.blocks = << >>
                              THEN <<Last(s)>> ELSE taken.blocks
  BY DEF LessonsTold, FoldRight, MapThenFoldSet, TakeFold
<1> QED
  BY <1>12, <1>13

\* having gone through the lessons from the m-th on, the loop holds a run of the newest
TakenFrom(s, m, t) ==
  \E p \in m .. Len(s) + 1 :
    /\ t.blocks = SubSeq(s, p, Len(s)) /\ IsFiniteSet(Characters(s, p))
    /\ t.size = Cardinality(Characters(s, p)) /\ t.size =< MaxLessons
    /\ ~ t.full => p = m
    /\ t.full => p > m /\ IsFiniteSet(Characters(s, p - 1))
                 /\ Cardinality(Characters(s, p - 1)) > MaxLessons

(* A round of the loop extends the run of the newest by the next lesson,   *)
(* or finds it too long and stops.                                         *)
LEMMA NextTaken ==
  ASSUME NEW s \in Seq(Lesson), NEW m \in 1 .. Len(s), NEW t \in Taken, TakenFrom(s, m + 1, t)
  PROVE  TakenFrom(s, m, Take(s[m], t))
<1>1. PICK p \in m + 1 .. Len(s) + 1 :
        /\ t.blocks = SubSeq(s, p, Len(s)) /\ IsFiniteSet(Characters(s, p))
        /\ t.size = Cardinality(Characters(s, p)) /\ t.size =< MaxLessons
        /\ ~ t.full => p = m + 1
        /\ t.full => p > m + 1 /\ IsFiniteSet(Characters(s, p - 1))
                     /\ Cardinality(Characters(s, p - 1)) > MaxLessons
  BY DEF TakenFrom
<1>2. Len(s) \in Nat /\ s[m] \in Lesson /\ LessonSize[s[m]] \in Nat /\ MaxLessons \in Nat
      /\ t.size \in Nat /\ t.full \in BOOLEAN /\ t.blocks \in Seq(Lesson)
  BY LessonAssumption DEF Taken
<1>3. CASE t.full
  <2>1. Take(s[m], t) = [t EXCEPT !.full = TRUE]
    BY <1>3 DEF Take
  <2>2. Take(s[m], t).blocks = t.blocks /\ Take(s[m], t).size = t.size /\ Take(s[m], t).full
    BY <2>1 DEF Taken
  <2>3. p \in m .. Len(s) + 1 /\ p > m
    BY <1>1, <1>2
  <2> QED
    BY <1>1, <1>3, <2>2, <2>3 DEF TakenFrom
<1>4. CASE ~ t.full
  <2>1. p = m + 1
    BY <1>1, <1>4
  <2>2. /\ IsFiniteSet(Characters(s, m))
        /\ Cardinality(Characters(s, m)) = t.size + LessonSize[s[m]]
    BY <1>1, <2>1, CharactersAdded
  <2>3. CASE t.size + LessonSize[s[m]] > MaxLessons
    <3>1. Take(s[m], t) = [t EXCEPT !.full = TRUE]
      BY <2>3 DEF Take
    <3>2. Take(s[m], t).blocks = t.blocks /\ Take(s[m], t).size = t.size /\ Take(s[m], t).full
      BY <3>1 DEF Taken
    <3>3. m + 1 \in m .. Len(s) + 1 /\ m + 1 > m /\ (m + 1) - 1 = m
      BY <1>2
    <3> QED
      BY <1>1, <2>1, <2>2, <2>3, <3>2, <3>3 DEF TakenFrom
  <2>4. CASE ~ (t.size + LessonSize[s[m]] > MaxLessons)
    <3>1. Take(s[m], t) = [t EXCEPT !.blocks = <<s[m]>> \o @, !.size = @ + LessonSize[s[m]]]
      BY <1>4, <2>4 DEF Take
    <3>2. /\ Take(s[m], t).blocks = <<s[m]>> \o t.blocks
          /\ Take(s[m], t).size = t.size + LessonSize[s[m]] /\ ~ Take(s[m], t).full
      BY <1>4, <3>1 DEF Taken
    <3>3. <<s[m]>> \o SubSeq(s, m + 1, Len(s)) = SubSeq(s, m, Len(s))
      BY <1>2
    <3>4. m \in m .. Len(s) + 1 /\ t.size + LessonSize[s[m]] =< MaxLessons
      BY <1>2, <2>4
    <3> QED
      BY <1>1, <2>1, <2>2, <3>2, <3>3, <3>4 DEF TakenFrom
  <2> QED
    BY <2>3, <2>4
<1> QED
  BY <1>2, <1>3, <1>4

(* So after the last round, the first lesson's, by induction from the last.*)
LEMMA TakenAll ==
  ASSUME NEW s \in Seq(Lesson), NEW f, TakeFold(s, f)
  PROVE  f[DOMAIN s] \in Taken /\ TakenFrom(s, 1, f[DOMAIN s])
<1>1. DOMAIN s = 1 .. Len(s) /\ Len(s) \in Nat
  OBVIOUS
<1> DEFINE From(m) == m .. Len(s)
           Good(m) == f[From(m)] \in Taken /\ TakenFrom(s, m, f[From(m)])
           T == {n \in Nat : n =< Len(s) => Good(Len(s) + 1 - n)}
<1>2. Good(Len(s) + 1)
  <2>1. From(Len(s) + 1) = {}
    BY <1>1
  <2>2. f[{}] = [blocks |-> << >>, size |-> 0, full |-> FALSE]
    BY DEF TakeFold
  <2>3. Characters(s, Len(s) + 1) = {}
    BY <1>1 DEF Characters
  <2>4. IsFiniteSet({}) /\ Cardinality({}) = 0
    BY FS_EmptySet
  <2>5. SubSeq(s, Len(s) + 1, Len(s)) = << >>
    BY <1>1
  <2>6. Len(s) + 1 \in Len(s) + 1 .. Len(s) + 1 /\ 0 =< MaxLessons
    BY <1>1, LessonAssumption
  <2>7. f[From(Len(s) + 1)] \in Taken
    <3>1. << >> \in Seq(Lesson)
      OBVIOUS
    <3>2. [blocks |-> << >>, size |-> 0, full |-> FALSE] \in Taken
      BY <3>1 DEF Taken
    <3> QED
      BY <2>1, <2>2, <3>2
  <2>8. TakenFrom(s, Len(s) + 1, [blocks |-> << >>, size |-> 0, full |-> FALSE])
    BY <2>3, <2>4, <2>5, <2>6 DEF TakenFrom
  <2> QED
    BY <2>1, <2>2, <2>7, <2>8
<1>3. ASSUME NEW m \in 1 .. Len(s), Good(m + 1)
      PROVE  Good(m)
  <2>1. Min(From(m)) = m
    <3>0. m \in Int /\ Len(s) \in Int
      BY <1>1
    <3>1. IsFiniteSet(m .. Len(s))
      BY <3>0, FS_Interval
    <3>2. From(m) \in SUBSET Int /\ From(m) # {} /\ m \in From(m)
      BY <1>1
    <3>3. Min(From(m)) \in From(m) /\ \A y \in From(m) : Min(From(m)) =< y
      BY <3>1, <3>2, FiniteMin
    <3> QED
      BY <3>2, <3>3
  <2>2. From(m) \in SUBSET DOMAIN s /\ From(m) # {} /\ From(m) \ {m} = From(m + 1)
    BY <1>1
  <2> HIDE DEF From
  <2>3. f[From(m)] = Take(s[m], f[From(m + 1)])
    BY <2>1, <2>2 DEF TakeFold
  <2>4. s[m] \in Lesson
    OBVIOUS
  <2> QED
    BY <1>3, <2>3, <2>4, TakeTyped, NextTaken
<1> HIDE DEF Good
<1>4. 0 \in T
  BY <1>1, <1>2
<1>5. ASSUME NEW n \in Nat, n \in T
      PROVE  n + 1 \in T
  <2> SUFFICES ASSUME n + 1 =< Len(s)
               PROVE  Good(Len(s) + 1 - (n + 1))
    OBVIOUS
  <2> HIDE DEF T
  <2>0. Len(s) \in Nat
    BY <1>1
  <2>1. Len(s) - n \in 1 .. Len(s) /\ Len(s) + 1 - (n + 1) = Len(s) - n
        /\ Len(s) + 1 - n = (Len(s) - n) + 1 /\ n =< Len(s)
    BY <2>0
  <2> USE DEF T
  <2>2. Good((Len(s) - n) + 1)
    BY <1>1, <1>5, <2>1
  <2> QED
    BY <1>3, <2>1, <2>2
<1>6. Len(s) \in T
  <2> HIDE DEF T
  <2> QED
    BY <1>1, <1>4, <1>5, ReachesAll
<1>7. Len(s) + 1 - Len(s) = 1
  BY <1>1
<1>8. Good(1)
  BY <1>1, <1>6, <1>7
<1> QED
  BY <1>1, <1>8 DEF Good

(* The lessons told are the longest run of the newest that fits, or the    *)
(* newest alone.                                                           *)
LEMMA ToldNewest ==
  ASSUME NEW s \in Seq(Lesson), s # << >>
  PROVE  \E n \in 1 .. Len(s) :
           /\ LessonsTold(s) = SubSeq(s, n, Len(s))
           /\ n < Len(s) => Cardinality(Characters(s, n)) =< MaxLessons
           /\ n > 1 => Cardinality(Characters(s, n - 1)) > MaxLessons
<1>1. PICK f : TakeFold(s, f)
               /\ LessonsTold(s) = IF s # << >> /\ f[DOMAIN s].blocks = << >>
                                     THEN <<Last(s)>> ELSE f[DOMAIN s].blocks
  BY ToldFold
<1> DEFINE t == f[DOMAIN s]
<1>2. t \in Taken /\ TakenFrom(s, 1, t)
  BY <1>1, TakenAll
<1> HIDE DEF t
<1>3. PICK p \in 1 .. Len(s) + 1 :
        /\ t.blocks = SubSeq(s, p, Len(s)) /\ IsFiniteSet(Characters(s, p))
        /\ t.size = Cardinality(Characters(s, p)) /\ t.size =< MaxLessons
        /\ ~ t.full => p = 1
        /\ t.full => p > 1 /\ IsFiniteSet(Characters(s, p - 1))
                     /\ Cardinality(Characters(s, p - 1)) > MaxLessons
  BY <1>2 DEF TakenFrom
<1>4. Len(s) \in Nat /\ Len(s) >= 1 /\ MaxLessons \in Nat
  BY LessonAssumption
<1>5. t.full => p > 1
  BY <1>3
<1>6. p > 1 => Cardinality(Characters(s, p - 1)) > MaxLessons
  BY <1>3
<1>7. CASE p =< Len(s)
  <2>1. t.blocks # << >>
    <3>1. Len(SubSeq(s, p, Len(s))) = Len(s) - p + 1
      BY <1>3, <1>4, <1>7
    <3>2. Len(t.blocks) >= 1
      BY <1>3, <1>4, <1>7, <3>1
    <3>3. Len(<< >>) = 0
      OBVIOUS
    <3> QED
      BY <3>2, <3>3
  <2>2. LessonsTold(s) = SubSeq(s, p, Len(s))
    BY <1>1, <1>3, <2>1 DEF t
  <2>3. p \in 1 .. Len(s) /\ Cardinality(Characters(s, p)) =< MaxLessons
    BY <1>3, <1>4, <1>7
  <2> QED
    BY <1>6, <2>2, <2>3
<1>8. CASE p = Len(s) + 1
  <2>1. t.blocks = << >>
    BY <1>3, <1>4, <1>8
  <2>2. LessonsTold(s) = <<s[Len(s)]>>
    BY <1>1, <2>1 DEF t, Last
  <2>3. SubSeq(s, Len(s), Len(s)) = <<s[Len(s)]>>
    <3> DEFINE newest == SubSeq(s, Len(s), Len(s))
    <3>1. newest \in Seq(Lesson) /\ Len(newest) = 1 /\ newest[1] = s[Len(s)]
      BY <1>4
    <3>2. <<s[Len(s)]>> \in Seq(Lesson) /\ Len(<<s[Len(s)]>>) = 1 /\ <<s[Len(s)]>>[1] = s[Len(s)]
      BY <1>4
    <3> HIDE DEF newest
    <3>3. newest = <<s[Len(s)]>>
      BY <3>1, <3>2, SeqEqual
    <3> QED
      BY <3>3 DEF newest
  <2>4. t.full /\ IsFiniteSet(Characters(s, Len(s))) /\ Cardinality(Characters(s, Len(s))) > MaxLessons
    BY <1>3, <1>4, <1>8
  <2>5. Len(s) > 1 => Cardinality(Characters(s, Len(s) - 1)) > MaxLessons
    <3> SUFFICES ASSUME Len(s) > 1
                 PROVE  Cardinality(Characters(s, Len(s) - 1)) > MaxLessons
      OBVIOUS
    <3>1. Len(s) - 1 \in 1 .. Len(s) /\ (Len(s) - 1) + 1 = Len(s)
      BY <1>4
    <3>2. Cardinality(Characters(s, Len(s) - 1))
            = Cardinality(Characters(s, Len(s))) + LessonSize[s[Len(s) - 1]]
      BY <2>4, <3>1, CharactersAdded
    <3>3. LessonSize[s[Len(s) - 1]] \in Nat /\ Cardinality(Characters(s, Len(s))) \in Nat
      BY <2>4, <3>1, LessonAssumption, FS_CardinalityType
    <3> QED
      BY <1>4, <2>4, <3>2, <3>3
  <2>6. Len(s) \in 1 .. Len(s) /\ ~ (Len(s) < Len(s))
    BY <1>4
  <2> QED
    BY <2>2, <2>3, <2>5, <2>6
<1> QED
  BY <1>3, <1>4, <1>7, <1>8

\* none is stored twice, and the prompt is built from the newest
LessonsSound == store \in LessonStore /\ LessonsCurrent

(* Lessons are stored when a candidate is processed, and the prompt's      *)
(* text is made anew in the same step.                                     *)
LEMMA LessonsKept == Inv /\ LessonsSound /\ [Next]_vars => LessonsSound'
<1> SUFFICES ASSUME Inv, LessonsSound, [Next]_vars
             PROVE  LessonsSound'
  OBVIOUS
<1>1. CASE UNCHANGED noteVars
  BY <1>1 DEF noteVars, LessonsSound, LessonsCurrent
<1>2. CASE \E ok \in BOOLEAN : ProcessEdit(ok)
  <2>1. \/ UNCHANGED noteVars
        \/ /\ store' = Ingested(store, batch[at].lessons)
           /\ lessonsText' = LessonsTold(store')
    BY <1>2 DEF ProcessEdit
  <2> SUFFICES ASSUME store' = Ingested(store, batch[at].lessons),
                      lessonsText' = LessonsTold(store')
               PROVE  LessonsSound'
    BY <1>1, <2>1
  <2>2. pc = "process"
    BY <1>2 DEF ProcessEdit
  <2>3. at \in DOMAIN batch /\ batch \in Seq(CandidateSet)
    BY <2>2 DEF Inv, Types, InHand
  <2>4. batch[at].lessons \in Seq(Lesson)
    <3>1. batch[at] \in CandidateSet
      BY <2>3, ElementOfSeq
    <3> QED
      BY <3>1 DEF CandidateSet
  <2>5. store' \in LessonStore
    BY <2>4, IngestedOnce DEF LessonsSound
  <2>6. store' \in Seq(Lesson) /\ \A i, j \in DOMAIN store' : store'[i] = store'[j] => i = j
    BY <2>5 DEF LessonStore
  <2>7. LessonsCurrent'
    BY <2>6, ToldNewest DEF LessonsCurrent
  <2> QED
    BY <2>5, <2>7 DEF LessonsSound
<1>3. CASE Process
  <2>1. \/ SkipFailedCall
        \/ \E answer \in Answers, ok \in BOOLEAN : Repair(answer, ok)
        \/ \E answer \in Answers : RepairFails(answer) \/ RepairRefused(answer)
        => UNCHANGED noteVars
    BY DEF SkipFailedCall, Repair, RepairFails, RepairRefused
  <2> QED
    BY <1>1, <1>2, <1>3, <2>1 DEF Process
<1>4. CASE Guard
  BY <1>1, <1>4 DEF Guard, SkipInvalid, KeepConfig, CheckExploit, Jitter, CheckBehaviour
<1>5. CASE Evaluate
  BY <1>1, <1>5 DEF Evaluate, Submit, StartEvaluation, FinishEvaluation, FinishBatch
<1>6. CASE \/ \E answers \in Batches : Generate(answers)
           \/ \E winner \in Evaluated \cup {0} : Conclude(winner)
           \/ Finish \/ UNCHANGED vars
  BY <1>1, <1>6 DEF Generate, Conclude, Finish, vars, noteVars
<1> QED
  BY <1>3, <1>4, <1>5, <1>6 DEF Next

(* The lessons every prompt is built from are the longest run of the       *)
(* newest that fits, each stored once, for any lessons of any sizes.       *)
THEOREM LessonsAreCurrent == Spec => []LessonsCurrent
<1>1. Init => LessonsSound
  <2>1. << >> \in LessonStore
    BY DEF LessonStore
  <2> QED
    BY <2>1 DEF Init, LessonsSound, LessonsCurrent
<1>2. Inv /\ LessonsSound /\ [Next]_vars => LessonsSound'
  BY LessonsKept
<1>3. LessonsSound => LessonsCurrent
  BY DEF LessonsSound
<1> QED
  BY <1>1, <1>2, <1>3, Invariance, PTL DEF Spec
=============================================================================
