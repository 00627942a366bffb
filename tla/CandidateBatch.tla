--------------------------- MODULE CandidateBatch ---------------------------
(***************************************************************************)
(* How an iteration of orchestrator.py comes by its evaluated candidates:  *)
(* the language model's edits, their lessons, codemod, preflight and       *)
(* repair, the diversity check with its jitter, the two guards against     *)
(* candidates that change nothing, and the parallel backtests over the     *)
(* cache of earlier ones.                                                  *)
(*                                                                         *)
(* Files are pairs of a strategy's code and configuration, model values    *)
(* both.  Calls of the language model cost one unit each.  What select,    *)
(* confirm and commit do with a batch is Selection's and OptimizationRun's; *)
(* here Conclude stands for it.                                            *)
(***************************************************************************)
EXTENDS Lessons, Ranks, FiniteSets

CONSTANTS
  Codes, Configs,
  BaseCode, BaseConfig,  \* the files the run starts with
  Codemod,       \* the code repair_strategy_code makes of a code
  Plain,         \* normalize_python_code: without comments and docstrings
  Valid,         \* the files preflight accepts, given time
  Slow,          \* those that may exceed the sandbox's timeout
  Similarity,    \* in per mille, of two configurations among those compared
  Threshold,     \* diversity_config_threshold
  Jitters,       \* the mutated configurations jitter_config may try
  Weights,       \* of files, on the synthetic prices
  Outcome,       \* of a backtest: "report", "prescreened" or "error"
  Answers,       \* what a call of the language model may come to
  Batches,       \* bound: the answers that may come together
  NCandidates, MaxRepairs, RecentConfigs, StuckThreshold,
  Workers, CacheSize,
  MaxIterations  \* --iterations

ASSUME BatchAssumption ==
  /\ BaseCode \in Codes /\ BaseConfig \in Configs
  /\ Codemod \in [Codes -> Codes] /\ Plain \in [Codes -> Codes]
  /\ Valid \subseteq Codes \X Configs /\ Slow \subseteq Valid
  /\ Similarity \in [Configs \X Configs \X SUBSET Configs -> 0 .. 1000]
  /\ Threshold \in 0 .. 1000
  /\ Jitters \in [Configs -> SUBSET Configs]
  /\ DOMAIN Weights = Codes \X Configs
  /\ Outcome \in [Codes \X Configs -> {"report", "prescreened", "error"}]
  /\ Answers \subseteq [kind : {"edit", "unusable", "unreachable", "refused"},
                        code : Codes, config : Configs, lessons : Seq(Lesson)]
  /\ Batches \subseteq Seq(Answers)
  /\ {NCandidates, Workers} \subseteq Nat \ {0}
  /\ {MaxRepairs, RecentConfigs, StuckThreshold, CacheSize, MaxIterations} \subseteq Nat

VARIABLES
  mode, noAccept,
  current,      \* the incumbent's files on disk
  tried,        \* fetch_configs, the last RecentConfigs of them
  store, lessonsText,
  k, pc,
  batch,        \* candidate_results
  at,           \* the candidate in hand
  fixing,       \* the edit under repair
  rounds,       \* and the repair rounds it has had
  passed,       \* history: the files preflight passed in this iteration
  iterCost,     \* what total_cost grew by in this iteration
  cache,        \* keys, the least recently used first
  dirty,        \* report objects that deflation has changed
  worker        \* where each candidate is in the thread pool

modeVars  == <<mode, noAccept, current, tried>>
noteVars  == <<store, lessonsText>>
fixVars   == <<fixing, rounds>>
evalVars  == <<cache, dirty, worker>>
vars      == <<modeVars, noteVars, k, pc, batch, at, fixVars, passed, iterCost, evalVars>>

-----------------------------------------------------------------------------
(* Edits and candidates *)

Edit(code, config, cost) == [code |-> code, config |-> config, cost |-> cost]

NoEdit == Edit(BaseCode, BaseConfig, 0)

\* A report: the files it was computed for and the object that holds it.
Report(files, object) == [of |-> files, object |-> object]

NoReport == << >>

\* A candidate's files, its edit, and what became of it; calls is history.
Candidate(answer) ==
  [edit |-> IF answer.kind = "edit" THEN Edit(answer.code, answer.config, 1) ELSE NoEdit,
   code |-> answer.code, config |-> answer.config, lessons |-> answer.lessons,
   valid |-> FALSE, stage |-> IF answer.kind = "edit" THEN "raw" ELSE "llm_error",
   jittered |-> FALSE, report |-> NoReport,
   calls |-> IF answer.kind = "edit" THEN 1 ELSE 0]

Files(c) == <<c.code, c.config>>

Evaluated == {i \in DOMAIN batch : batch[i].report # NoReport}

AtMost(x, y) == IF x < y THEN x ELSE y

AtLeast(x, y) == IF x > y THEN x ELSE y

LastOnes(seq) == LET n == Len(seq) IN SubSeq(seq, AtLeast(1, n - RecentConfigs + 1), n)

Init ==
  /\ mode = "explore" /\ noAccept = 0 /\ current = <<BaseCode, BaseConfig>>
  /\ tried = LastOnes(<<BaseConfig>>)
  /\ store = << >> /\ lessonsText = << >>
  /\ k = 0 /\ pc = "generate" /\ batch = << >> /\ at = 1
  /\ fixing = NoEdit /\ rounds = 0
  /\ passed = {} /\ iterCost = 0
  /\ cache = << >> /\ dirty = {} /\ worker = << >>

-----------------------------------------------------------------------------
(* Generation *)

\* prepare_iteration
PreparedMode == IF noAccept >= StuckThreshold THEN "explore" ELSE mode

\* effective_n
BatchSize ==
  LET few  == AtMost(3, NCandidates)
      full == IF PreparedMode = "exploit" THEN AtLeast(few, NCandidates \div 2)
              ELSE NCandidates
  IN  IF noAccept >= StuckThreshold \div 2 THEN AtMost(full, few) ELSE full

\* The calls run in parallel and share nothing; a call that is refused for
\* good ends the run when all have come back.
Generate(answers) ==
  /\ pc = "generate" /\ k < MaxIterations /\ Len(answers) = BatchSize
  /\ k' = k + 1 /\ mode' = PreparedMode
  /\ batch' = [i \in DOMAIN answers |-> Candidate(answers[i])]
  /\ at' = 1
  /\ pc' = IF \E i \in DOMAIN answers : answers[i].kind = "refused"
             THEN "raised" ELSE "process"
  /\ UNCHANGED <<noAccept, current, tried, noteVars, fixVars, passed, iterCost, evalVars>>

-----------------------------------------------------------------------------
(* Codemod, preflight and repair, one candidate after the other *)

\* the verdicts preflight may give
Preflight(files) ==
  CASE files \in Slow -> BOOLEAN
    [] files \in Valid \ Slow -> {TRUE}
    [] OTHER -> {FALSE}

\* the phase after the last candidate of this one
Following(phase) ==
  IF at < Len(batch) THEN phase
  ELSE CASE phase = "process" -> "diversity"
         [] phase = "diversity" /\ mode = "explore" -> "behaviour"
         [] OTHER -> "submit"

Advance(phase) ==
  /\ pc' = Following(phase)
  /\ at' = IF at < Len(batch) THEN at + 1 ELSE 1

SkipFailedCall ==
  /\ pc = "process" /\ batch[at].stage = "llm_error"
  /\ Advance("process")
  /\ UNCHANGED <<modeVars, noteVars, k, batch, fixVars, passed, iterCost, evalVars>>

\* The tail of process_and_repair_candidate: a candidate that passed takes
\* over the edit, one that failed keeps the raw edit but shows the last code.
Settled(c, ok, edit, calls) ==
  [c EXCEPT !.edit = IF ok THEN edit ELSE c.edit,
            !.code = edit.code, !.config = edit.config, !.valid = ok,
            !.stage = IF ok THEN "ok" ELSE "validation", !.calls = calls]

Settle(ok, edit, calls) ==
  /\ batch' = [batch EXCEPT ![at] = Settled(@, ok, edit, calls)]
  /\ iterCost' = iterCost + batch'[at].edit.cost
  /\ passed' = passed \cup (IF ok THEN {<<edit.code, edit.config>>} ELSE {})
  /\ Advance("process")

\* _process_raw_edit up to the first repair
ProcessEdit(ok) ==
  LET c    == batch[at]
      edit == [c.edit EXCEPT !.code = Codemod[c.code]]
  IN  /\ pc = "process" /\ c.stage = "raw"
      /\ ok \in Preflight(<<edit.code, edit.config>>)
      /\ IF c.lessons = << >> THEN UNCHANGED noteVars
         ELSE /\ store' = Ingested(store, c.lessons)
              /\ lessonsText' = LessonsTold(store')
      /\ IF ok \/ MaxRepairs = 0
           THEN Settle(ok, edit, 1) /\ UNCHANGED fixVars
           ELSE /\ pc' = "repair" /\ fixing' = edit /\ rounds' = 0
                /\ UNCHANGED <<batch, at, passed, iterCost>>
      /\ UNCHANGED <<modeVars, k, evalVars>>

SlipLastRoundOnly(answer) == Edit(Codemod[answer.code], answer.config, 1)

\* a repaired edit carries the cost of the rounds before it
Repaired(answer) == Edit(Codemod[answer.code], answer.config, fixing.cost + 1)

\* A round of _attempt_llm_repair that brings an edit
Repair(answer, ok) ==
  LET edit == Repaired(answer)
  IN  /\ pc = "repair" /\ answer.kind = "edit"
      /\ ok \in Preflight(<<edit.code, edit.config>>)
      /\ rounds' = rounds + 1
      /\ IF ok \/ rounds + 1 = MaxRepairs
           THEN Settle(ok, edit, rounds + 2) /\ UNCHANGED fixing
           ELSE /\ fixing' = edit
                /\ UNCHANGED <<batch, at, passed, iterCost, pc>>
      /\ UNCHANGED <<modeVars, noteVars, k, evalVars>>

\* A transient error breaks off the repair.
RepairFails(answer) ==
  /\ pc = "repair" /\ answer.kind \in {"unusable", "unreachable"}
  /\ Settle(FALSE, fixing, rounds + 1)
  /\ UNCHANGED <<modeVars, noteVars, k, fixVars, evalVars>>

RepairRefused(answer) ==
  /\ pc = "repair" /\ answer.kind = "refused"
  /\ pc' = "raised"
  /\ UNCHANGED <<modeVars, noteVars, k, batch, at, fixVars, passed, iterCost, evalVars>>

-----------------------------------------------------------------------------
(* Diversity and the guards *)

\* max_config_similarity brings numbers of unknown range to the range they have
\* in the candidate f and the pool it is compared with.
Alike(f, g, pool) == Similarity[<<f, g, {f} \cup pool>>]

Recent == {tried[i] : i \in DOMAIN tried}

SlipPoolWithoutJittered ==
  Recent \cup {batch[i].config : i \in {j \in 1 .. at - 1 : batch[j].valid /\ ~ batch[j].jittered}}

\* _diversity_config_pool in its default mode "recent"
Pool == Recent \cup {batch[i].config : i \in {j \in 1 .. at - 1 : batch[j].valid}}

TooClose(c) == \E f \in Pool : Alike(c.config, f, Pool) > Threshold

\* what jitter_config may return: the first mutation below the threshold
Jittered(c) == {g \in Jitters[c.config] : \A f \in Pool : Alike(g, f, Pool) < Threshold}

SlipNotValidated(c, g, ok) == [c EXCEPT !.edit.config = g, !.config = g, !.jittered = TRUE]

\* _apply_jitter keeps the candidate as it was when the mutation is invalid.
Salvaged(c, g, ok) ==
  IF ok THEN [c EXCEPT !.edit.config = g, !.config = g, !.jittered = TRUE] ELSE c

Rejected(c, stage) == [c EXCEPT !.valid = FALSE, !.stage = stage]

SkipInvalid ==
  /\ pc \in {"diversity", "behaviour"} /\ ~ batch[at].valid
  /\ Advance(pc)
  /\ UNCHANGED <<modeVars, noteVars, k, batch, fixVars, passed, iterCost, evalVars>>

\* The candidate is different enough, or no mutation of it is found.
KeepConfig ==
  /\ pc = "diversity" /\ mode = "explore" /\ batch[at].valid
  /\ Advance("diversity")
  /\ UNCHANGED <<modeVars, noteVars, k, batch, fixVars, passed, iterCost, evalVars>>

Jitter(g, ok) ==
  LET c == batch[at]
  IN  /\ pc = "diversity" /\ mode = "explore" /\ c.valid /\ TooClose(c)
      /\ g \in Jittered(c) /\ ok \in Preflight(<<c.edit.code, g>>)
      /\ batch' = [batch EXCEPT ![at] = Salvaged(c, g, ok)]
      /\ passed' = passed \cup (IF ok THEN {<<c.edit.code, g>>} ELSE {})
      /\ Advance("diversity")
      /\ UNCHANGED <<modeVars, noteVars, k, fixVars, iterCost, evalVars>>

SlipAgainstLastTried(c) ==
  Alike(c.config, tried[Len(tried)], {tried[Len(tried)]}) >= 999

\* _check_exploit_gate compares with the file on disk.  A configuration need not
\* be like itself: without numbers to compare, or with empty lists, it is not.
Unchanged(c) == Alike(c.config, current[2], {current[2]}) >= 999

CheckExploit ==
  LET c == batch[at]
  IN  /\ pc = "diversity" /\ mode = "exploit" /\ c.valid
      /\ batch' = [batch EXCEPT
                     ![at] = IF Unchanged(c) THEN Rejected(c, "exploit_no_change") ELSE c]
      /\ Advance("diversity")
      /\ UNCHANGED <<modeVars, noteVars, k, fixVars, passed, iterCost, evalVars>>

\* compare_signals_to_incumbent runs both codes with the candidate's
\* configuration; a comparison that fails or takes too long finds no identity.
FoundIdentical(c) ==
  LET same == Weights[Files(c)] = Weights[<<current[1], c.config>>]
  IN  IF {Files(c), <<current[1], c.config>>} \subseteq Valid \ Slow
        THEN {same} ELSE {same, FALSE}

CheckBehaviour(identical) ==
  LET c == batch[at]
  IN  /\ pc = "behaviour" /\ c.valid
      /\ identical \in FoundIdentical(c)
      /\ batch' = [batch EXCEPT
                     ![at] = IF identical THEN Rejected(c, "identical_behavior") ELSE c]
      /\ Advance("behaviour")
      /\ UNCHANGED <<modeVars, noteVars, k, fixVars, passed, iterCost, evalVars>>

-----------------------------------------------------------------------------
(* Evaluation: a pool of threads over the cache *)

\* _check_eval_cache
Key(files) == <<Plain[files[1]], files[2]>>

\* A deepcopy for the candidate, and one for the cache
Own(i) == <<k, i>>

SlipSharedObject(i, entry) == entry.object

Handed(i, entry) == Own(i)

Entries(key) == {j \in DOMAIN cache : cache[j].key = key}

Without(key) ==
  IF Entries(key) = {} THEN cache ELSE RemoveAt(cache, CHOOSE j \in Entries(key) : TRUE)

SlipNeverEvicts(entry) == Append(Without(entry.key), entry)

\* __setitem__
Inserted(entry) ==
  LET grown == Append(Without(entry.key), entry)
  IN  IF Len(grown) > CacheSize THEN Tail(grown) ELSE grown

Busy == {i \in DOMAIN worker : worker[i] = "missed"}

Submit ==
  /\ pc = "submit"
  /\ worker' = [i \in DOMAIN batch |-> IF batch[i].valid THEN "queued" ELSE "out"]
  /\ pc' = "evaluate"
  /\ UNCHANGED <<modeVars, noteVars, k, batch, at, fixVars, passed, iterCost, cache, dirty>>

SlipWaitsForInvalid(i) == worker[i] = "queued" /\ \A j \in 1 .. i - 1 : worker[j] = "done"

\* The pool takes its tasks in order.
NextTask(i) == worker[i] = "queued" /\ \A j \in 1 .. i - 1 : worker[j] # "queued"

\* A hit moves the entry to the end and copies its report.
StartEvaluation(i) ==
  LET key == Key(Files(batch[i]))
  IN  /\ pc = "evaluate" /\ NextTask(i) /\ Cardinality(Busy) < Workers
      /\ IF Entries(key) = {}
           THEN worker' = [worker EXCEPT ![i] = "missed"] /\ UNCHANGED <<batch, cache>>
           ELSE LET entry == cache[CHOOSE j \in Entries(key) : TRUE]
                IN  /\ cache' = Append(Without(key), entry)
                    /\ batch' = [batch EXCEPT ![i].report = Report(entry.of, Handed(i, entry))]
                    /\ worker' = [worker EXCEPT ![i] = "done"]
      /\ UNCHANGED <<modeVars, noteVars, k, pc, at, fixVars, passed, iterCost, dirty>>

\* Reports that the prescreen cut short are not cached.
FinishEvaluation(i) ==
  LET files == Files(batch[i])
      key   == Key(files)
  IN  /\ pc = "evaluate" /\ worker[i] = "missed"
      /\ worker' = [worker EXCEPT ![i] = "done"]
      /\ IF Outcome[files] = "error"
           THEN batch' = [batch EXCEPT ![i] = Rejected(@, "eval_error")] /\ UNCHANGED <<cache, dirty>>
           ELSE /\ batch' = [batch EXCEPT ![i].report = Report(files, Own(i))]
                /\ IF Outcome[files] = "report"
                     THEN /\ cache' = Inserted([key |-> key, of |-> files, object |-> key])
                          /\ dirty' = dirty \ {key}
                     ELSE UNCHANGED <<cache, dirty>>
      /\ UNCHANGED <<modeVars, noteVars, k, pc, at, fixVars, passed, iterCost>>

FinishBatch ==
  /\ pc = "evaluate" /\ \A i \in DOMAIN worker : worker[i] \in {"out", "done"}
  /\ pc' = "select"
  /\ UNCHANGED <<modeVars, noteVars, k, batch, at, fixVars, passed, iterCost, evalVars>>

-----------------------------------------------------------------------------
(* What the gates make of the batch: every report is deflated in place,    *)
(* the winner's files and row come first, then the other rows.             *)
Conclude(winner) ==
  LET others == Picked(batch, Evaluated \ {winner})
      files(i) == <<batch[i].edit.code, batch[i].edit.config>>
  IN  /\ pc = "select"
      /\ tried' = LastOnes(tried
                           \o (IF winner = 0 THEN << >> ELSE <<files(winner)[2]>>)
                           \o [j \in DOMAIN others |-> others[j].config])
      /\ dirty' = dirty \cup ({batch[i].report.object : i \in Evaluated}
                                \cap {cache[j].object : j \in DOMAIN cache})
      /\ IF winner = 0
           THEN /\ mode' \in {mode, "explore"} /\ noAccept' = noAccept + 1
                /\ UNCHANGED current
           ELSE mode' = "exploit" /\ noAccept' = 0 /\ current' = files(winner)
      /\ pc' = "generate" /\ batch' = << >> /\ worker' = << >>
      /\ passed' = {} /\ iterCost' = 0
      /\ fixing' = NoEdit /\ rounds' = 0
      /\ UNCHANGED <<noteVars, k, at, cache>>

Finish ==
  /\ pc = "generate" /\ k >= MaxIterations
  /\ pc' = "stopped"
  /\ UNCHANGED <<modeVars, noteVars, k, batch, at, fixVars, passed, iterCost, evalVars>>

-----------------------------------------------------------------------------
Process ==
  \/ SkipFailedCall
  \/ \E ok \in BOOLEAN : ProcessEdit(ok)
  \/ \E answer \in Answers, ok \in BOOLEAN : Repair(answer, ok)
  \/ \E answer \in Answers : RepairFails(answer) \/ RepairRefused(answer)

Guard ==
  \/ SkipInvalid \/ KeepConfig \/ CheckExploit
  \/ \E g \in Configs, ok \in BOOLEAN : Jitter(g, ok)
  \/ \E identical \in BOOLEAN : CheckBehaviour(identical)

Evaluate ==
  \/ Submit
  \/ \E i \in DOMAIN worker : StartEvaluation(i) \/ FinishEvaluation(i)
  \/ FinishBatch

Next ==
  \/ \E answers \in Batches : Generate(answers)
  \/ Process \/ Guard \/ Evaluate
  \/ \E winner \in Evaluated \cup {0} : Conclude(winner)
  \/ Finish

Spec == Init /\ [][Next]_vars

\* Calls of the model, sandboxed checks and backtests come to an end.
FairSpec == Spec /\ WF_vars(Next)
=============================================================================
