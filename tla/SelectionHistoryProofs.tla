----------------------- MODULE SelectionHistoryProofs -----------------------
(***************************************************************************)
(* Proofs about the rows a run leaves in the ledger, about what it tells   *)
(* the language model, and about the candidate it spends the holdout on.   *)
(*                                                                         *)
(* A row is written from a candidate of the batch, so what holds of every  *)
(* row is carried there by the batch: each candidate's report is its       *)
(* edit's own backtest (OneBacktest), only a candidate whose holdout was   *)
(* consulted counts as confirmed (ConfirmedCounted), and while the run     *)
(* explores the ones let through repeat no recorded series (NoRepeat).     *)
(*                                                                         *)
(* The failures the next prompt reports are those of the batch when its    *)
(* rows are written (Blamed), and these are the last rows of the ledger    *)
(* until the next batch (RowsSoFar, ListsCurrent).                         *)
(*                                                                         *)
(* A candidate that dominates another one, as both come out of the         *)
(* deflation, passes every gate the other one passes (BetterPasses) and    *)
(* ranks higher (TopUndominated).                                          *)
(***************************************************************************)
EXTENDS SelectionProofs

-----------------------------------------------------------------------------
(* Reports of one backtest *)

(* Being of one backtest is an equivalence, and deflation keeps within it. *)
LEMMA SameBacktestEquivalence ==
  /\ \A r : SameBacktest(r, r)
  /\ \A r, s : SameBacktest(r, s) => SameBacktest(s, r)
  /\ \A r, s, t : SameBacktest(r, s) /\ SameBacktest(s, t) => SameBacktest(r, t)
<1> QED
  BY DEF SameBacktest

(* Deflated by whatever rows, a report stays one of the same backtest.     *)
LEMMA DeflationKeepsBacktest ==
  ASSUME NEW r \in Report, NEW e, NEW x
  PROVE  SameBacktest(DeflateSelection(r, e, x), r) /\ SameBacktest(DeflateHoldout(r, e, x), r)
<1>1. \A v, p : /\ SameBacktest([r EXCEPT !.dsr = v, !.pbo = p], r)
                /\ SameBacktest([r EXCEPT !.hdsr = v], r)
  BY DEF SameBacktest, Report
<1>2. \E v, p : DeflateSelection(r, e, x) = [r EXCEPT !.dsr = v, !.pbo = p]
  BY DEF DeflateSelection
<1>3. DeflateHoldout(r, e, x) = r \/ \E v : DeflateHoldout(r, e, x) = [r EXCEPT !.hdsr = v]
  BY DEF DeflateHoldout
<1> QED
  BY <1>1, <1>2, <1>3 DEF SameBacktest

(* An edit's backtest deflated both ways, as a tuned configuration is.     *)
LEMMA FreshKeepsBacktest ==
  ASSUME Types, NEW e \in Edits
  PROVE  SameBacktest(DeflateHoldout(DeflateSelection(Outcome[e], e, 0), e, 0), Outcome[e])
<1>1. Outcome[e] \in Report /\ DeflateSelection(Outcome[e], e, 0) \in Report
  BY RunAssumption, DeflateSelectionTyped DEF Types, Rowed
<1> QED
  BY <1>1, DeflationKeepsBacktest, SameBacktestEquivalence

-----------------------------------------------------------------------------
(* The invariant *)

RowPaid(row) ==
  row.peeked <=> row.accepted \/ (row.reason # None /\ row.reason.phase = "confirm")

OneBacktest ==
  /\ \A i \in DOMAIN attempts : SameBacktest(attempts[i].report, Outcome[attempts[i].edit])
  /\ \A j \in DOMAIN batch : SameBacktest(batch[j].report, Outcome[batch[j].edit])
  /\ SameBacktest(incumbent.report, Outcome[incumbent.edit])

ConfirmedCounted ==
  /\ \A i \in DOMAIN attempts : RowPaid(attempts[i])
  /\ pc = "select" => winner = 0
  /\ \A j \in DOMAIN batch :
       j # winner => (batch[j].confirmed <=>
                        batch[j].reason # None /\ batch[j].reason.phase = "confirm")

IncumbentRecorded ==
  pc # "baseline" =>
    /\ attempts[incumbent.id].accepted
    /\ attempts[incumbent.id].edit = incumbent.edit
    /\ \A i \in DOMAIN attempts : attempts[i].accepted => i <= incumbent.id

HistoryInv == OneBacktest /\ ConfirmedCounted /\ IncumbentRecorded

-----------------------------------------------------------------------------
(* What judging and confirming do to one candidate *)

(* Judging a fresh candidate leaves it unconfirmed.                        *)
LEMMA JudgedFields ==
  ASSUME Types, pc # "baseline", NEW c \in CandidateType, NEW inc
  PROVE  /\ SameBacktest(Judged(c, inc).report, c.report)
         /\ Judged(c, inc).edit = c.edit
         /\ Judged(c, inc).confirmed = c.confirmed
         /\ Judged(c, inc).tuned = c.tuned
         /\ \/ Judged(c, inc).reason = c.reason
            \/ Judged(c, inc).reason # None /\ Judged(c, inc).reason.phase = "select"
         /\ c.reason = None /\ Judged(c, inc).reason = None /\ mode = "explore" =>
              HistoryCorrelation(c.edit) < 100
<1> DEFINE r == DeflateSelection(c.report, c.edit, 0)
           checks == SelectChecks(r, inc.report, EditLimits[c.edit])
           corr == HistoryCorrelation(c.edit)
           d == [c EXCEPT !.report = r]
           gate == Reason("gate", "select", FailedGate(checks))
           dup == Reason("diversity_returns", "select", "none")
<1>1. SameBacktest(r, c.report)
  BY DeflationKeepsBacktest DEF CandidateType
<1>2. ~ Passes(checks) => FailedGate(checks) \in GateNames
  BY ChecksTyped, FailedGateTyped
<1>3. corr \in 0 .. 100
  BY HistoryCorrelationTyped
<1> HIDE DEF r, checks, corr
<1>4. ~ Passes(checks) => gate \in Reasons /\ gate # None /\ gate.phase = "select"
  <2>1. ~ Passes(checks) => gate \in Reasons
    BY <1>2 DEF Reason, Reasons
  <2>2. gate.phase = "select"
    BY DEF Reason
  <2> QED
    BY <2>1, <2>2, ReasonsAssumption
<1>5. dup \in Reasons /\ dup # None /\ dup.phase = "select"
  <2>1. dup \in Reasons
    BY DEF Reason, Reasons
  <2>2. dup.phase = "select"
    BY DEF Reason
  <2> QED
    BY <2>1, <2>2, ReasonsAssumption
<1>6. /\ d.report = r /\ d.edit = c.edit /\ d.confirmed = c.confirmed /\ d.tuned = c.tuned
      /\ d.reason = c.reason
  BY DEF CandidateType
<1>7. \A y : /\ [d EXCEPT !.reason = y].report = r /\ [d EXCEPT !.reason = y].edit = c.edit
             /\ [d EXCEPT !.reason = y].confirmed = c.confirmed
             /\ [d EXCEPT !.reason = y].tuned = c.tuned /\ [d EXCEPT !.reason = y].reason = y
  BY DEF CandidateType
<1>8. \A z : /\ [d EXCEPT !.corr = z].report = r /\ [d EXCEPT !.corr = z].edit = c.edit
             /\ [d EXCEPT !.corr = z].confirmed = c.confirmed
             /\ [d EXCEPT !.corr = z].tuned = c.tuned
             /\ [d EXCEPT !.corr = z].reason = c.reason
  BY DEF CandidateType
<1>9. \A y, z : LET n == [d EXCEPT !.reason = y, !.corr = z]
                IN  /\ n.report = r /\ n.edit = c.edit /\ n.confirmed = c.confirmed
                    /\ n.tuned = c.tuned /\ n.reason = y
  BY DEF CandidateType
<1> HIDE DEF d, gate, dup
<1>10. CASE ~ Passes(checks)
  <2>1. Judged(c, inc) = [d EXCEPT !.reason = gate]
    BY <1>10 DEF Judged, r, checks, corr, d, gate
  <2> QED
    BY <1>1, <1>4, <1>7, <1>10, <2>1
<1>11. CASE Passes(checks) /\ mode = "explore" /\ corr = 100
  <2>1. Judged(c, inc) = [d EXCEPT !.reason = dup, !.corr = corr]
    BY <1>11 DEF Judged, r, checks, corr, d, dup
  <2> QED
    BY <1>1, <1>5, <1>9, <2>1
<1>12. CASE Passes(checks) /\ mode = "explore" /\ corr < 100
  <2>1. Judged(c, inc) = [d EXCEPT !.corr = corr]
    BY <1>3, <1>12 DEF Judged, r, checks, corr, d
  <2> QED
    BY <1>1, <1>8, <1>12, <2>1 DEF corr
<1>13. CASE Passes(checks) /\ mode # "explore"
  <2>1. Judged(c, inc) = d
    BY <1>13 DEF Judged, r, checks, corr, d
  <2> QED
    BY <1>1, <1>6, <1>13, <2>1
<1> QED
  BY <1>3, <1>10, <1>11, <1>12, <1>13

(* Confirming a candidate marks it, and a rejection says so.               *)
LEMMA ConfirmedFields ==
  ASSUME Types, NEW c \in CandidateType, NEW inc
  PROVE  /\ SameBacktest(Confirmed(c, inc).report, c.report)
         /\ Confirmed(c, inc).edit = c.edit
         /\ Confirmed(c, inc).confirmed = TRUE
         /\ Confirmed(c, inc).tuned = c.tuned
         /\ \/ Confirmed(c, inc).reason = None
            \/ Confirmed(c, inc).reason # None /\ Confirmed(c, inc).reason.phase = "confirm"
<1> DEFINE r == DeflateHoldout(c.report, c.edit, 0)
           checks == ConfirmChecks(r, inc.report, EditLimits[c.edit])
           why == IF Passes(checks) THEN None
                  ELSE Reason("gate", "confirm", FailedGate(checks))
<1>1. SameBacktest(r, c.report)
  BY DeflationKeepsBacktest DEF CandidateType
<1> HIDE DEF r, checks
<1>2. Confirmed(c, inc) = [c EXCEPT !.report = r, !.confirmed = TRUE, !.reason = why]
  BY DEF Confirmed, r, checks
<1>3. why = None \/ why.phase = "confirm"
  BY DEF Reason
<1> HIDE DEF why
<1>4. /\ Confirmed(c, inc).report = r /\ Confirmed(c, inc).edit = c.edit
      /\ Confirmed(c, inc).confirmed = TRUE /\ Confirmed(c, inc).tuned = c.tuned
      /\ Confirmed(c, inc).reason = why
  BY <1>2 DEF CandidateType
<1> QED
  BY <1>1, <1>3, <1>4

(* The row of a winner says what the candidate was.                        *)
LEMMA WinnerRow ==
  ASSUME NEW c
  PROVE  LET row == Row(c, TRUE, TRUE)
         IN  /\ row.report = c.report /\ row.edit = c.edit /\ row.iter = k
             /\ row.explore = (mode = "explore") /\ row.tuned = c.tuned
             /\ row.accepted /\ row.peeked /\ RowPaid(row)
<1> QED
  BY DEF Row, RowPaid

(* So does a loser's.                                                      *)
LEMMA LoserRow ==
  ASSUME NEW c \in CandidateType
  PROVE  LET row == Row(c, FALSE, c.confirmed)
         IN  /\ row.report = c.report /\ row.edit = c.edit /\ row.iter = k
             /\ row.explore = (mode = "explore") /\ row.tuned = c.tuned
             /\ ~ row.accepted /\ row.peeked = c.confirmed /\ row.reason = c.reason
<1> QED
  BY DEF Row

(* Committing appends the winner's row.                                    *)
LEMMA CommitAppends ==
  ASSUME Inv, Commit
  PROVE  LET row == Row(batch[winner], TRUE, TRUE)
         IN  /\ batch[winner] \in CandidateType /\ winner \in DOMAIN batch
             /\ incumbent'.id \notin DOMAIN attempts /\ incumbent'.id \in DOMAIN attempts'
             /\ attempts'[incumbent'.id] = row
             /\ incumbent'.edit = batch[winner].edit
             /\ incumbent'.report = batch[winner].report
             /\ \A i \in DOMAIN attempts : i \in DOMAIN attempts' /\ attempts'[i] = attempts[i]
             /\ \A i \in DOMAIN attempts' : i \notin DOMAIN attempts => attempts'[i] = row
             /\ \A i \in DOMAIN attempts' : i <= incumbent'.id
<1> DEFINE row == Row(batch[winner], TRUE, TRUE)
<1>1. winner \in DOMAIN batch /\ batch \in Seq(CandidateType) /\ attempts \in Seq(RowType)
  BY DEF Inv, WinnerEarned, Types, Commit
<1>2. batch[winner] \in CandidateType
  BY <1>1, ElementOfSeq
<1>3. row \in RowType
  BY <1>2, RowOfCandidateTyped DEF Inv, Types
<1>4. attempts' = Append(attempts, row)
  BY DEF Commit
<1>5. /\ incumbent'.id = Len(attempts) + 1 /\ incumbent'.edit = batch[winner].edit
      /\ incumbent'.report = batch[winner].report
  BY DEF Commit, AttemptId
<1> HIDE DEF row
<1>6. /\ Len(attempts') = Len(attempts) + 1 /\ attempts' \in Seq(RowType)
      /\ \A i \in 1 .. Len(attempts) : attempts'[i] = attempts[i]
      /\ attempts'[Len(attempts) + 1] = row
  BY <1>1, <1>3, <1>4, AppendProperties
<1>7. /\ DOMAIN attempts' = 1 .. Len(attempts) + 1 /\ DOMAIN attempts = 1 .. Len(attempts)
      /\ Len(attempts) \in Nat
  BY <1>1, <1>6, LenProperties
<1>8. Len(attempts) + 1 \in DOMAIN attempts' /\ Len(attempts) + 1 \notin DOMAIN attempts
  BY <1>7
<1>9. /\ \A i \in DOMAIN attempts : i \in DOMAIN attempts' /\ attempts'[i] = attempts[i]
      /\ \A i \in DOMAIN attempts' : i \notin DOMAIN attempts => i = Len(attempts) + 1
      /\ \A i \in DOMAIN attempts' : i <= Len(attempts) + 1
  BY <1>6, <1>7
<1> QED
  BY <1>1, <1>2, <1>5, <1>6, <1>8, <1>9 DEF row

-----------------------------------------------------------------------------
(* OneBacktest is kept *)

(* No step gives a candidate, a row or the incumbent another backtest.     *)
LEMMA OneBacktestKept == Inv /\ OneBacktest /\ [Next]_vars => OneBacktest'
<1> SUFFICES ASSUME Inv, OneBacktest, [Next]_vars PROVE OneBacktest'
  OBVIOUS
<1>0. /\ Types /\ DOMAIN batch = 1 .. Len(batch)
      /\ \A j \in DOMAIN batch : batch[j] \in CandidateType
  BY LenProperties, ElementOfSeq DEF Inv, Types
<1>1. CASE SetupBaseline
  <2> DEFINE r == DeflateHoldout(DeflateSelection(Outcome[Baseline], Baseline, 0), Baseline, 0)
             c == [Candidate(Baseline) EXCEPT !.report = r]
  <2>1. SameBacktest(r, Outcome[Baseline])
    BY <1>0, RunAssumption, FreshKeepsBacktest
  <2> HIDE DEF r
  <2>2. c.report = r /\ c.edit = Baseline
    BY DEF Candidate
  <2>3. /\ attempts' = << Row(c, TRUE, TRUE) >> /\ batch' = batch
        /\ incumbent' = [edit |-> Baseline, id |-> 1, report |-> r]
    BY <1>1 DEF SetupBaseline, r
  <2>4. DOMAIN attempts' = {1} /\ attempts'[1] = Row(c, TRUE, TRUE)
    BY <2>3
  <2> DEFINE row == Row(c, TRUE, TRUE)
  <2>5. row.report = c.report /\ row.edit = c.edit
    BY WinnerRow
  <2> HIDE DEF row, c
  <2>6. SameBacktest(attempts'[1].report, Outcome[attempts'[1].edit])
    BY <2>1, <2>2, <2>4, <2>5 DEF row
  <2> QED
    BY <2>1, <2>3, <2>4, <2>6 DEF OneBacktest
<1>2. CASE \E edits \in Proposals : Generate(edits)
  <2>1. PICK edits \in Proposals : Generate(edits)
    BY <1>2
  <2>2. /\ attempts' = attempts /\ incumbent' = incumbent
        /\ batch' = [i \in DOMAIN edits |-> Candidate(edits[i])]
    BY <2>1 DEF Generate
  <2>3. \A e : Candidate(e).edit = e /\ Candidate(e).report = Outcome[e]
    BY DEF Candidate
  <2> QED
    BY <2>2, <2>3, SameBacktestEquivalence DEF OneBacktest
<1>3. CASE JudgeCandidate
  <2> DEFINE inc == [incumbent EXCEPT !.report = Renewed(incumbent)]
  <2>1. /\ attempts' = attempts /\ incumbent' = inc /\ at \in DOMAIN batch /\ pc = "select"
        /\ batch' = [batch EXCEPT ![at] = Judged(batch[at], inc)]
    BY <1>0, <1>3 DEF JudgeCandidate, Types
  <2>2. SameBacktest(inc.report, incumbent.report) /\ inc.edit = incumbent.edit
    <3>1. inc.report = Renewed(incumbent) /\ inc.edit = incumbent.edit
      BY <1>0 DEF Types
    <3>2. incumbent.report \in Report
      BY <1>0, IncumbentTyped
    <3> QED
      BY <3>1, <3>2, DeflationKeepsBacktest DEF Renewed
  <2>3. /\ SameBacktest(Judged(batch[at], inc).report, batch[at].report)
        /\ Judged(batch[at], inc).edit = batch[at].edit
    BY <1>0, <2>1, JudgedFields
  <2> HIDE DEF inc
  <2>4. \A j \in DOMAIN batch' : /\ j \in DOMAIN batch
                                 /\ SameBacktest(batch'[j].report, batch[j].report)
                                 /\ batch'[j].edit = batch[j].edit
    BY <2>1, <2>3, SameBacktestEquivalence
  <2>5. SameBacktest(incumbent'.report, Outcome[incumbent'.edit])
    BY <2>1, <2>2, SameBacktestEquivalence DEF OneBacktest
  <2> QED
    BY <2>1, <2>4, <2>5, SameBacktestEquivalence DEF OneBacktest
<1>4. CASE ConfirmTop
  <2> DEFINE inc == [incumbent EXCEPT !.report = RenewedHoldout(incumbent)]
  <2>1. /\ attempts' = attempts /\ incumbent' = inc /\ Top \in DOMAIN batch
        /\ batch' = [batch EXCEPT ![Top] = Confirmed(batch[Top], inc)]
    BY <1>0, <1>4, TopPasses DEF ConfirmTop, Passers
  <2>2. SameBacktest(inc.report, incumbent.report) /\ inc.edit = incumbent.edit
    <3>1. inc.report = RenewedHoldout(incumbent) /\ inc.edit = incumbent.edit
      BY <1>0 DEF Types
    <3>2. incumbent.report \in Report
      BY <1>0, IncumbentTyped
    <3> QED
      BY <3>1, <3>2, DeflationKeepsBacktest DEF RenewedHoldout
  <2>3. /\ SameBacktest(Confirmed(batch[Top], inc).report, batch[Top].report)
        /\ Confirmed(batch[Top], inc).edit = batch[Top].edit
    BY <1>0, <2>1, ConfirmedFields
  <2> HIDE DEF inc
  <2>4. \A j \in DOMAIN batch' : /\ j \in DOMAIN batch
                                 /\ SameBacktest(batch'[j].report, batch[j].report)
                                 /\ batch'[j].edit = batch[j].edit
    BY <2>1, <2>3, SameBacktestEquivalence
  <2>5. SameBacktest(incumbent'.report, Outcome[incumbent'.edit])
    BY <2>1, <2>2, SameBacktestEquivalence DEF OneBacktest
  <2> QED
    BY <2>1, <2>4, <2>5, SameBacktestEquivalence DEF OneBacktest
<1>5. CASE RefusePeek
  <2> DEFINE c == [batch[Top] EXCEPT !.reason = Reason("holdout_peek_limit", "budget", "none")]
  <2>1. /\ attempts' = attempts /\ incumbent' = incumbent /\ Top \in DOMAIN batch
        /\ batch' = [batch EXCEPT ![Top] = c]
    BY <1>0, <1>5, TopPasses DEF RefusePeek, Passers, runVars
  <2>2. c.report = batch[Top].report /\ c.edit = batch[Top].edit
    BY <1>0, <2>1 DEF CandidateType
  <2> HIDE DEF c
  <2>3. \A j \in DOMAIN batch' : /\ j \in DOMAIN batch
                                 /\ batch'[j].report = batch[j].report
                                 /\ batch'[j].edit = batch[j].edit
    BY <2>1, <2>2
  <2> QED
    BY <2>1, <2>3 DEF OneBacktest
<1>6. CASE \E t \in Edits : Tune(t)
  <2>1. PICK t \in Edits : Tune(t)
    BY <1>6
  <2> DEFINE r == DeflateHoldout(DeflateSelection(Outcome[t], t, 0), t, 0)
             c == Adopted(batch[winner], t, r)
  <2>2. /\ attempts' = attempts /\ incumbent' = incumbent /\ winner \in DOMAIN batch
        /\ batch' = [batch EXCEPT ![winner] = c] \/ batch' = batch
    BY <2>1 DEF Tune, runVars, Inv, WinnerEarned
  <2>3. SameBacktest(r, Outcome[t])
    BY <1>0, FreshKeepsBacktest
  <2> HIDE DEF r
  <2>4. c.report = r /\ c.edit = t
    BY <1>0, <2>2 DEF CandidateType, Adopted
  <2> HIDE DEF c
  <2> QED
    BY <2>2, <2>3, <2>4 DEF OneBacktest
<1>7. CASE Commit
  <2> DEFINE row == Row(batch[winner], TRUE, TRUE)
  <2>1. row.report = batch[winner].report /\ row.edit = batch[winner].edit
    BY WinnerRow
  <2> HIDE DEF row
  <2>2. batch' = batch
    BY <1>7 DEF Commit
  <2>3. /\ winner \in DOMAIN batch
        /\ incumbent'.edit = batch[winner].edit /\ incumbent'.report = batch[winner].report
        /\ \A i \in DOMAIN attempts' :
             IF i \in DOMAIN attempts THEN attempts'[i] = attempts[i] ELSE attempts'[i] = row
    BY <1>7, CommitAppends DEF row
  <2> QED
    BY <2>1, <2>2, <2>3 DEF OneBacktest
<1>8. CASE Record
  <2>1. batch' = batch /\ incumbent' = incumbent
    BY <1>8 DEF Record
  <2>2. \A i \in DOMAIN attempts' :
          \/ i \in DOMAIN attempts /\ attempts'[i] = attempts[i]
          \/ \E j \in DOMAIN batch : attempts'[i] = Row(batch[j], FALSE, batch[j].confirmed)
    BY <1>0, <1>8, RecordAppends
  <2>3. ASSUME NEW j \in DOMAIN batch
        PROVE  LET row == Row(batch[j], FALSE, batch[j].confirmed)
               IN  SameBacktest(row.report, Outcome[row.edit])
    BY <1>0, LoserRow DEF OneBacktest
  <2>4. \A i \in DOMAIN attempts' :
          SameBacktest(attempts'[i].report, Outcome[attempts'[i].edit])
    BY <2>2, <2>3 DEF OneBacktest
  <2> QED
    BY <2>1, <2>4 DEF OneBacktest
<1>9. CASE NothingToConfirm \/ KeepWinner \/ Finish \/ UNCHANGED vars
  BY <1>9 DEF NothingToConfirm, KeepWinner, Finish, vars, runVars, OneBacktest
<1> QED
  BY <1>1, <1>2, <1>3, <1>4, <1>5, <1>6, <1>7, <1>8, <1>9 DEF Next, Iteration

-----------------------------------------------------------------------------
(* ConfirmedCounted is kept *)

(* No step confirms a candidate without its row saying so.                 *)
LEMMA ConfirmedCountedKept == Inv /\ ConfirmedCounted /\ [Next]_vars => ConfirmedCounted'
<1> SUFFICES ASSUME Inv, ConfirmedCounted, [Next]_vars PROVE ConfirmedCounted'
  OBVIOUS
<1>0. /\ Types /\ DOMAIN batch = 1 .. Len(batch)
      /\ \A j \in DOMAIN batch : batch[j] \in CandidateType
  BY LenProperties, ElementOfSeq DEF Inv, Types
<1>1. CASE SetupBaseline
  <2>1. PICK c : attempts' = << Row(c, TRUE, TRUE) >>
    BY <1>1 DEF SetupBaseline
  <2>2. DOMAIN attempts' = {1} /\ attempts'[1] = Row(c, TRUE, TRUE)
    BY <2>1
  <2>3. RowPaid(attempts'[1])
    BY <2>2, WinnerRow
  <2>4. batch' = batch /\ winner' = winner /\ pc' = "generate"
    BY <1>1 DEF SetupBaseline
  <2> QED
    BY <2>2, <2>3, <2>4 DEF ConfirmedCounted
<1>2. CASE \E edits \in Proposals : Generate(edits)
  <2>1. PICK edits \in Proposals : Generate(edits)
    BY <1>2
  <2>2. /\ attempts' = attempts /\ winner' = 0
        /\ batch' = [i \in DOMAIN edits |-> Candidate(edits[i])]
    BY <2>1 DEF Generate
  <2>3. \A e : Candidate(e).confirmed = FALSE /\ Candidate(e).reason = None
    BY DEF Candidate
  <2> QED
    BY <2>2, <2>3 DEF ConfirmedCounted
<1>3. CASE JudgeCandidate
  <2> DEFINE inc == [incumbent EXCEPT !.report = Renewed(incumbent)]
             c == Judged(batch[at], inc)
  <2>1. /\ attempts' = attempts /\ winner' = winner /\ pc = "select" /\ at \in DOMAIN batch
        /\ batch' = [batch EXCEPT ![at] = c]
    BY <1>0, <1>3 DEF JudgeCandidate, Types
  <2>2. batch[at].confirmed = FALSE /\ batch[at].reason = None
    <3>1. batch[at] = Candidate(batch[at].edit)
      BY <1>0, <2>1 DEF Inv, JudgedFairly
    <3> QED
      BY <3>1 DEF Candidate
  <2>3. /\ c.confirmed = batch[at].confirmed
        /\ c.reason = batch[at].reason \/ (c.reason # None /\ c.reason.phase = "select")
    BY <1>0, <2>1, JudgedFields
  <2> HIDE DEF c
  <2>4. c.confirmed <=> c.reason # None /\ c.reason.phase = "confirm"
    BY <2>2, <2>3
  <2> QED
    BY <2>1, <2>4 DEF ConfirmedCounted
<1>4. CASE ConfirmTop
  <2> DEFINE inc == [incumbent EXCEPT !.report = RenewedHoldout(incumbent)]
             c == Confirmed(batch[Top], inc)
  <2>1. /\ attempts' = attempts /\ Top \in DOMAIN batch /\ pc = "select" /\ pc' # "select"
        /\ batch' = [batch EXCEPT ![Top] = c]
        /\ winner' = IF c.reason = None THEN Top ELSE 0
    BY <1>0, <1>4, TopPasses DEF ConfirmTop, Passers
  <2>2. /\ c.confirmed = TRUE
        /\ c.reason = None \/ (c.reason # None /\ c.reason.phase = "confirm")
    BY <1>0, <2>1, ConfirmedFields
  <2>3. 0 \notin DOMAIN batch
    BY <1>0
  <2> HIDE DEF c
  <2> QED
    BY <2>1, <2>2, <2>3 DEF ConfirmedCounted
<1>5. CASE RefusePeek
  <2> DEFINE c == [batch[Top] EXCEPT !.reason = Reason("holdout_peek_limit", "budget", "none")]
  <2>1. /\ attempts' = attempts /\ winner' = winner /\ Top \in DOMAIN batch
        /\ pc = "select" /\ pc' # "select" /\ batch[Top].reason = None
        /\ batch' = [batch EXCEPT ![Top] = c]
    BY <1>0, <1>5, TopPasses DEF RefusePeek, Passers, runVars
  <2>2. c.confirmed = batch[Top].confirmed /\ c.reason.phase = "budget"
    BY <1>0, <2>1 DEF CandidateType, Reason
  <2>3. Top # 0
    BY <1>0, <2>1
  <2> HIDE DEF c
  <2>4. ~ c.confirmed
    BY <2>1, <2>2, <2>3 DEF ConfirmedCounted
  <2> QED
    BY <2>1, <2>2, <2>4 DEF ConfirmedCounted
<1>6. CASE \E t \in Edits : Tune(t)
  <2>1. PICK t \in Edits : Tune(t)
    BY <1>6
  <2>2. PICK c : /\ attempts' = attempts /\ winner' = winner /\ pc' = "commit"
                 /\ batch' = [batch EXCEPT ![winner] = c] \/ batch' = batch
    BY <2>1 DEF Tune, runVars
  <2> QED
    BY <2>2 DEF ConfirmedCounted
<1>7. CASE Commit
  <2> DEFINE row == Row(batch[winner], TRUE, TRUE)
  <2>1. RowPaid(row)
    BY WinnerRow
  <2> HIDE DEF row
  <2>2. batch' = batch /\ winner' = winner /\ pc' = "record"
    BY <1>7 DEF Commit
  <2>3. \A i \in DOMAIN attempts' :
          IF i \in DOMAIN attempts THEN attempts'[i] = attempts[i] ELSE attempts'[i] = row
    BY <1>7, CommitAppends DEF row
  <2> QED
    BY <2>1, <2>2, <2>3 DEF ConfirmedCounted
<1>8. CASE Record
  <2>1. batch' = batch /\ winner' = winner /\ pc' # "select"
    BY <1>8 DEF Record
  <2>2. ASSUME NEW j \in DOMAIN batch, j # winner
        PROVE  RowPaid(Row(batch[j], FALSE, batch[j].confirmed))
    <3>1. batch[j] \in CandidateType
      BY <1>0
    <3>2. batch[j].confirmed <=> batch[j].reason # None /\ batch[j].reason.phase = "confirm"
      BY <2>2 DEF ConfirmedCounted
    <3> DEFINE row == Row(batch[j], FALSE, batch[j].confirmed)
    <3>3. ~ row.accepted /\ row.peeked = batch[j].confirmed /\ row.reason = batch[j].reason
      BY <3>1, LoserRow
    <3> HIDE DEF row
    <3>4. RowPaid(row)
      BY <3>2, <3>3 DEF RowPaid
    <3> QED
      BY <3>4 DEF row
  <2>3. \A i \in DOMAIN attempts' :
          \/ i \in DOMAIN attempts /\ attempts'[i] = attempts[i]
          \/ \E j \in DOMAIN batch :
               j # winner /\ attempts'[i] = Row(batch[j], FALSE, batch[j].confirmed)
    BY <1>0, <1>8, RecordAppends
  <2>4. \A i \in DOMAIN attempts' : RowPaid(attempts'[i])
    BY <2>2, <2>3 DEF ConfirmedCounted
  <2> QED
    BY <2>1, <2>4 DEF ConfirmedCounted
<1>9. CASE NothingToConfirm \/ KeepWinner \/ Finish \/ UNCHANGED vars
  BY <1>9 DEF NothingToConfirm, KeepWinner, Finish, vars, runVars, ConfirmedCounted
<1> QED
  BY <1>1, <1>2, <1>3, <1>4, <1>5, <1>6, <1>7, <1>8, <1>9 DEF Next, Iteration

-----------------------------------------------------------------------------
(* IncumbentRecorded is kept *)

(* No step leaves the incumbent behind the last accepted row.              *)
LEMMA IncumbentRecordedKept == Inv /\ IncumbentRecorded /\ [Next]_vars => IncumbentRecorded'
<1> SUFFICES ASSUME Inv, IncumbentRecorded, [Next]_vars PROVE IncumbentRecorded'
  OBVIOUS
<1>0. Types /\ incumbent.id \in Nat
  BY DEF Inv, Types
<1>10. \A j \in DOMAIN batch : batch[j] \in CandidateType
  BY <1>0, ElementOfSeq DEF Types
<1>1. CASE SetupBaseline
  <2>1. PICK r : /\ incumbent' = [edit |-> Baseline, id |-> 1, report |-> r]
                 /\ attempts' = << Row([Candidate(Baseline) EXCEPT !.report = r], TRUE, TRUE) >>
    BY <1>1 DEF SetupBaseline
  <2> DEFINE c == [Candidate(Baseline) EXCEPT !.report = r]
  <2>2. c.edit = Baseline
    BY DEF Candidate
  <2> DEFINE row == Row(c, TRUE, TRUE)
  <2>3. DOMAIN attempts' = {1} /\ attempts'[1] = row
    BY <2>1
  <2>4. row.accepted /\ row.edit = Baseline
    BY <2>2, WinnerRow
  <2> HIDE DEF row
  <2>5. incumbent'.id = 1 /\ incumbent'.edit = Baseline
    BY <2>1
  <2> QED
    BY <2>3, <2>4, <2>5 DEF IncumbentRecorded
<1>2. CASE Commit
  <2>1. /\ attempts'[incumbent'.id] = Row(batch[winner], TRUE, TRUE)
        /\ incumbent'.edit = batch[winner].edit
        /\ \A i \in DOMAIN attempts' : i <= incumbent'.id
    BY <1>2, CommitAppends
  <2> DEFINE row == Row(batch[winner], TRUE, TRUE)
  <2>2. row.accepted /\ row.edit = batch[winner].edit
    BY WinnerRow
  <2>3. attempts'[incumbent'.id] = row
    BY <2>1
  <2> HIDE DEF row
  <2> QED
    BY <2>1, <2>2, <2>3 DEF IncumbentRecorded
<1>3. CASE Record
  <2>1. incumbent' = incumbent /\ pc # "baseline" /\ incumbent.id \in DOMAIN attempts
    BY <1>0, <1>3 DEF Record, Types
  <2>2. \A i \in DOMAIN attempts' :
          \/ i \in DOMAIN attempts /\ attempts'[i] = attempts[i]
          \/ \E j \in DOMAIN batch : attempts'[i] = Row(batch[j], FALSE, batch[j].confirmed)
    BY <1>0, <1>3, RecordAppends
  <2>3. attempts'[incumbent.id] = attempts[incumbent.id]
    BY <1>0, <1>3, <2>1, RecordAppends
  <2> QED
    BY <1>10, <2>1, <2>2, <2>3, LoserRow DEF IncumbentRecorded
<1>4. CASE JudgeCandidate \/ ConfirmTop
  <2>1. /\ attempts' = attempts /\ pc # "baseline"
        /\ incumbent'.id = incumbent.id /\ incumbent'.edit = incumbent.edit
    BY <1>0, <1>4 DEF JudgeCandidate, ConfirmTop, Types
  <2> QED
    BY <2>1 DEF IncumbentRecorded
<1>5. CASE \/ \E edits \in Proposals : Generate(edits)
           \/ NothingToConfirm \/ RefusePeek \/ KeepWinner \/ Finish
           \/ \E t \in Edits : Tune(t)
           \/ UNCHANGED vars
  <2>1. UNCHANGED <<attempts, incumbent>> /\ (pc' # "baseline" => pc # "baseline")
    BY <1>5 DEF Generate, NothingToConfirm, RefusePeek, KeepWinner, Finish, Tune, vars, runVars
  <2> QED
    BY <2>1 DEF IncumbentRecorded
<1> QED
  BY <1>1, <1>2, <1>3, <1>4, <1>5 DEF Next, Iteration

(* The rows of a run stay true: each is one edit's backtest, it holds a    *)
(* holdout series exactly when the holdout decided about it, and the       *)
(* incumbent is the last accepted one.                                     *)
THEOREM RowsStayTrue == Spec => []RowsHoldOneBacktest
<1>1. Init => HistoryInv
  <2> SUFFICES ASSUME Init PROVE HistoryInv
    OBVIOUS
  <2>1. incumbent.report = Outcome[incumbent.edit] /\ DOMAIN attempts = {} /\ DOMAIN batch = {}
    BY DEF Init
  <2> QED
    BY <2>1, SameBacktestEquivalence
       DEF Init, HistoryInv, OneBacktest, ConfirmedCounted, IncumbentRecorded
<1>2. Inv /\ HistoryInv /\ [Next]_vars => HistoryInv'
  BY OneBacktestKept, ConfirmedCountedKept, IncumbentRecordedKept DEF HistoryInv
<1>3. Inv /\ HistoryInv => RowsHoldOneBacktest
  <2> SUFFICES ASSUME Inv, HistoryInv PROVE RowsHoldOneBacktest
    OBVIOUS
  <2>1. incumbent.id # 0 => pc # "baseline" /\ incumbent.id \in DOMAIN attempts
    BY DEF Inv, Types
  <2>2. incumbent.id # 0 => SameBacktest(attempts[incumbent.id].report, incumbent.report)
    BY <2>1, SameBacktestEquivalence DEF HistoryInv, OneBacktest, IncumbentRecorded
  <2> QED
    BY <2>1, <2>2
       DEF HistoryInv, OneBacktest, ConfirmedCounted, IncumbentRecorded, RowPaid,
           RowsHoldOneBacktest
<1> QED
  BY <1>1, <1>2, <1>3, Invariance, PTL DEF Spec

-----------------------------------------------------------------------------
(* Duplicates *)

RowsDated ==
  /\ \A i \in DOMAIN attempts : attempts[i].iter \in Nat /\ attempts[i].iter <= k
  /\ pc \in {"select", "tune", "commit"} => \A i \in DOMAIN attempts : attempts[i].iter < k

\* No row of an earlier iteration has the series of edit e and compares
Unseen(rows, n, e) ==
  \A i \in DOMAIN rows : rows[i].iter < n =>
    Series[rows[i].edit] # Series[e] \/ <<e, rows[i].edit>> \in Incomparable

\* A candidate that may have reached the holdout
LetThrough(c) == (c.reason = None \/ c.confirmed) /\ ~ c.tuned

NoRepeat ==
  /\ pc \in {"select", "tune", "commit", "record"} /\ mode = "explore" =>
       \A j \in DOMAIN batch :
         (pc = "select" => j < at) /\ LetThrough(batch[j])
           => Unseen(attempts, k, batch[j].edit)
  /\ pc \in {"tune", "commit"} => batch[winner].confirmed

DuplicateInv == RowsDated /\ NoRepeat /\ DuplicatesTakeNoPeek

(* Rows carry the iteration that wrote them, the current one at most.      *)
LEMMA RowsDatedKept == Inv /\ RowsDated /\ [Next]_vars => RowsDated'
<1> SUFFICES ASSUME Inv, RowsDated, [Next]_vars PROVE RowsDated'
  OBVIOUS
<1>0. /\ Types /\ k \in Nat /\ \A j \in DOMAIN batch : batch[j] \in CandidateType
  BY ElementOfSeq DEF Inv, Types
<1>1. CASE SetupBaseline
  <2>1. PICK c : attempts' = << Row(c, TRUE, TRUE) >>
    BY <1>1 DEF SetupBaseline
  <2> DEFINE row == Row(c, TRUE, TRUE)
  <2>2. DOMAIN attempts' = {1} /\ attempts'[1] = row
    BY <2>1
  <2>3. row.iter = k
    BY WinnerRow
  <2> HIDE DEF row
  <2>4. k' = k /\ pc' = "generate"
    BY <1>1 DEF SetupBaseline
  <2> QED
    BY <1>0, <2>2, <2>3, <2>4 DEF RowsDated
<1>2. CASE \E edits \in Proposals : Generate(edits)
  <2>1. attempts' = attempts /\ k' = k + 1
    BY <1>2 DEF Generate
  <2> QED
    BY <1>0, <2>1 DEF RowsDated
<1>3. CASE Commit
  <2>1. k' = k /\ pc' = "record"
    BY <1>3 DEF Commit
  <2>2. \A i \in DOMAIN attempts' :
          IF i \in DOMAIN attempts THEN attempts'[i] = attempts[i] ELSE attempts'[i].iter = k
    <3> DEFINE row == Row(batch[winner], TRUE, TRUE)
    <3>1. row.iter = k
      BY WinnerRow
    <3> HIDE DEF row
    <3> QED
      BY <1>3, <3>1, CommitAppends DEF row
  <2> QED
    BY <1>0, <2>1, <2>2 DEF RowsDated
<1>4. CASE Record
  <2>1. k' = k /\ pc' \in {"stopped", "generate"}
    BY <1>4 DEF Record
  <2>2. \A i \in DOMAIN attempts' :
          \/ i \in DOMAIN attempts /\ attempts'[i] = attempts[i]
          \/ attempts'[i].iter = k
    <3>1. \A j \in DOMAIN batch : Row(batch[j], FALSE, batch[j].confirmed).iter = k
      BY <1>0, LoserRow
    <3> QED
      BY <1>0, <1>4, <3>1, RecordAppends
  <2> QED
    BY <1>0, <2>1, <2>2 DEF RowsDated
<1>5. CASE \/ JudgeCandidate \/ NothingToConfirm \/ RefusePeek \/ ConfirmTop \/ KeepWinner
           \/ Finish \/ (\E t \in Edits : Tune(t)) \/ UNCHANGED vars
  <2>1. /\ attempts' = attempts /\ k' = k
        /\ pc' \in {"select", "tune", "commit"} => pc \in {"select", "tune", "commit"}
    BY <1>5 DEF JudgeCandidate, NothingToConfirm, RefusePeek, ConfirmTop, KeepWinner, Finish,
                Tune, vars, runVars
  <2> QED
    BY <2>1 DEF RowsDated
<1> QED
  BY <1>1, <1>2, <1>3, <1>4, <1>5 DEF Next, Iteration

(* Full correlation is with an equal series only.                          *)
LEMMA UncorrelatedIsUnseen ==
  ASSUME Types, NEW e, HistoryCorrelation(e) < 100
  PROVE  Unseen(attempts, k, e)
<1>1. /\ HistoryCorrelation(e) \in 0 .. 100
      /\ \A i \in DOMAIN attempts : <<e, attempts[i].edit>> \notin Incomparable =>
           HistoryCorrelation(e) >= Correlation(e, attempts[i].edit)
  BY HistoryCorrelationTyped
<1>2. \A f : Series[e] = Series[f] => Correlation(e, f) = 100
  BY DEF Correlation
<1> QED
  BY <1>1, <1>2 DEF Unseen

(* While exploring, only a candidate of an unseen series is let through.   *)
LEMMA NoRepeatKept == Inv /\ NoRepeat /\ [Next]_vars => NoRepeat'
<1> SUFFICES ASSUME Inv, NoRepeat, [Next]_vars PROVE NoRepeat'
  OBVIOUS
<1>0. /\ Types /\ DOMAIN batch = 1 .. Len(batch)
      /\ \A j \in DOMAIN batch : batch[j] \in CandidateType
  BY LenProperties, ElementOfSeq DEF Inv, Types
<1>1. CASE SetupBaseline
  BY <1>1 DEF SetupBaseline, NoRepeat
<1>2. CASE \E edits \in Proposals : Generate(edits)
  <2>1. PICK edits \in Proposals : Generate(edits)
    BY <1>2
  <2>2. /\ pc' = "select" /\ at' = 1
        /\ batch' = [i \in DOMAIN edits |-> Candidate(edits[i])]
    BY <2>1 DEF Generate
  <2>3. \A j \in DOMAIN batch' : j \in Nat /\ j >= 1
    <3>1. DOMAIN edits = 1 .. Len(edits) /\ Len(edits) \in Nat
      BY RunAssumption, LenProperties
    <3> QED
      BY <2>2, <3>1
  <2> QED
    BY <2>2, <2>3 DEF NoRepeat
<1>3. CASE JudgeCandidate
  <2> DEFINE inc == [incumbent EXCEPT !.report = Renewed(incumbent)]
             c == Judged(batch[at], inc)
  <2>1. /\ attempts' = attempts /\ k' = k /\ mode' = mode /\ pc = "select" /\ pc' = "select"
        /\ at \in DOMAIN batch /\ at' = at + 1 /\ batch' = [batch EXCEPT ![at] = c]
    BY <1>0, <1>3 DEF JudgeCandidate, Types
  <2>2. batch[at].confirmed = FALSE /\ batch[at].reason = None
    <3>1. batch[at] = Candidate(batch[at].edit)
      BY <1>0, <2>1 DEF Inv, JudgedFairly
    <3> QED
      BY <3>1 DEF Candidate
  <2>3. /\ c.confirmed = FALSE /\ c.edit = batch[at].edit
        /\ c.reason = None /\ mode = "explore" => HistoryCorrelation(c.edit) < 100
    BY <1>0, <2>1, <2>2, JudgedFields
  <2> HIDE DEF c
  <2>4. mode = "explore" /\ LetThrough(c) => Unseen(attempts, k, c.edit)
    BY <1>0, <2>1, <2>3, UncorrelatedIsUnseen DEF LetThrough
  <2>5. \A j \in DOMAIN batch : j < at + 1 /\ j # at => j < at
    BY <1>0, <2>1
  <2>6. ASSUME NEW j \in DOMAIN batch', mode = "explore", j < at', LetThrough(batch'[j])
        PROVE  Unseen(attempts, k, batch'[j].edit)
    <3>1. CASE j = at
      BY <2>1, <2>4, <2>6, <3>1
    <3>2. CASE j # at
      <4>1. batch'[j] = batch[j] /\ j \in DOMAIN batch /\ j < at
        BY <2>1, <2>5, <2>6, <3>2
      <4> QED
        BY <2>1, <2>6, <4>1 DEF NoRepeat
    <3> QED
      BY <3>1, <3>2
  <2> QED
    BY <2>1, <2>6 DEF NoRepeat
<1>4. CASE ConfirmTop
  <2> DEFINE inc == [incumbent EXCEPT !.report = RenewedHoldout(incumbent)]
             c == Confirmed(batch[Top], inc)
  <2>1. /\ attempts' = attempts /\ k' = k /\ mode' = mode /\ pc = "select" /\ pc' # "select"
        /\ Top \in DOMAIN batch /\ batch[Top].reason = None /\ at > Len(batch)
        /\ batch' = [batch EXCEPT ![Top] = c]
        /\ pc' \in {"tune", "commit"} => winner' = Top
    BY <1>0, <1>4, TopPasses DEF ConfirmTop, Passers
  <2>2. /\ c.confirmed = TRUE /\ c.edit = batch[Top].edit /\ c.tuned = batch[Top].tuned
    BY <1>0, <2>1, ConfirmedFields
  <2> HIDE DEF c
  <2>3. \A j \in DOMAIN batch : j < at
    <3>1. Len(batch) \in Nat /\ at \in Nat
      BY <1>0, LenProperties DEF Types
    <3> QED
      BY <1>0, <2>1, <3>1
  <2>4. LetThrough(c) => LetThrough(batch[Top])
    BY <2>1, <2>2 DEF LetThrough
  <2>5. ASSUME NEW j \in DOMAIN batch', mode = "explore", LetThrough(batch'[j])
        PROVE  Unseen(attempts, k, batch'[j].edit)
    <3>1. j \in DOMAIN batch /\ LetThrough(batch[j]) /\ batch'[j].edit = batch[j].edit
      BY <2>1, <2>2, <2>4, <2>5
    <3> QED
      BY <2>1, <2>3, <2>5, <3>1 DEF NoRepeat
  <2>6. pc' \in {"tune", "commit"} => batch'[winner'].confirmed
    BY <2>1, <2>2
  <2> QED
    BY <2>1, <2>5, <2>6 DEF NoRepeat
<1>5. CASE RefusePeek
  <2> DEFINE c == [batch[Top] EXCEPT !.reason = Reason("holdout_peek_limit", "budget", "none")]
  <2>1. /\ attempts' = attempts /\ k' = k /\ mode' = mode /\ pc = "select" /\ pc' = "record"
        /\ Top \in DOMAIN batch /\ batch[Top].reason = None /\ at > Len(batch)
        /\ batch' = [batch EXCEPT ![Top] = c]
    BY <1>0, <1>5, TopPasses DEF RefusePeek, Passers, runVars
  <2>2. c.edit = batch[Top].edit /\ c.tuned = batch[Top].tuned
    BY <1>0, <2>1 DEF CandidateType
  <2> HIDE DEF c
  <2>3. \A j \in DOMAIN batch : j < at
    <3>1. Len(batch) \in Nat /\ at \in Nat
      BY <1>0, LenProperties DEF Types
    <3> QED
      BY <1>0, <2>1, <3>1
  <2>4. LetThrough(c) => LetThrough(batch[Top])
    BY <2>1, <2>2 DEF LetThrough
  <2>5. ASSUME NEW j \in DOMAIN batch', mode = "explore", LetThrough(batch'[j])
        PROVE  Unseen(attempts, k, batch'[j].edit)
    <3>1. j \in DOMAIN batch /\ LetThrough(batch[j]) /\ batch'[j].edit = batch[j].edit
      BY <2>1, <2>2, <2>4, <2>5
    <3> QED
      BY <2>1, <2>3, <2>5, <3>1 DEF NoRepeat
  <2> QED
    BY <2>1, <2>5 DEF NoRepeat
<1>6. CASE \E t \in Edits : Tune(t)
  <2>1. PICK t \in Edits : Tune(t)
    BY <1>6
  <2> DEFINE r == DeflateHoldout(DeflateSelection(Outcome[t], t, 0), t, 0)
             c == Adopted(batch[winner], t, r)
  <2>2. /\ attempts' = attempts /\ k' = k /\ mode' = mode /\ pc = "tune" /\ pc' = "commit"
        /\ winner' = winner /\ winner \in DOMAIN batch
        /\ batch' = [batch EXCEPT ![winner] = c] \/ batch' = batch
    BY <2>1 DEF Tune, runVars, Inv, WinnerEarned
  <2>3. c.tuned = TRUE /\ c.confirmed = batch[winner].confirmed
    BY <1>0, <2>2 DEF CandidateType, Adopted
  <2> HIDE DEF c
  <2>4. ~ LetThrough(c)
    BY <2>3 DEF LetThrough
  <2> QED
    BY <2>2, <2>3, <2>4 DEF NoRepeat
<1>7. CASE Commit
  BY <1>7 DEF Commit, NoRepeat
<1>8. CASE Record
  BY <1>8 DEF Record, NoRepeat
<1>9. CASE NothingToConfirm
  <2>1. \A j \in DOMAIN batch : j < at
    <3>1. Len(batch) \in Nat /\ at \in Nat /\ at > Len(batch)
      BY <1>0, <1>9, LenProperties DEF Types, NothingToConfirm
    <3> QED
      BY <1>0, <3>1
  <2> QED
    BY <1>9, <2>1 DEF NothingToConfirm, NoRepeat, runVars
<1>10. CASE KeepWinner \/ Finish \/ UNCHANGED vars
  BY <1>10 DEF KeepWinner, Finish, vars, runVars, NoRepeat
<1> QED
  BY <1>1, <1>2, <1>3, <1>4, <1>5, <1>6, <1>7, <1>8, <1>9, <1>10 DEF Next, Iteration

(* Rows of this iteration are added behind all others, and only a          *)
(* candidate let through has consulted the holdout.                        *)
LEMMA DuplicatesKept ==
  Inv /\ ConfirmedCounted /\ DuplicateInv /\ [Next]_vars => DuplicatesTakeNoPeek'
<1> SUFFICES ASSUME Inv, ConfirmedCounted, DuplicateInv, [Next]_vars
             PROVE  DuplicatesTakeNoPeek'
  OBVIOUS
<1>0. /\ Types /\ k \in Nat /\ \A j \in DOMAIN batch : batch[j] \in CandidateType
      /\ \A i \in DOMAIN attempts : attempts[i].iter \in Nat /\ attempts[i].iter <= k
  BY ElementOfSeq DEF Inv, Types, DuplicateInv, RowsDated
<1> DEFINE Paid(row) == row.explore /\ row.peeked /\ ~ row.tuned
<1>1. CASE SetupBaseline
  <2>1. PICK c : attempts' = << Row(c, TRUE, TRUE) >>
    BY <1>1 DEF SetupBaseline
  <2> DEFINE row == Row(c, TRUE, TRUE)
  <2>2. DOMAIN attempts' = {1} /\ attempts'[1] = row
    BY <2>1
  <2>3. row.iter = k
    BY WinnerRow
  <2> HIDE DEF row
  <2>4. ~ (k < k)
    BY <1>0
  <2> QED
    BY <2>2, <2>3, <2>4 DEF DuplicatesTakeNoPeek
<1>2. ASSUME \A i \in DOMAIN attempts' :
               \/ i \in DOMAIN attempts /\ attempts'[i] = attempts[i]
               \/ /\ attempts'[i].iter = k
                  /\ Paid(attempts'[i]) => Unseen(attempts, k, attempts'[i].edit)
      PROVE  DuplicatesTakeNoPeek'
  <2> SUFFICES ASSUME NEW i \in DOMAIN attempts', NEW j \in DOMAIN attempts',
                      attempts'[i].iter < attempts'[j].iter, Paid(attempts'[j])
               PROVE  \/ Series[attempts'[i].edit] # Series[attempts'[j].edit]
                      \/ <<attempts'[j].edit, attempts'[i].edit>> \in Incomparable
    BY DEF DuplicatesTakeNoPeek
  <2> HIDE DEF Paid
  <2>1. i \in DOMAIN attempts /\ attempts'[i] = attempts[i]
    <3>1. attempts'[j].iter <= k
      BY <1>0, <1>2
    <3>2. attempts'[i].iter # k
      BY <1>0, <1>2, <3>1
    <3> QED
      BY <1>2, <3>2
  <2>2. CASE j \in DOMAIN attempts /\ attempts'[j] = attempts[j]
    BY <2>1, <2>2 DEF DuplicateInv, DuplicatesTakeNoPeek, Paid
  <2>3. CASE attempts'[j].iter = k /\ Unseen(attempts, k, attempts'[j].edit)
    BY <2>1, <2>3 DEF Unseen
  <2> QED
    BY <1>2, <2>2, <2>3
<1>3. CASE Commit
  <2> DEFINE c == batch[winner]
             row == Row(c, TRUE, TRUE)
  <2>1. winner \in DOMAIN batch /\ c.confirmed /\ pc = "commit"
    BY <1>3 DEF Commit, Inv, WinnerEarned, DuplicateInv, NoRepeat
  <2>2. row.iter = k /\ row.edit = c.edit /\ row.explore = (mode = "explore")
        /\ row.tuned = c.tuned
    BY WinnerRow
  <2>3. Paid(row) => Unseen(attempts, k, row.edit)
    <3> HIDE DEF row
    <3> QED
      BY <2>1, <2>2 DEF DuplicateInv, NoRepeat, LetThrough
  <2> HIDE DEF row, Paid
  <2>4. \A i \in DOMAIN attempts' :
          (i \in DOMAIN attempts /\ attempts'[i] = attempts[i]) \/ attempts'[i] = row
    BY <1>3, CommitAppends DEF row
  <2> QED
    BY <1>2, <2>2, <2>3, <2>4
<1>4. CASE Record
  <2>1. pc = "record"
    BY <1>4 DEF Record
  <2>2. ASSUME NEW j \in DOMAIN batch
        PROVE  LET row == Row(batch[j], FALSE, batch[j].confirmed)
               IN  row.iter = k /\ (Paid(row) => Unseen(attempts, k, row.edit))
    <3> DEFINE row == Row(batch[j], FALSE, batch[j].confirmed)
    <3>1. /\ row.iter = k /\ row.edit = batch[j].edit /\ row.explore = (mode = "explore")
          /\ row.peeked = batch[j].confirmed /\ row.tuned = batch[j].tuned
      BY <1>0, LoserRow
    <3> HIDE DEF row
    <3>2. Paid(row) => Unseen(attempts, k, row.edit)
      BY <2>1, <3>1 DEF DuplicateInv, NoRepeat, LetThrough
    <3> QED
      BY <3>1, <3>2 DEF row
  <2> HIDE DEF Paid
  <2>3. \A i \in DOMAIN attempts' :
          \/ i \in DOMAIN attempts /\ attempts'[i] = attempts[i]
          \/ \E j \in DOMAIN batch : attempts'[i] = Row(batch[j], FALSE, batch[j].confirmed)
    BY <1>0, <1>4, RecordAppends
  <2> QED
    BY <1>2, <2>2, <2>3
<1>5. CASE \/ JudgeCandidate \/ NothingToConfirm \/ RefusePeek \/ ConfirmTop \/ KeepWinner
           \/ Finish \/ (\E t \in Edits : Tune(t)) \/ UNCHANGED vars
           \/ (\E edits \in Proposals : Generate(edits))
  <2>1. attempts' = attempts
    BY <1>5 DEF JudgeCandidate, NothingToConfirm, RefusePeek, ConfirmTop, KeepWinner, Finish,
                Tune, Generate, vars, runVars
  <2> QED
    BY <2>1 DEF DuplicateInv, DuplicatesTakeNoPeek
<1> QED
  BY <1>1, <1>3, <1>4, <1>5 DEF Next, Iteration

(* While a run explores, the holdout is never consulted for a series that  *)
(* an earlier iteration left on record and that compares with it, unless   *)
(* numeric optimisation led back to it.                                    *)
THEOREM NoPeekForDuplicates == Spec => []DuplicatesTakeNoPeek
<1>1. Init => HistoryInv /\ DuplicateInv
  <2> SUFFICES ASSUME Init PROVE HistoryInv /\ DuplicateInv
    OBVIOUS
  <2>1. incumbent.report = Outcome[incumbent.edit] /\ DOMAIN attempts = {} /\ DOMAIN batch = {}
    BY DEF Init
  <2>2. HistoryInv
    BY <2>1, SameBacktestEquivalence
       DEF Init, HistoryInv, OneBacktest, ConfirmedCounted, IncumbentRecorded
  <2>3. DuplicateInv
    BY <2>1 DEF Init, DuplicateInv, RowsDated, NoRepeat, DuplicatesTakeNoPeek
  <2> QED
    BY <2>2, <2>3
<1>2. Inv /\ HistoryInv /\ DuplicateInv /\ [Next]_vars => HistoryInv' /\ DuplicateInv'
  BY OneBacktestKept, ConfirmedCountedKept, IncumbentRecordedKept, RowsDatedKept, NoRepeatKept,
     DuplicatesKept DEF HistoryInv, DuplicateInv
<1>3. DuplicateInv => DuplicatesTakeNoPeek
  BY DEF DuplicateInv
<1> QED
  BY <1>1, <1>2, <1>3, Invariance, PTL DEF Spec

-----------------------------------------------------------------------------
(* The types, and what the language model is told *)

ToldTypes ==
  /\ k \in 0 .. MaxIterations
  /\ lastAttempt \in Reasons \cup {None}
  /\ \A i \in DOMAIN lastFailures : lastFailures[i] \in Reasons

\* A rejected candidate's stage is one that _extract_best_failure looks for.
Blamed ==
  \A j \in DOMAIN batch : batch[j].reason # None =>
    \E s \in DOMAIN Priority : batch[j].reason.stage = Priority[s]

(* The positions of the rejected candidates, and their order.              *)
LEMMA RejectedPositions ==
  ASSUME Types
  PROVE  /\ Rejected \in SUBSET Int /\ IsFiniteSet(Rejected) /\ Cardinality(Rejected) \in Nat
         /\ \A j \in Rejected : j \in DOMAIN batch /\ j \in Int /\ batch[j].reason \in Reasons
         /\ \A n \in 1 .. Cardinality(Rejected) : Nth(Rejected, n) \in Rejected
         /\ \A j \in Rejected : \E n \in 1 .. Cardinality(Rejected) : Nth(Rejected, n) = j
<1>1. DOMAIN batch = 1 .. Len(batch) /\ Len(batch) \in Nat
      /\ \A j \in DOMAIN batch : batch[j] \in CandidateType
  BY LenProperties, ElementOfSeq DEF Types
<1>2. \A j \in DOMAIN batch : batch[j].reason \in Reasons \cup {None}
  BY <1>1 DEF CandidateType
<1>3. Rejected \in SUBSET (1 .. Len(batch)) /\ IsFiniteSet(1 .. Len(batch))
  BY <1>1, FS_Interval DEF Rejected
<1>4. Rejected \in SUBSET Int /\ IsFiniteSet(Rejected)
  <2>1. IsFiniteSet(Rejected)
    BY <1>3, FS_Subset
  <2>2. \A j \in 1 .. Len(batch) : j \in Int
    BY <1>1
  <2> QED
    BY <1>3, <2>1, <2>2
<1>5. \A j \in Rejected : j \in DOMAIN batch /\ j \in Int /\ batch[j].reason \in Reasons
  BY <1>1, <1>2 DEF Rejected
<1> QED
  BY <1>4, <1>5, NthElement, FS_CardinalityType

(* The failure told first is a rejected candidate's, if there is one.      *)
LEMMA BestFailureIsOne ==
  ASSUME Types
  PROVE  /\ BestFailure \in Reasons
         /\ BestFailure = Unexplained \/ \E j \in Rejected : BestFailure = batch[j].reason
         /\ Blamed /\ Rejected # {} => \E j \in Rejected : BestFailure = batch[j].reason
<1> DEFINE seen == {s \in DOMAIN Priority : WithStage(Priority[s]) # {}}
           first == WithStage(Priority[Min(seen)])
<1>1. Unexplained \in Reasons
  BY DEF Unexplained, Reason, Reasons
<1>2. CASE seen = {}
  <2>1. BestFailure = Unexplained
    BY <1>2 DEF BestFailure
  <2>2. Blamed => Rejected = {}
    BY <1>2, RejectedPositions, ReasonsAssumption DEF Blamed, WithStage, Rejected
  <2> QED
    BY <1>1, <2>1, <2>2
<1>3. CASE seen # {}
  <2>1. Min(seen) \in seen
    <3>1. PICK m \in Nat : m = 3
      OBVIOUS
    <3>2. seen \in SUBSET (1 .. m) /\ IsFiniteSet(1 .. m)
      <4>1. DOMAIN Priority = 1 .. m
        BY <3>1 DEF Priority
      <4>2. IsFiniteSet(1 .. m)
        BY FS_Interval
      <4> QED
        BY <4>1, <4>2
    <3>3. seen \in SUBSET Int /\ IsFiniteSet(seen)
      <4>1. IsFiniteSet(seen)
        BY <3>2, FS_Subset
      <4> QED
        BY <3>2, <4>1
    <3> HIDE DEF seen
    <3> QED
      BY <1>3, <3>3, FiniteMin
  <2>2. first # {}
    BY <2>1
  <2>3. first \in SUBSET Rejected
    BY DEF WithStage
  <2>4. first \in SUBSET Int /\ IsFiniteSet(first)
    <3> HIDE DEF first
    <3>1. IsFiniteSet(first)
      BY <2>3, RejectedPositions, FS_Subset
    <3> QED
      BY <2>3, <3>1, RejectedPositions
  <2>5. Min(first) \in Rejected
    <3> HIDE DEF first
    <3> QED
      BY <2>2, <2>3, <2>4, FiniteMin
  <2>6. BestFailure = batch[Min(first)].reason
    BY <1>3 DEF BestFailure
  <2> HIDE DEF first
  <2> QED
    BY <2>5, <2>6, RejectedPositions
<1> QED
  BY <1>2, <1>3

(* The counter stays within the iterations asked for, and only reasons are *)
(* told.                                                                   *)
LEMMA ToldTypesKept == Inv /\ ToldTypes /\ [Next]_vars => ToldTypes'
<1> SUFFICES ASSUME Inv, ToldTypes, [Next]_vars PROVE ToldTypes'
  OBVIOUS
<1>0. Types
  BY DEF Inv
<1>1. CASE \E edits \in Proposals : Generate(edits)
  <2>1. k' = k + 1 /\ k < MaxIterations /\ UNCHANGED toldVars
    BY <1>1 DEF Generate, MoreIterations
  <2> QED
    BY <2>1, RunAssumption DEF ToldTypes, toldVars
<1>2. CASE Commit
  BY <1>2 DEF Commit, ForgetFailures, ToldTypes
<1>3. CASE Record
  <2>1. k' = k
    BY <1>3 DEF Record
  <2>2. CASE winner # 0
    BY <1>3, <2>1, <2>2 DEF Record, ToldTypes, toldVars
  <2>3. CASE winner = 0
    <3>1. /\ lastAttempt' = BestFailure
          /\ lastFailures' = [n \in DOMAIN Failures |-> Failures[n].reason]
      BY <1>3, <2>3 DEF Record
    <3>2. /\ DOMAIN Failures = 1 .. Cardinality(Rejected)
          /\ \A n \in DOMAIN Failures : Failures[n] = batch[Nth(Rejected, n)]
      BY DEF Failures, Picked
    <3>3. \A n \in DOMAIN Failures : Failures[n].reason \in Reasons
      BY <1>0, <3>2, RejectedPositions
    <3>4. BestFailure \in Reasons
      BY <1>0, BestFailureIsOne
    <3> QED
      BY <2>1, <3>1, <3>3, <3>4 DEF ToldTypes
  <2> QED
    BY <2>2, <2>3
<1>4. CASE \/ SetupBaseline \/ JudgeCandidate \/ NothingToConfirm \/ RefusePeek \/ ConfirmTop
           \/ KeepWinner \/ Finish \/ (\E t \in Edits : Tune(t)) \/ UNCHANGED vars
  <2>1. UNCHANGED <<k, toldVars>>
    BY <1>4 DEF SetupBaseline, JudgeCandidate, NothingToConfirm, RefusePeek, ConfirmTop,
                KeepWinner, Finish, Tune, vars, runVars
  <2> QED
    BY <2>1 DEF ToldTypes, toldVars
<1> QED
  BY <1>1, <1>2, <1>3, <1>4 DEF Next, Iteration

(* Every variable has its type at any time, and the incumbent names a row  *)
(* of the ledger as soon as there is one.                                  *)
THEOREM TypeCorrect == Spec => []TypeOK
<1>1. Init => ToldTypes
  BY RunAssumption DEF Init, ToldTypes
<1>2. Inv /\ ToldTypes => TypeOK
  <2> SUFFICES ASSUME Inv, ToldTypes PROVE TypeOK
    OBVIOUS
  <2>1. /\ \A i \in DOMAIN attempts : attempts[i] \in RowType
        /\ \A i \in DOMAIN batch : batch[i] \in CandidateType
    BY ElementOfSeq, LenProperties DEF Inv, Types
  <2>2. 0 \notin DOMAIN attempts
    BY LenProperties DEF Inv, Types
  <2>3. /\ incumbent \in [edit : Edits, id : {0} \cup DOMAIN attempts, report : Report]
        /\ incumbent.id = 0 => pc = "baseline"
    <3>1. incumbent.id \in {0} \cup DOMAIN attempts
      BY DEF Inv, Types
    <3> QED
      BY <2>2, <3>1 DEF Inv, Types
  <2> QED
    BY <2>1, <2>3 DEF Inv, Types, ToldTypes, TypeOK, Phases
<1> QED
  BY <1>1, <1>2, ToldTypesKept, Invariance, PTL DEF Spec

-----------------------------------------------------------------------------
(* The feedback is that of the last iteration *)

\* The rows of the current iteration, and what a commit leaves to be told
RowsSoFar ==
  /\ pc = "baseline" => k = 0
  /\ pc \in {"select", "tune", "commit"} \/ (pc = "record" /\ winner = 0) =>
       \A i \in DOMAIN attempts : attempts[i].iter < k
  /\ pc = "record" /\ winner # 0 =>
       /\ lastAttempt = None /\ lastFailures = << >>
       /\ \E i \in DOMAIN attempts : attempts[i].iter = k /\ attempts[i].accepted

\* What FeedbackIsCurrent says of the two lists
ListsCurrent ==
  pc = "generate" /\ k > 0 =>
    LET failed == Picked(attempts, FailedRows(k))
        told   == [i \in DOMAIN failed |-> failed[i].reason]
    IN  IF \E i \in DOMAIN attempts : attempts[i].iter = k /\ attempts[i].accepted
          THEN lastAttempt = None /\ lastFailures = << >>
          ELSE /\ lastFailures = told
               /\ lastAttempt \in {told[i] : i \in DOMAIN told}
                    \/ (told = << >> /\ lastAttempt = Unexplained)

FeedbackInv == Blamed /\ RowsSoFar /\ ListsCurrent

(* Without a winner, the rows appended are the batch in its order.         *)
LEMMA RecordInPlace ==
  ASSUME Types, Record, winner = 0
  PROVE  LET n == Len(attempts)
         IN  /\ n \in Nat /\ DOMAIN attempts = 1 .. n
             /\ DOMAIN attempts' = 1 .. n + Len(batch)
             /\ \A i \in DOMAIN attempts : attempts'[i] = attempts[i]
             /\ \A j \in DOMAIN batch : n + j \in DOMAIN attempts'
                  /\ attempts'[n + j] = Row(batch[j], FALSE, batch[j].confirmed)
<1> DEFINE n == Len(attempts)
           m == Len(batch)
<1>1. n \in Nat /\ DOMAIN attempts = 1 .. n /\ m \in Nat /\ DOMAIN batch = 1 .. m
  BY LenProperties DEF Types
<1>2. Losers = batch
  BY DEF Losers
<1>3. LoserRows = [j \in 1 .. m |-> Row(batch[j], FALSE, batch[j].confirmed)]
  BY <1>1, <1>2 DEF LoserRows
<1>4. LoserRows \in Seq(RowType) /\ DOMAIN LoserRows = 1 .. m
  BY <1>3, RecordAppends
<1>5. Len(LoserRows) = m
  BY <1>1, <1>4, LenProperties
<1>6. attempts' = attempts \o LoserRows /\ attempts \in Seq(RowType)
  BY DEF Record, LoserRows, Types
<1>7. /\ attempts' \in Seq(RowType) /\ Len(attempts') = n + m
      /\ \A i \in 1 .. n + m :
           attempts'[i] = IF i <= n THEN attempts[i] ELSE LoserRows[i - n]
  <2> HIDE DEF m
  <2>1. /\ attempts \o LoserRows \in Seq(RowType)
        /\ Len(attempts \o LoserRows) = Len(attempts) + Len(LoserRows)
        /\ \A i \in 1 .. Len(attempts) + Len(LoserRows) :
             (attempts \o LoserRows)[i] = IF i <= Len(attempts) THEN attempts[i]
                                          ELSE LoserRows[i - Len(attempts)]
    BY <1>4, <1>6, ConcatProperties
  <2> QED
    BY <1>5, <1>6, <2>1
<1>8. DOMAIN attempts' = 1 .. n + m
  BY <1>7, LenProperties
<1> HIDE DEF n, m
<1>9. \A i \in 1 .. n : attempts'[i] = attempts[i]
  BY <1>1, <1>7
<1>10. ASSUME NEW j \in 1 .. m
       PROVE  n + j \in 1 .. n + m /\ attempts'[n + j] = LoserRows[j]
  <2>1. n + j \in 1 .. n + m /\ ~ (n + j <= n) /\ (n + j) - n = j
    BY <1>1
  <2> QED
    BY <1>7, <2>1
<1> QED
  BY <1>1, <1>3, <1>8, <1>9, <1>10 DEF n, m

(* After an iteration without a winner the two lists tell of its rows.     *)
LEMMA RecordTells ==
  ASSUME Types, Blamed, RowsSoFar, Record, winner = 0
  PROVE  ListsCurrent'
<1> DEFINE n == Len(attempts)
           failed == Picked(attempts', FailedRows(k)')
           told == [i \in DOMAIN failed |-> failed[i].reason]
<1>1. /\ n \in Nat /\ DOMAIN attempts = 1 .. n
      /\ DOMAIN attempts' = 1 .. n + Len(batch)
      /\ \A i \in DOMAIN attempts : attempts'[i] = attempts[i]
      /\ \A j \in DOMAIN batch : n + j \in DOMAIN attempts'
           /\ attempts'[n + j] = Row(batch[j], FALSE, batch[j].confirmed)
  BY RecordInPlace
<1>2. /\ k' = k /\ lastAttempt' = BestFailure /\ pc = "record"
      /\ lastFailures' = [i \in DOMAIN Failures |-> Failures[i].reason]
  BY DEF Record
<1>3. \A j \in DOMAIN batch :
        /\ attempts'[n + j].iter = k /\ ~ attempts'[n + j].accepted
        /\ attempts'[n + j].reason = batch[j].reason
  <2>1. TAKE j \in DOMAIN batch
  <2>2. batch[j] \in CandidateType
    BY ElementOfSeq DEF Types
  <2> DEFINE row == Row(batch[j], FALSE, batch[j].confirmed)
  <2>3. row.iter = k /\ ~ row.accepted /\ row.reason = batch[j].reason
    BY <2>2, LoserRow
  <2>4. attempts'[n + j] = row
    BY <1>1
  <2> HIDE DEF row, n
  <2> QED
    BY <2>3, <2>4
<1>4. \A i \in DOMAIN attempts : attempts'[i].iter < k
  BY <1>1, <1>2 DEF RowsSoFar
<1>5. \A i \in DOMAIN attempts' : i \in DOMAIN attempts \/ i - n \in DOMAIN batch
  <2>1. DOMAIN batch = 1 .. Len(batch) /\ Len(batch) \in Nat
    BY LenProperties DEF Types
  <2> QED
    BY <1>1, <2>1
<1>6. ~ \E i \in DOMAIN attempts' : attempts'[i].iter = k /\ attempts'[i].accepted
  <2>1. ASSUME NEW i \in DOMAIN attempts', attempts'[i].iter = k, attempts'[i].accepted
        PROVE  FALSE
    <3>1. k \in Nat /\ n + (i - n) = i
      BY <1>1, LenProperties DEF Types
    <3>2. i \notin DOMAIN attempts
      BY <1>4, <2>1, <3>1
    <3> QED
      BY <1>3, <1>5, <2>1, <3>1, <3>2
  <2> QED
    BY <2>1
<1>7. FailedRows(k)' = {j + n : j \in Rejected}
  <2> DEFINE F == {i \in DOMAIN attempts' : attempts'[i].iter = k /\ ~ attempts'[i].accepted
                                             /\ attempts'[i].reason # None}
  <2>1. FailedRows(k)' = F
    BY <1>2 DEF FailedRows
  <2>2. ASSUME NEW i \in F PROVE i \in {j + n : j \in Rejected}
    <3>1. k \in Nat /\ n + (i - n) = i /\ (i - n) + n = i
      BY <1>1, LenProperties DEF Types
    <3>2. i \notin DOMAIN attempts
      BY <1>4, <3>1
    <3>3. i - n \in DOMAIN batch /\ batch[i - n].reason # None
      BY <1>3, <1>5, <3>1, <3>2
    <3> QED
      BY <3>1, <3>3 DEF Rejected
  <2>3. ASSUME NEW j \in Rejected PROVE j + n \in F
    <3>1. j \in DOMAIN batch /\ batch[j].reason # None /\ j + n = n + j
      BY <1>1, RejectedPositions DEF Rejected
    <3> QED
      BY <1>1, <1>3, <3>1
  <2> QED
    BY <2>1, <2>2, <2>3
<1>8. /\ Cardinality(FailedRows(k)') = Cardinality(Rejected)
      /\ \A i \in 1 .. Cardinality(Rejected) : Nth(FailedRows(k)', i) = Nth(Rejected, i) + n
  <2>1. n \in Int /\ Rejected \in SUBSET Int /\ IsFiniteSet(Rejected)
    BY <1>1, RejectedPositions
  <2> HIDE DEF n
  <2> QED
    BY <1>7, <2>1, NthShifted
<1>9. /\ DOMAIN failed = 1 .. Cardinality(Rejected)
      /\ \A i \in DOMAIN failed : failed[i] = attempts'[Nth(Rejected, i) + n]
  BY <1>8 DEF Picked
<1>10. /\ DOMAIN Failures = 1 .. Cardinality(Rejected)
       /\ \A i \in DOMAIN Failures : Failures[i] = batch[Nth(Rejected, i)]
  BY DEF Failures, Picked
<1> HIDE DEF failed
<1>11. \A i \in 1 .. Cardinality(Rejected) :
         /\ Nth(Rejected, i) \in DOMAIN batch
         /\ failed[i].reason = batch[Nth(Rejected, i)].reason
  <2>1. \A j \in Rejected : j \in DOMAIN batch /\ n + j = j + n
    BY <1>1, RejectedPositions
  <2> QED
    BY <1>3, <1>9, <2>1, RejectedPositions
<1>12. lastFailures' = told
  BY <1>2, <1>9, <1>10, <1>11
<1>13. \/ lastAttempt' \in {told[i] : i \in DOMAIN told}
       \/ told = << >> /\ lastAttempt' = Unexplained
  <2>1. CASE Rejected = {}
    <3>1. Cardinality(Rejected) = 0
      BY <2>1, FS_EmptySet
    <3>2. told = << >>
      BY <1>9, <3>1
    <3>3. BestFailure = Unexplained
      BY <2>1, BestFailureIsOne
    <3> QED
      BY <1>2, <3>2, <3>3
  <2>2. CASE Rejected # {}
    <3>1. PICK j \in Rejected : BestFailure = batch[j].reason
      BY <2>2, BestFailureIsOne
    <3>2. PICK i \in 1 .. Cardinality(Rejected) : Nth(Rejected, i) = j
      BY RejectedPositions
    <3>3. told[i] = batch[j].reason /\ i \in DOMAIN told
      BY <1>9, <1>11, <3>2
    <3> QED
      BY <1>2, <3>1, <3>3
  <2> QED
    BY <2>1, <2>2
<1>14. FailedRows(k)' = {i \in DOMAIN attempts' :
          attempts'[i].iter = k' /\ ~ attempts'[i].accepted /\ attempts'[i].reason # None}
  BY DEF FailedRows
<1> QED
  BY <1>2, <1>6, <1>12, <1>13, <1>14 DEF ListsCurrent, FailedRows, failed

(* Blamed is kept: the stages give no other reason.                        *)
LEMMA BlamedKept == Inv /\ Blamed /\ [Next]_vars => Blamed'
<1> SUFFICES ASSUME Inv, Blamed, [Next]_vars PROVE Blamed'
  OBVIOUS
<1>0. /\ Types /\ DOMAIN batch = 1 .. Len(batch)
      /\ \A j \in DOMAIN batch : batch[j] \in CandidateType
  BY LenProperties, ElementOfSeq DEF Inv, Types
<1>1. ASSUME NEW x, NEW c, x \in DOMAIN batch, batch' = [batch EXCEPT ![x] = c],
             c.reason # None => \E s \in DOMAIN Priority : c.reason.stage = Priority[s]
      PROVE  Blamed'
  <2>1. \A j \in DOMAIN batch' : j \in DOMAIN batch /\ (batch'[j] = batch[j] \/ batch'[j] = c)
    BY <1>1
  <2>2. Priority' = Priority
    BY DEF Priority
  <2> QED
    BY <1>1, <2>1, <2>2 DEF Blamed
<1>2. \A g \in {"gate", "diversity_returns", "holdout_peek_limit"} :
        \E s \in DOMAIN Priority : g = Priority[s]
  BY DEF Priority
<1>3. \A g, p, h : Reason(g, p, h).stage = g
  BY DEF Reason
<1>4. CASE \E edits \in Proposals : Generate(edits)
  <2>1. PICK edits \in Proposals : batch' = [i \in DOMAIN edits |-> Candidate(edits[i])]
    BY <1>4 DEF Generate
  <2>2. \A e : Candidate(e).reason = None
    BY DEF Candidate
  <2> QED
    BY <2>1, <2>2 DEF Blamed
<1>5. CASE JudgeCandidate
  <2> DEFINE inc == [incumbent EXCEPT !.report = Renewed(incumbent)]
             c == Judged(batch[at], inc)
             r == DeflateSelection(batch[at].report, batch[at].edit, 0)
             d == [batch[at] EXCEPT !.report = r]
  <2>1. at \in DOMAIN batch /\ batch' = [batch EXCEPT ![at] = c] /\ pc # "baseline"
    BY <1>0, <1>5 DEF JudgeCandidate, Types
  <2>2. /\ d.reason = batch[at].reason
        /\ \A y : [d EXCEPT !.reason = y].reason = y
        /\ \A z : [d EXCEPT !.corr = z].reason = batch[at].reason
        /\ \A y, z : [d EXCEPT !.reason = y, !.corr = z].reason = y
    BY <1>0, <2>1 DEF CandidateType
  <2> HIDE DEF r, d
  <2>3. \/ c.reason = batch[at].reason
        \/ \E p, h : c.reason = Reason("gate", p, h)
        \/ \E p, h : c.reason = Reason("diversity_returns", p, h)
    <3> DEFINE checks == SelectChecks(r, inc.report, EditLimits[batch[at].edit])
               corr == HistoryCorrelation(batch[at].edit)
    <3>1. corr \in 0 .. 100
      BY <1>0, <2>1, HistoryCorrelationTyped
    <3> HIDE DEF checks, corr
    <3>2. CASE ~ Passes(checks)
      <4>1. c = [d EXCEPT !.reason = Reason("gate", "select", FailedGate(checks))]
        BY <3>2 DEF Judged, r, d, checks
      <4> HIDE DEF c
      <4>2. c.reason = Reason("gate", "select", FailedGate(checks))
        BY <2>2, <4>1
      <4> QED
        BY <4>2
    <3>3. CASE Passes(checks) /\ mode = "explore" /\ corr = 100
      <4>1. c = [d EXCEPT !.reason = Reason("diversity_returns", "select", "none"),
                          !.corr = corr]
        BY <3>3 DEF Judged, r, d, checks, corr
      <4> HIDE DEF c
      <4>2. c.reason = Reason("diversity_returns", "select", "none")
        BY <2>2, <4>1
      <4> QED
        BY <4>2
    <3>4. CASE Passes(checks) /\ mode = "explore" /\ corr < 100
      <4>1. c = [d EXCEPT !.corr = corr]
        BY <3>1, <3>4 DEF Judged, r, d, checks, corr
      <4> HIDE DEF c
      <4>2. c.reason = batch[at].reason
        BY <2>2, <4>1
      <4> QED
        BY <4>2
    <3>5. CASE Passes(checks) /\ mode # "explore"
      <4>1. c = d
        BY <3>5 DEF Judged, r, d, checks, corr
      <4> HIDE DEF c
      <4>2. c.reason = batch[at].reason
        BY <2>2, <4>1
      <4> QED
        BY <4>2
    <3> QED
      BY <3>1, <3>2, <3>3, <3>4, <3>5
  <2>4. c.reason # None => \E s \in DOMAIN Priority : c.reason.stage = Priority[s]
    BY <1>2, <1>3, <2>1, <2>3 DEF Blamed
  <2> HIDE DEF c
  <2> QED
    BY <1>1, <2>1, <2>4
<1>6. CASE ConfirmTop
  <2> DEFINE inc == [incumbent EXCEPT !.report = RenewedHoldout(incumbent)]
             c == Confirmed(batch[Top], inc)
             r == DeflateHoldout(batch[Top].report, batch[Top].edit, 0)
             checks == ConfirmChecks(r, inc.report, EditLimits[batch[Top].edit])
             why == IF Passes(checks) THEN None
                    ELSE Reason("gate", "confirm", FailedGate(checks))
  <2>1. Top \in DOMAIN batch /\ batch' = [batch EXCEPT ![Top] = c]
    BY <1>0, <1>6, TopPasses DEF ConfirmTop, Passers
  <2>2. why # None => why.stage = "gate"
    BY <1>3
  <2>3. c = [batch[Top] EXCEPT !.report = r, !.confirmed = TRUE, !.reason = why]
    BY DEF Confirmed
  <2> HIDE DEF r, why
  <2>4. c.reason = why
    BY <1>0, <2>1, <2>3 DEF CandidateType
  <2>5. c.reason # None => \E s \in DOMAIN Priority : c.reason.stage = Priority[s]
    BY <1>2, <2>2, <2>4
  <2> HIDE DEF c
  <2> QED
    BY <1>1, <2>1, <2>5
<1>7. CASE RefusePeek
  <2> DEFINE why == Reason("holdout_peek_limit", "budget", "none")
             c == [batch[Top] EXCEPT !.reason = why]
  <2>1. Top \in DOMAIN batch /\ batch' = [batch EXCEPT ![Top] = c]
    BY <1>0, <1>7, TopPasses DEF RefusePeek, Passers
  <2>2. why.stage = "holdout_peek_limit"
    BY <1>3
  <2> HIDE DEF why
  <2>3. c.reason = why
    BY <1>0, <2>1 DEF CandidateType
  <2>4. c.reason # None => \E s \in DOMAIN Priority : c.reason.stage = Priority[s]
    BY <1>2, <2>2, <2>3
  <2> HIDE DEF c
  <2> QED
    BY <1>1, <2>1, <2>4
<1>8. CASE \E t \in Edits : Tune(t)
  <2>1. PICK t \in Edits : Tune(t)
    BY <1>8
  <2> DEFINE r == DeflateHoldout(DeflateSelection(Outcome[t], t, 0), t, 0)
             c == Adopted(batch[winner], t, r)
  <2>2. /\ winner \in DOMAIN batch
        /\ batch' = [batch EXCEPT ![winner] = c] \/ batch' = batch
    BY <2>1 DEF Tune, Inv, WinnerEarned
  <2>3. c.reason = batch[winner].reason
    BY <1>0, <2>2 DEF CandidateType, Adopted
  <2> HIDE DEF c
  <2>4. c.reason # None => \E s \in DOMAIN Priority : c.reason.stage = Priority[s]
    BY <2>2, <2>3 DEF Blamed
  <2> QED
    BY <1>1, <2>2, <2>4 DEF Blamed
<1>9. CASE \/ SetupBaseline \/ NothingToConfirm \/ KeepWinner \/ Commit \/ Record \/ Finish
           \/ UNCHANGED vars
  <2>1. batch' = batch
    BY <1>9 DEF SetupBaseline, NothingToConfirm, KeepWinner, Commit, Record, Finish, vars
  <2> QED
    BY <2>1 DEF Blamed
<1> QED
  BY <1>4, <1>5, <1>6, <1>7, <1>8, <1>9 DEF Next, Iteration

(* RowsSoFar is kept: rows are written by a commit and by the recording.   *)
LEMMA RowsSoFarKept ==
  Inv /\ ConfirmedCounted /\ RowsDated /\ RowsSoFar /\ [Next]_vars => RowsSoFar'
<1> SUFFICES ASSUME Inv, ConfirmedCounted, RowsDated, RowsSoFar, [Next]_vars PROVE RowsSoFar'
  OBVIOUS
<1>0. k \in Nat
  BY DEF Inv, Types
<1>1. CASE SetupBaseline \/ Record \/ Finish
  <2>1. pc' \in {"generate", "stopped"}
    BY <1>1 DEF SetupBaseline, Record, Finish
  <2> QED
    BY <2>1 DEF RowsSoFar
<1>2. CASE \E edits \in Proposals : Generate(edits)
  <2>1. attempts' = attempts /\ k' = k + 1 /\ pc' = "select"
    BY <1>2 DEF Generate
  <2> QED
    BY <1>0, <2>1 DEF RowsSoFar, RowsDated
<1>3. CASE JudgeCandidate
  BY <1>3 DEF JudgeCandidate, RowsSoFar
<1>4. CASE NothingToConfirm \/ RefusePeek
  <2>1. /\ attempts' = attempts /\ k' = k /\ pc = "select" /\ pc' = "record"
        /\ winner' = winner
    BY <1>4 DEF NothingToConfirm, RefusePeek, runVars
  <2> QED
    BY <2>1 DEF RowsSoFar, ConfirmedCounted
<1>5. CASE ConfirmTop
  <2>1. /\ attempts' = attempts /\ k' = k /\ pc = "select"
        /\ pc' \in {"record", "tune", "commit"} /\ (pc' = "record" => winner' = 0)
    BY <1>5 DEF ConfirmTop
  <2> QED
    BY <2>1 DEF RowsSoFar
<1>6. CASE KeepWinner \/ (\E t \in Edits : Tune(t))
  <2>1. /\ attempts' = attempts /\ k' = k /\ pc = "tune" /\ pc' = "commit"
    BY <1>6 DEF KeepWinner, Tune, runVars
  <2> QED
    BY <2>1 DEF RowsSoFar
<1>7. CASE Commit
  <2> DEFINE row == Row(batch[winner], TRUE, TRUE)
  <2>1. row.iter = k /\ row.accepted
    BY WinnerRow
  <2> HIDE DEF row
  <2>2. \E i \in DOMAIN attempts' : attempts'[i] = row
    BY <1>7, CommitAppends DEF row
  <2>3. /\ k' = k /\ pc' = "record" /\ lastAttempt' = None /\ lastFailures' = << >>
        /\ pc = "commit" /\ winner' = winner
    BY <1>7 DEF Commit, ForgetFailures
  <2>4. winner' # 0
    <3>1. winner \in DOMAIN batch
      BY <2>3 DEF Inv, WinnerEarned
    <3> QED
      BY <2>3, <3>1, LenProperties DEF Inv, Types
  <2> QED
    BY <2>1, <2>2, <2>3, <2>4 DEF RowsSoFar
<1>8. CASE UNCHANGED vars
  BY <1>8 DEF vars, runVars, toldVars, RowsSoFar
<1> QED
  BY <1>1, <1>2, <1>3, <1>4, <1>5, <1>6, <1>7, <1>8 DEF Next, Iteration

(* ListsCurrent is kept.                                                   *)
LEMMA ListsCurrentKept ==
  Inv /\ FeedbackInv /\ [Next]_vars => ListsCurrent'
<1> SUFFICES ASSUME Inv, FeedbackInv, [Next]_vars, pc' = "generate", k' > 0
             PROVE  ListsCurrent'
  BY DEF ListsCurrent
<1>1. CASE SetupBaseline
  <2>1. k' = 0
    BY <1>1 DEF SetupBaseline, FeedbackInv, RowsSoFar
  <2> QED
    BY <2>1
<1>2. CASE Record
  <2>1. CASE winner = 0
    BY <1>2, <2>1, RecordTells DEF Inv, FeedbackInv
  <2>2. CASE winner # 0
    <3>1. /\ pc = "record" /\ k' = k /\ UNCHANGED toldVars
      BY <1>2, <2>2 DEF Record
    <3>2. /\ lastAttempt' = None /\ lastFailures' = << >>
          /\ \E i \in DOMAIN attempts : attempts[i].iter = k /\ attempts[i].accepted
      BY <2>2, <3>1 DEF FeedbackInv, RowsSoFar, toldVars
    <3>3. \A i \in DOMAIN attempts : i \in DOMAIN attempts' /\ attempts'[i] = attempts[i]
      BY <1>2, RecordAppends DEF Inv
    <3>4. \E i \in DOMAIN attempts' : attempts'[i].iter = k' /\ attempts'[i].accepted
      BY <3>1, <3>2, <3>3
    <3> QED
      BY <3>2, <3>4 DEF ListsCurrent
  <2> QED
    BY <2>1, <2>2
<1>3. CASE UNCHANGED vars
  BY <1>3 DEF vars, runVars, toldVars, FeedbackInv, ListsCurrent, FailedRows
<1>4. CASE \/ (\E edits \in Proposals : Generate(edits)) \/ JudgeCandidate
           \/ NothingToConfirm \/ RefusePeek \/ ConfirmTop \/ KeepWinner \/ Commit \/ Finish
           \/ (\E t \in Edits : Tune(t))
  <2>1. pc' # "generate"
    BY <1>4 DEF Generate, JudgeCandidate, NothingToConfirm, RefusePeek, ConfirmTop, KeepWinner,
                Commit, Finish, Tune
  <2> QED
    BY <2>1
<1> QED
  BY <1>1, <1>2, <1>3, <1>4 DEF Next, Iteration

(* Whatever the prompt tells of a holdout confirmation stands in a row     *)
(* whose peek was counted.                                                 *)
LEMMA ToldIsPaidFor ==
  ASSUME Types, ConfirmedCounted, ListsCurrent, pc = "generate", k > 0
  PROVE  \A r \in Told : r.phase = "confirm" =>
           \E i \in DOMAIN attempts : attempts[i].peeked /\ attempts[i].reason = r
<1> DEFINE F == FailedRows(k)
           failed == Picked(attempts, F)
           told == [i \in DOMAIN failed |-> failed[i].reason]
           Paid(r) == r.phase = "confirm" =>
                        \E i \in DOMAIN attempts : attempts[i].peeked /\ attempts[i].reason = r
<1>1. ASSUME NEW i \in DOMAIN attempts, attempts[i].reason # None
      PROVE  Paid(attempts[i].reason)
  BY <1>1 DEF ConfirmedCounted, RowPaid
<1>2. F \in SUBSET DOMAIN attempts /\ \A i \in F : attempts[i].reason # None
  BY DEF FailedRows
<1>3. \A n \in 1 .. Cardinality(F) : Nth(F, n) \in F
  <2>1. DOMAIN attempts = 1 .. Len(attempts) /\ Len(attempts) \in Nat
    BY LenProperties DEF Types
  <2>2. IsFiniteSet(DOMAIN attempts) /\ \A i \in DOMAIN attempts : i \in Int
    BY <2>1, FS_Interval
  <2>3. IsFiniteSet(F)
    BY <1>2, <2>2, FS_Subset
  <2>4. F \in SUBSET Int
    BY <1>2, <2>2
  <2> HIDE DEF F
  <2> QED
    BY <2>3, <2>4, NthElement
<1>4. \A n \in DOMAIN told : Paid(told[n])
  <2>1. DOMAIN told = 1 .. Cardinality(F)
        /\ \A n \in DOMAIN told : told[n] = attempts[Nth(F, n)].reason
    BY DEF Picked
  <2> HIDE DEF F, told, Paid
  <2> QED
    BY <1>1, <1>2, <1>3, <2>1
<1>5. Paid(Unexplained)
  BY DEF Unexplained, Reason
<1>6. \A r \in Shown : Paid(r)
  <2>1. \A r \in Shown : r # None /\ \E i \in DOMAIN attempts : r = attempts[i].reason
    BY DEF Shown, Rows
  <2> HIDE DEF Paid
  <2> QED
    BY <1>1, <2>1
<1>7. /\ lastAttempt # None => Paid(lastAttempt)
      /\ \A n \in DOMAIN lastFailures : Paid(lastFailures[n])
  <2>1. CASE \E i \in DOMAIN attempts : attempts[i].iter = k /\ attempts[i].accepted
    <3>1. lastAttempt = None /\ lastFailures = << >>
      BY <2>1 DEF ListsCurrent
    <3> QED
      BY <3>1
  <2>2. CASE ~ \E i \in DOMAIN attempts : attempts[i].iter = k /\ attempts[i].accepted
    <3>1. /\ lastFailures = told
          /\ \/ \E n \in DOMAIN told : lastAttempt = told[n]
             \/ lastAttempt = Unexplained
      BY <2>2 DEF ListsCurrent
    <3> HIDE DEF told, Paid
    <3> QED
      BY <1>4, <1>5, <3>1
  <2> QED
    BY <2>1, <2>2
<1>8. \A r \in Told : \/ r \in Shown
                      \/ r = lastAttempt /\ r # None
                      \/ \E n \in DOMAIN lastFailures : r = lastFailures[n]
  <2>1. \A r \in {lastFailures[n] : n \in DOMAIN lastFailures} :
          \E n \in DOMAIN lastFailures : r = lastFailures[n]
    OBVIOUS
  <2>2. Told = Shown \cup ({lastAttempt} \ {None})
                 \cup {lastFailures[n] : n \in DOMAIN lastFailures}
    BY DEF Told
  <2>3. TAKE r \in Told
  <2>4. r \in Shown \/ r \in {lastAttempt} \ {None}
        \/ r \in {lastFailures[n] : n \in DOMAIN lastFailures}
    BY <2>2, <2>3
  <2>5. CASE r \in {lastFailures[n] : n \in DOMAIN lastFailures}
    BY <2>1, <2>5
  <2> QED
    BY <2>4, <2>5
<1>9. \A r \in Told : Paid(r)
  <2> HIDE DEF Paid
  <2> QED
    BY <1>6, <1>7, <1>8
<1> QED
  BY <1>9

(* The next prompt tells the failures of exactly the last iteration's      *)
(* rows, none after a commit, and nothing of the holdout that no recorded  *)
(* peek has paid for.                                                      *)
THEOREM FeedbackCurrent == Spec => []FeedbackIsCurrent
<1> DEFINE FullInv == Inv /\ ConfirmedCounted /\ RowsDated /\ FeedbackInv
<1>1. Init => FullInv
  <2> SUFFICES ASSUME Init PROVE FullInv
    OBVIOUS
  <2>1. Inv
    BY InitTypes DEF Inv, Init, JudgedFairly, WinnerEarned
  <2>2. DOMAIN attempts = {} /\ DOMAIN batch = {} /\ pc = "baseline" /\ k = 0
    BY DEF Init
  <2> QED
    BY <2>1, <2>2
       DEF ConfirmedCounted, RowsDated, FeedbackInv, Blamed, RowsSoFar, ListsCurrent
<1>2. FullInv /\ [Next]_vars => ConfirmedCounted' /\ RowsDated' /\ FeedbackInv'
  BY ConfirmedCountedKept, RowsDatedKept, BlamedKept, RowsSoFarKept, ListsCurrentKept
     DEF FeedbackInv
<1>3. FullInv => FeedbackIsCurrent
  <2> SUFFICES ASSUME FullInv, pc = "generate", k > 0 PROVE FeedbackIsCurrent
    BY DEF FeedbackIsCurrent
  <2>1. \A r \in Told : r.phase = "confirm" =>
          \E i \in DOMAIN attempts : attempts[i].peeked /\ attempts[i].reason = r
    BY ToldIsPaidFor DEF Inv, FeedbackInv
  <2> QED
    BY <2>1 DEF FeedbackIsCurrent, FeedbackInv, ListsCurrent
<1> QED
  BY <1>1, <1>2, <1>3, Invariance, PTL DEF Spec

-----------------------------------------------------------------------------
(* What dominates a candidate passes wherever the candidate passes *)

(* select() passes when none of its eight checks fails.                    *)
LEMMA SelectConditions ==
  ASSUME NEW r, NEW base, NEW c
  PROVE  Select(r, base, c) <=>
           /\ ~ Exceeds(r.dd, c.dd) /\ r.regime /\ ~ Exceeds(r.turnover, c.turnover)
           /\ ~ (c.pbo # None /\ r.pbo # None /\ Exceeds(r.pbo, c.pbo))
           /\ ~ (c.floor # None /\ InSampleMetric(r) <= c.floor)
           /\ ~ (base # None /\ NoImprovement(r, base, c))
           /\ ~ (base # None /\ ReturnTooLow(r, base, c))
           /\ ~ (c.requireDsr /\ base # None /\ Degrades(r.dsr, base.dsr, c.epsilon))
<1> DEFINE H == HardChecks(r, c)
           S == SoftChecks(r, base, c)
<1>1. H \in Seq(CheckType) /\ Len(H) = 4 /\ S \in Seq(CheckType) /\ Len(S) = 4
  BY ChecksTyped
<1>2. Select(r, base, c) <=> \A i \in DOMAIN (H \o S) : ~ (H \o S)[i].failed
  BY DEF Select, SelectChecks, Passes, Failing
<1>3. /\ H[1].failed <=> Exceeds(r.dd, c.dd)
      /\ H[2].failed <=> ~ r.regime
      /\ H[3].failed <=> Exceeds(r.turnover, c.turnover)
      /\ H[4].failed <=> (c.pbo # None /\ r.pbo # None /\ Exceeds(r.pbo, c.pbo))
  BY DEF HardChecks, Check
<1>4. /\ S[1].failed <=> (c.floor # None /\ InSampleMetric(r) <= c.floor)
      /\ S[2].failed <=> (base # None /\ NoImprovement(r, base, c))
      /\ S[3].failed <=> (base # None /\ ReturnTooLow(r, base, c))
      /\ S[4].failed <=>
           (c.requireDsr /\ base # None /\ Degrades(r.dsr, base.dsr, c.epsilon))
  BY DEF SoftChecks, Check
<1> HIDE DEF H, S
<1> DEFINE HS == H \o S
<1>5. /\ HS \in Seq(CheckType) /\ Len(HS) = Len(H) + Len(S)
      /\ \A j \in 1 .. Len(H) + Len(S) : HS[j] = IF j <= Len(H) THEN H[j] ELSE S[j - Len(H)]
  BY <1>1, ConcatProperties
<1>6. DOMAIN HS = 1 .. 8
  <2>1. Len(H) + Len(S) = 8
    BY <1>1
  <2> QED
    BY <1>5, <2>1, LenProperties
<1> HIDE DEF HS
<1>7. \A j \in 1 .. 8 : HS[j] = IF j <= 4 THEN H[j] ELSE S[j - 4]
  <2>1. Len(H) + Len(S) = 8
    BY <1>1
  <2> QED
    BY <1>1, <1>5, <2>1
<1>8. /\ HS[1] = H[1] /\ HS[2] = H[2] /\ HS[3] = H[3] /\ HS[4] = H[4]
      /\ HS[5] = S[1] /\ HS[6] = S[2] /\ HS[7] = S[3] /\ HS[8] = S[4]
  BY <1>7
<1>9. \A j \in 1 .. 8 : j \in {1, 2, 3, 4, 5, 6, 7, 8}
  OBVIOUS
<1>10. (\A j \in 1 .. 8 : ~ HS[j].failed) <=>
         /\ ~ H[1].failed /\ ~ H[2].failed /\ ~ H[3].failed /\ ~ H[4].failed
         /\ ~ S[1].failed /\ ~ S[2].failed /\ ~ S[3].failed /\ ~ S[4].failed
  <2>1. ASSUME \A j \in 1 .. 8 : ~ HS[j].failed
        PROVE  /\ ~ H[1].failed /\ ~ H[2].failed /\ ~ H[3].failed /\ ~ H[4].failed
               /\ ~ S[1].failed /\ ~ S[2].failed /\ ~ S[3].failed /\ ~ S[4].failed
    BY <1>8, <2>1
  <2>2. ASSUME /\ ~ H[1].failed /\ ~ H[2].failed /\ ~ H[3].failed /\ ~ H[4].failed
               /\ ~ S[1].failed /\ ~ S[2].failed /\ ~ S[3].failed /\ ~ S[4].failed,
               NEW j \in 1 .. 8
        PROVE  ~ HS[j].failed
    BY <1>8, <1>9, <2>2
  <2> QED
    BY <2>1, <2>2
<1>11. Select(r, base, c) <=> \A j \in 1 .. 8 : ~ HS[j].failed
  BY <1>2, <1>6 DEF HS
<1> QED
  BY <1>3, <1>4, <1>10, <1>11

\* Report r beats report s in everything select() looks at.
Better(r, s) ==
  /\ ~ Exceeds(r.dd, s.dd) /\ ~ Exceeds(r.turnover, s.turnover)
  /\ s.regime => r.regime
  /\ r.pbo = None \/ (s.pbo # None /\ ~ Exceeds(r.pbo, s.pbo))
  /\ r.ret \in Int /\ s.ret \in Int /\ r.ret >= s.ret
  /\ r[Target] \in Int /\ s[Target] \in Int /\ r[Target] > s[Target]
  /\ r.dsr \in Int /\ s.dsr \in Int /\ r.dsr > s.dsr

(* The better report has the greater metric, raw and deflated.             *)
LEMMA BetterCompares ==
  ASSUME NEW r, NEW s, Better(r, s), NEW x
  PROVE  /\ InSampleMetric(r) \in Int /\ InSampleMetric(s) \in Int
         /\ InSampleMetric(r) > InSampleMetric(s)
         /\ CompareMetric(r, x) \in Int /\ CompareMetric(s, x) \in Int
         /\ CompareMetric(r, x) > CompareMetric(s, x)
<1>1. /\ InSampleMetric(r) = r[Target] /\ InSampleMetric(s) = s[Target]
      /\ r[Target] \in Int /\ s[Target] \in Int /\ r[Target] > s[Target]
  BY DEF Better, InSampleMetric
<1>2. r.dsr \in Int /\ s.dsr \in Int /\ r.dsr > s.dsr /\ r.dsr # NaN /\ s.dsr # NaN
  BY ValuesAssumption DEF Better
<1> QED
  BY <1>1, <1>2 DEF CompareMetric

(* The scale of the tradeoff is a fraction.                                *)
LEMMA ScaleTyped ==
  ASSUME NEW base \in Report, NEW x
  PROVE  TradeoffScale(base, x).num \in Nat /\ TradeoffScale(base, x).den \in Nat \ {0}
<1>1. base.observed \in Int /\ base.dsr \in Int \cup {NaN}
  BY DEF Report, Metric
<1>2. CASE x # "deflated"
  BY <1>2 DEF TradeoffScale
<1>3. CASE x = "deflated" /\ base.observed <= 0
  BY <1>3 DEF TradeoffScale
<1>4. CASE x = "deflated" /\ base.observed > 0 /\ base.dsr = NaN
  BY <1>1, <1>4 DEF TradeoffScale
<1>5. CASE x = "deflated" /\ base.observed > 0 /\ base.dsr # NaN
  <2>1. TradeoffScale(base, x) = [num |-> Clamp(base.dsr, base.observed), den |-> base.observed]
    BY <1>1, <1>5 DEF TradeoffScale
  <2>2. Clamp(base.dsr, base.observed) \in Nat
    BY <1>1, <1>5 DEF Clamp
  <2> QED
    BY <1>1, <1>5, <2>1, <2>2
<1> QED
  BY <1>1, <1>2, <1>3, <1>4, <1>5

(* The better report does not miss a hurdle that the other one clears: its *)
(* allowance for the return is the greater one.                            *)
LEMMA BetterClears ==
  ASSUME NEW r, NEW s, Better(r, s), NEW base \in Report, NEW c \in Limits,
         c.tradeoff > 0 => base.ret \in Int, MissesHurdle(r, base, c)
  PROVE  MissesHurdle(s, base, c)
<1> DEFINE scale == TradeoffScale(base, c.compare)
           hurdle == CompareMetric(base, c.compare) + c.minImprovement - c.tolerance
<1>1. PICK num \in Nat : num = scale.num
  BY ScaleTyped
<1>2. PICK den \in Nat : den = scale.den
  BY ScaleTyped
<1>3. PICK u \in Int : u = CompareMetric(r, c.compare)
  BY BetterCompares
<1>4. PICK v \in Int : v = CompareMetric(s, c.compare)
  BY BetterCompares
<1>5. u > v
  BY <1>3, <1>4, BetterCompares
<1>6. hurdle \in Int
  <2>1. CompareMetric(base, c.compare) \in Int
    BY DEF CompareMetric, InSampleMetric, Report, Metric
  <2>2. c.minImprovement \in Int /\ c.tolerance \in Int
    BY DEF Limits
  <2> QED
    BY <2>1, <2>2
<1>7. PICK h \in Int : h = hurdle * den
  BY <1>6
<1>8. PICK t \in Nat : t = c.tradeoff
  BY DEF Limits
<1>9. PICK x \in Int : x = IF c.tradeoff > 0 THEN c.tradeoff * (r.ret - base.ret) * scale.num ELSE 0
  BY <1>1, <1>8 DEF Better
<1>10. PICK y \in Int : y = IF c.tradeoff > 0 THEN c.tradeoff * (s.ret - base.ret) * scale.num ELSE 0
  BY <1>1, <1>8 DEF Better
<1>11. u * den <= h - x
  BY <1>2, <1>3, <1>7, <1>9 DEF MissesHurdle
<1>12. MissesHurdle(s, base, c) <=> v * den <= h - y
  BY <1>2, <1>4, <1>7, <1>10 DEF MissesHurdle
<1>13. \A a, b \in Nat : a * b >= 0
  OBVIOUS
<1>14. v * den <= u * den
  <2>1. u - v \in Nat
    BY <1>5
  <2>2. (u - v) * den >= 0
    BY <1>13, <2>1
  <2>3. (u - v) * den = u * den - v * den
    OBVIOUS
  <2> QED
    BY <2>2, <2>3
<1>15. y <= x
  <2>1. CASE ~ (c.tradeoff > 0)
    BY <1>9, <1>10, <2>1
  <2>2. CASE c.tradeoff > 0
    <3>1. PICK p \in Int : p = r.ret - base.ret
      BY <2>2 DEF Better
    <3>2. PICK q \in Int : q = s.ret - base.ret
      BY <2>2 DEF Better
    <3>3. p - q \in Nat
      BY <2>2, <3>1, <3>2 DEF Better
    <3>4. x = t * p * num /\ y = t * q * num
      BY <1>1, <1>8, <1>9, <1>10, <2>2, <3>1, <3>2
    <3>5. t * num \in Nat
      OBVIOUS
    <3>6. (t * num) * (p - q) >= 0
      BY <1>13, <3>3, <3>5
    <3>7. (t * num) * (p - q) = t * p * num - t * q * num
      OBVIOUS
    <3> QED
      BY <3>4, <3>6, <3>7
  <2> QED
    BY <2>1, <2>2
<1> QED
  BY <1>11, <1>12, <1>14, <1>15

(* select() lets a report pass that beats one it lets pass.                *)
LEMMA BetterPasses ==
  ASSUME NEW r \in Report, NEW s \in Report, Better(r, s), NEW base \in Report,
         NEW c \in Limits, Select(s, base, c)
  PROVE  Select(r, base, c)
<1>0. base # None
  BY ValuesAssumption
<1>1. /\ ~ Exceeds(s.dd, c.dd) /\ s.regime /\ ~ Exceeds(s.turnover, c.turnover)
      /\ ~ (c.pbo # None /\ s.pbo # None /\ Exceeds(s.pbo, c.pbo))
      /\ ~ (c.floor # None /\ InSampleMetric(s) <= c.floor)
      /\ ~ NoImprovement(s, base, c)
      /\ ~ ReturnTooLow(s, base, c)
      /\ ~ (c.requireDsr /\ Degrades(s.dsr, base.dsr, c.epsilon))
  BY <1>0, SelectConditions
<1>2. \A x, y \in Metric, l \in Nat : ~ Exceeds(x, y) /\ ~ Exceeds(y, l) => ~ Exceeds(x, l)
  <2> TAKE x \in Metric, y \in Metric, l \in Nat
  <2>1. CASE x \in Int /\ y \in Int
    BY <2>1, ValuesAssumption DEF Exceeds
  <2>2. CASE x = NaN \/ y = NaN
    BY <2>2 DEF Exceeds
  <2> QED
    BY <2>1, <2>2 DEF Metric
<1>3. /\ r.dd \in Metric /\ s.dd \in Metric /\ r.turnover \in Metric /\ s.turnover \in Metric
      /\ c.dd \in Nat /\ c.turnover \in Nat
  BY DEF Report, Limits
<1>4. ~ Exceeds(r.dd, c.dd) /\ ~ Exceeds(r.turnover, c.turnover)
  BY <1>1, <1>2, <1>3 DEF Better
<1>5. r.regime /\ ~ (c.pbo # None /\ r.pbo # None /\ Exceeds(r.pbo, c.pbo))
  <2>1. r.regime
    BY <1>1 DEF Better
  <2>2. ASSUME c.pbo # None, r.pbo # None PROVE ~ Exceeds(r.pbo, c.pbo)
    <3>1. r.pbo \in Metric /\ s.pbo \in Metric /\ c.pbo \in Nat
      BY <2>2 DEF Better, Report, Limits
    <3>2. ~ Exceeds(r.pbo, s.pbo) /\ ~ Exceeds(s.pbo, c.pbo)
      BY <1>1, <2>2 DEF Better
    <3> QED
      BY <1>2, <3>1, <3>2
  <2> QED
    BY <2>1, <2>2
<1>6. ~ (c.floor # None /\ InSampleMetric(r) <= c.floor)
  <2>1. c.floor \in Int \cup {None}
    BY DEF Limits
  <2>2. /\ InSampleMetric(r) \in Int /\ InSampleMetric(s) \in Int
        /\ InSampleMetric(r) > InSampleMetric(s)
    BY BetterCompares
  <2> QED
    BY <1>1, <2>1, <2>2
<1>7. /\ r.ret \in Int /\ s.ret \in Int /\ r.ret >= s.ret /\ r.ret # NaN /\ s.ret # NaN
      /\ base.ret \in Int \cup {NaN}
  BY ValuesAssumption DEF Better, Report, Metric
<1>8. ~ NoImprovement(r, base, c)
  <2>1. c.tradeoff > 0 => base.ret \in Int
    BY <1>1, <1>7 DEF NoImprovement
  <2>2. ~ MissesHurdle(s, base, c)
    BY <1>1 DEF NoImprovement
  <2>3. ~ MissesHurdle(r, base, c)
    BY <2>1, <2>2, BetterClears
  <2>4. ~ (c.tradeoff > 0 /\ NaN \in {r.ret, base.ret})
    BY <1>1, <1>7 DEF NoImprovement
  <2> QED
    BY <2>3, <2>4 DEF NoImprovement
<1>9. ~ ReturnTooLow(r, base, c)
  <2>1. ASSUME base.ret # NaN, base.ret > 0, r.ret * 100 < base.ret * c.minReturn
        PROVE  FALSE
    <3>1. PICK m \in Int : m = base.ret * c.minReturn
      BY <1>7, <2>1 DEF Limits
    <3>2. ~ (s.ret * 100 < m)
      BY <1>1, <1>7, <2>1, <3>1 DEF ReturnTooLow
    <3>3. r.ret * 100 < m
      BY <2>1, <3>1
    <3> QED
      BY <1>7, <3>2, <3>3
  <2> QED
    BY <1>7, <2>1 DEF ReturnTooLow
<1>10. ~ (c.requireDsr /\ Degrades(r.dsr, base.dsr, c.epsilon))
  <2>1. /\ r.dsr \in Int /\ s.dsr \in Int /\ r.dsr > s.dsr /\ r.dsr # NaN /\ s.dsr # NaN
        /\ base.dsr \in Int \cup {NaN} /\ c.epsilon \in Int
    BY ValuesAssumption DEF Better, Report, Metric, Limits
  <2> QED
    BY <1>1, <2>1 DEF Degrades
<1> QED
  BY <1>4, <1>5, <1>6, <1>8, <1>9, <1>10, SelectConditions

(* What dominates is the better report, once both are deflated.            *)
LEMMA DominatesBetter ==
  ASSUME NEW a, NEW b, Dominates(a, b), a.report.dsr \in Int, b.report.dsr \in Int
  PROVE  Better(a.report, b.report)
<1> QED
  BY DEF Dominates, Better

(* Consulting the holdout makes no candidate easier to dominate, and none  *)
(* dominates itself.                                                       *)
LEMMA HoldoutLeavesOrder ==
  ASSUME NEW c \in CandidateType, NEW inc, NEW a
  PROVE  /\ Dominates(a, Confirmed(c, inc)) => Dominates(a, c)
         /\ ~ Dominates(a, a)
<1> DEFINE d == Confirmed(c, inc)
<1>1. \E v : LET r == [c.report EXCEPT !.hdsr = v]
             IN  d.report \in {c.report, r}
  BY DEF Confirmed, DeflateHoldout, CandidateType
<1>2. c.report \in Report /\ Target \in {"sharpe", "sortino", "information_ratio"}
  BY ValuesAssumption DEF CandidateType
<1>3. \A v : LET r == [c.report EXCEPT !.hdsr = v]
             IN  /\ r.ret = c.report.ret /\ r.dsr = c.report.dsr /\ r.dd = c.report.dd
                 /\ r.turnover = c.report.turnover /\ r.regime = c.report.regime
                 /\ r.pbo = c.report.pbo /\ r[Target] = c.report[Target]
  BY <1>2 DEF Report
<1>4. /\ d.report.ret = c.report.ret /\ d.report.dsr = c.report.dsr
      /\ d.report.dd = c.report.dd /\ d.report.turnover = c.report.turnover
      /\ d.report.regime = c.report.regime /\ d.report.pbo = c.report.pbo
      /\ d.report[Target] = c.report[Target]
  BY <1>1, <1>3
<1>5. d.edit = c.edit /\ d.corr = c.corr
  BY DEF Confirmed, CandidateType
<1> HIDE DEF d
<1>6. Dominates(a, d) => Dominates(a, c)
  BY <1>4, <1>5 DEF Dominates
<1>7. ~ Dominates(a, a)
  BY DEF Dominates
<1> QED
  BY <1>6, <1>7 DEF d

CorrelationBy(rows, e) ==
  Max({0} \cup {Correlation(e, rows[i].edit) :
         i \in {j \in {l \in DOMAIN rows : rows[l].hash = Hash[Baseline] /\ l # 0} :
                  <<e, rows[j].edit>> \notin Incomparable}})

(* The correlation with the history is the one by the rows on record.      *)
LEMMA CorrelationByRows == \A e : HistoryCorrelation(e) = CorrelationBy(attempts, e)
<1> QED
  BY DEF HistoryCorrelation, Comparable, Rows, CorrelationBy

\* What the select phase makes of a candidate, passing it or not
JudgedBy(rows, m, base, c) ==
  LET e    == c.edit
      r    == Deflated(rows, Outcome[e], e, 0)
      corr == CorrelationBy(rows, e)
  IN  /\ c.report = r
      /\ c.reason = None => IF m = "explore" THEN c.corr = corr /\ corr < 100 ELSE c.corr = 0
      /\ c.reason # None /\ c.reason.stage # "diversity_returns" =>
           ~ Select(r, base, EditLimits[e])

JudgedAll ==
  pc = "select" => \A i \in DOMAIN batch :
    /\ ~ batch[i].confirmed
    /\ i < at => JudgedBy(attempts, mode, incumbent.report, batch[i])

OneConfirmed ==
  /\ \A i, j \in DOMAIN batch : batch[i].confirmed /\ batch[j].confirmed => i = j
  /\ pc = "tune" => batch[winner].confirmed

DominanceInv == JudgedAll /\ OneConfirmed /\ NoDominatedChoice

(* What judging makes of a new candidate.                                  *)
LEMMA JudgedOutcome ==
  ASSUME Types, pc # "baseline", NEW e \in Edits, NEW inc
  PROVE  /\ JudgedBy(attempts, mode, inc.report, Judged(Candidate(e), inc))
         /\ Judged(Candidate(e), inc).edit = e /\ ~ Judged(Candidate(e), inc).confirmed
<1> DEFINE c == Candidate(e)
           r == DeflateSelection(c.report, c.edit, 0)
           checks == SelectChecks(r, inc.report, EditLimits[c.edit])
           corr == HistoryCorrelation(c.edit)
           gate == Reason("gate", "select", FailedGate(checks))
           dup == Reason("diversity_returns", "select", "none")
           d == [c EXCEPT !.report = r]
           j == Judged(c, inc)
           Kept(x) == x.report = r /\ x.edit = e /\ ~ x.confirmed
<1>1. /\ c \in CandidateType
      /\ c.report = Outcome[e] /\ c.edit = e /\ ~ c.confirmed /\ c.reason = None /\ c.corr = 0
  BY CandidateTyped DEF Candidate
<1> HIDE DEF c, r
<1>2. Kept(d) /\ d.reason = None /\ d.corr = 0
  BY <1>1 DEF CandidateType
<1>3. \A y : /\ Kept([d EXCEPT !.reason = y]) /\ [d EXCEPT !.reason = y].reason = y
             /\ Kept([d EXCEPT !.corr = y]) /\ [d EXCEPT !.corr = y].corr = y
             /\ [d EXCEPT !.corr = y].reason = None
  BY <1>1 DEF CandidateType
<1>4. \A y, z : /\ Kept([d EXCEPT !.reason = y, !.corr = z])
                 /\ [d EXCEPT !.reason = y, !.corr = z].reason = y
  BY <1>1 DEF CandidateType
<1>5. corr \in 0 .. 100
  BY HistoryCorrelationTyped
<1>6. ~ Passes(checks) => gate # None
  <2>1. ~ Passes(checks) => FailedGate(checks) \in GateNames
    BY ChecksTyped, FailedGateTyped
  <2>2. ~ Passes(checks) => gate \in Reasons
    BY <2>1 DEF Reason, Reasons
  <2> QED
    BY <2>2, ReasonsAssumption
<1>7. dup # None /\ dup.stage = "diversity_returns"
  <2>1. dup \in Reasons
    BY DEF Reason, Reasons
  <2>2. dup.stage = "diversity_returns"
    BY DEF Reason
  <2> QED
    BY <2>1, <2>2, ReasonsAssumption
<1> HIDE DEF checks, corr, d, gate, dup, j, Kept
<1>8. \/ ~ Passes(checks) /\ j = [d EXCEPT !.reason = gate]
      \/ Passes(checks) /\ mode = "explore" /\ corr = 100
           /\ j = [d EXCEPT !.reason = dup, !.corr = corr]
      \/ Passes(checks) /\ mode = "explore" /\ corr < 100 /\ j = [d EXCEPT !.corr = corr]
      \/ Passes(checks) /\ mode # "explore" /\ j = d
  <2>1. CASE ~ Passes(checks)
    BY <2>1 DEF Judged, r, checks, corr, d, gate, j
  <2>2. CASE Passes(checks) /\ mode = "explore" /\ corr = 100
    BY <2>2 DEF Judged, r, checks, corr, d, dup, j
  <2>3. CASE Passes(checks) /\ mode = "explore" /\ corr < 100
    BY <1>5, <2>3 DEF Judged, r, checks, corr, d, j
  <2>4. CASE Passes(checks) /\ mode # "explore"
    BY <2>4 DEF Judged, r, checks, corr, d, j
  <2> QED
    BY <1>5, <2>1, <2>2, <2>3, <2>4
<1>9. /\ Kept(j)
      /\ j.reason = None => IF mode = "explore" THEN j.corr = corr /\ corr < 100 ELSE j.corr = 0
      /\ j.reason # None /\ j.reason.stage # "diversity_returns" => ~ Passes(checks)
  <2>1. CASE ~ Passes(checks) /\ j = [d EXCEPT !.reason = gate]
    BY <1>3, <1>6, <2>1
  <2>2. CASE j = [d EXCEPT !.reason = dup, !.corr = corr]
    BY <1>4, <1>7, <2>2
  <2>3. CASE mode = "explore" /\ corr < 100 /\ j = [d EXCEPT !.corr = corr]
    BY <1>3, <2>3
  <2>4. CASE mode # "explore" /\ j = d
    BY <1>2, <2>4
  <2> QED
    BY <1>8, <2>1, <2>2, <2>3, <2>4
<1>10. r = Deflated(attempts, Outcome[e], e, 0) /\ corr = CorrelationBy(attempts, e)
  BY <1>1, DeflationByRows, CorrelationByRows DEF r, corr
<1>11. Passes(checks) <=> Select(r, inc.report, EditLimits[e])
  BY <1>1 DEF Select, checks
<1> QED
  BY <1>9, <1>10, <1>11 DEF Kept, JudgedBy, j, c

(* A candidate that dominates the one confirmed was rejected as a          *)
(* duplicate: it passes every gate and ranks higher.                       *)
LEMMA TopUndominated ==
  ASSUME Types, JudgedFairly, JudgedAll, pc = "select", at > Len(batch), Passers # {},
         NEW i \in DOMAIN batch, Dominates(batch[i], batch[Top])
  PROVE  batch[i].reason # None /\ batch[i].reason.stage = "diversity_returns"
<1> DEFINE a == batch[i].edit
           b == batch[Top].edit
           r == Deflated(attempts, Outcome[a], a, 0)
           s == Deflated(attempts, Outcome[b], b, 0)
<1> SUFFICES ASSUME batch[i].reason = None \/ batch[i].reason.stage # "diversity_returns"
             PROVE  FALSE
  OBVIOUS
<1>1. /\ DOMAIN batch = 1 .. Len(batch) /\ Len(batch) \in Nat /\ at \in Nat
      /\ \A j \in DOMAIN batch : j < at /\ batch[j] \in CandidateType
  BY LenProperties, ElementOfSeq DEF Types
<1>2. Top \in DOMAIN batch /\ batch[Top].reason = None /\ Top \in Passers
  BY TopPasses DEF Passers
<1>3. a \in Edits /\ b \in Edits
  BY <1>1, <1>2 DEF CandidateType
<1>4. /\ JudgedBy(attempts, mode, incumbent.report, batch[i])
      /\ JudgedBy(attempts, mode, incumbent.report, batch[Top])
  BY <1>1, <1>2 DEF JudgedAll
<1>5. /\ batch[i].report = r /\ batch[Top].report = s
      /\ Select(s, incumbent.report, EditLimits[b])
  BY <1>1, <1>2, <1>4 DEF JudgedFairly, JudgedBy
<1>6. r \in Report /\ s \in Report /\ Better(r, s)
  <2>1. Rowed /\ Outcome[a] \in Report /\ Outcome[b] \in Report
    BY <1>3, RunAssumption DEF Types, Rowed
  <2>2. /\ r = DeflateSelection(Outcome[a], a, 0)
        /\ s = DeflateSelection(Outcome[b], b, 0)
    BY DeflationByRows
  <2>3. r \in Report /\ s \in Report /\ r.dsr \in Percentage /\ s.dsr \in Percentage
    BY <1>3, <2>1, <2>2, DeflateSelectionTyped
  <2> HIDE DEF r, s
  <2>4. r.dsr \in Int /\ s.dsr \in Int
    <3>1. \A z \in Percentage : z \in Int
      BY DEF Percentage
    <3> QED
      BY <2>3, <3>1
  <2>5. Better(r, s)
    BY <1>5, <2>4, DominatesBetter
  <2> QED
    BY <2>3, <2>5
<1>7. Select(r, incumbent.report, EditLimits[a])
  <2>1. EditLimits[a] = EditLimits[b] /\ EditLimits[b] \in Limits
    BY <1>3, RunAssumption DEF Dominates
  <2>2. incumbent.report \in Report
    BY IncumbentTyped
  <2> HIDE DEF r, s
  <2> QED
    BY <1>5, <1>6, <2>1, <2>2, BetterPasses
<1>8. batch[i].reason = None
  BY <1>4, <1>7 DEF JudgedBy
<1>9. batch[i].corr <= batch[Top].corr
  BY DEF Dominates
<1>10. Score(batch[i]) \in Int /\ Score(batch[Top]) \in Int /\ Score(batch[i]) > Score(batch[Top])
  <2> DEFINE x == EditLimits[Baseline].compare
  <2>1. /\ CompareMetric(r, x) \in Int /\ CompareMetric(s, x) \in Int
        /\ CompareMetric(r, x) > CompareMetric(s, x)
    <3> HIDE DEF r, s
    <3> QED
      BY <1>6, BetterCompares
  <2>2. \A z \in 0 .. 100 : z \in Int
    OBVIOUS
  <2>3. batch[i].corr \in 0 .. 100 /\ batch[Top].corr \in 0 .. 100
    BY <1>1, <1>2 DEF CandidateType
  <2>4. PICK y \in Int : y = batch[i].corr
    BY <2>2, <2>3
  <2>5. PICK z \in Int : z = batch[Top].corr
    BY <2>2, <2>3
  <2>6. PICK p \in Nat : p = Penalty
    BY RunAssumption
  <2>7. p * y \in Int /\ p * z \in Int /\ p * y <= p * z
    <3>1. z - y \in Nat
      BY <1>9, <2>4, <2>5
    <3>2. \A m, n \in Nat : m * n >= 0
      OBVIOUS
    <3>3. p * (z - y) >= 0
      BY <3>1, <3>2
    <3>4. p * (z - y) = p * z - p * y
      OBVIOUS
    <3> QED
      BY <3>3, <3>4
  <2>8. PICK u \in Int : u = p * y
    BY <2>7
  <2>9. PICK v \in Int : v = p * z
    BY <2>7
  <2>10. Score(batch[i]) = CompareMetric(r, x) * 100 - u
    BY <1>5, <2>4, <2>6, <2>8 DEF Score
  <2>11. Score(batch[Top]) = CompareMetric(s, x) * 100 - v
    BY <1>5, <2>5, <2>6, <2>9 DEF Score
  <2> HIDE DEF r, s, x
  <2> QED
    BY <2>1, <2>7, <2>8, <2>9, <2>10, <2>11
<1>11. i \in Passers
  BY <1>8 DEF Passers
<1> QED
  BY <1>10, <1>11, TopPasses

(* What the select phase concluded stands while it goes on.                *)
LEMMA JudgedAllKept == Inv /\ JudgedAll /\ [Next]_vars => JudgedAll'
<1> SUFFICES ASSUME Inv, JudgedAll, [Next]_vars, pc' = "select" PROVE JudgedAll'
  BY DEF JudgedAll
<1>0. /\ Types /\ DOMAIN batch = 1 .. Len(batch) /\ at \in Nat
      /\ \A j \in DOMAIN batch : batch[j] \in CandidateType
  BY LenProperties, ElementOfSeq DEF Inv, Types
<1>1. CASE JudgeCandidate
  <2> DEFINE inc == [incumbent EXCEPT !.report = Renewed(incumbent)]
             c == Judged(batch[at], inc)
  <2>1. /\ attempts' = attempts /\ mode' = mode /\ incumbent' = inc /\ at' = at + 1
        /\ pc = "select" /\ at \in DOMAIN batch /\ batch' = [batch EXCEPT ![at] = c]
    BY <1>0, <1>1 DEF JudgeCandidate, Types
  <2>2. JudgedBy(attempts, mode, inc.report, c) /\ ~ c.confirmed
    <3>1. batch[at] = Candidate(batch[at].edit) /\ batch[at].edit \in Edits
      BY <1>0, <2>1 DEF Inv, JudgedFairly, CandidateType
    <3> QED
      BY <1>0, <2>1, <3>1, JudgedOutcome
  <2>3. at > 1 => incumbent.report = inc.report
    BY <1>0, <2>1, RenewingTwice DEF Inv, JudgedFairly
  <2> HIDE DEF c, inc
  <2>4. ASSUME NEW i \in DOMAIN batch'
        PROVE  /\ ~ batch'[i].confirmed
               /\ i < at' => JudgedBy(attempts', mode', incumbent'.report, batch'[i])
    <3>1. i \in DOMAIN batch /\ i \in Nat /\ i >= 1
      BY <1>0, <2>1
    <3>2. CASE i = at
      <4>1. batch'[i] = c
        BY <2>1, <3>2
      <4> QED
        BY <2>1, <2>2, <4>1
    <3>3. CASE i # at
      <4>1. batch'[i] = batch[i] /\ (i < at' => i < at /\ at > 1)
        BY <1>0, <2>1, <3>1, <3>3
      <4> QED
        BY <2>1, <2>3, <3>1, <4>1 DEF JudgedAll
    <3> QED
      BY <3>2, <3>3
  <2> QED
    BY <2>4 DEF JudgedAll
<1>2. CASE \E edits \in Proposals : Generate(edits)
  <2>1. PICK edits \in Proposals : Generate(edits)
    BY <1>2
  <2>2. at' = 1 /\ batch' = [i \in DOMAIN edits |-> Candidate(edits[i])]
    BY <2>1 DEF Generate
  <2>3. DOMAIN edits \subseteq Nat \ {0}
    BY RunAssumption
  <2>4. \A e : ~ Candidate(e).confirmed
    BY DEF Candidate
  <2> QED
    BY <2>2, <2>3, <2>4 DEF JudgedAll
<1>3. CASE UNCHANGED vars
  BY <1>3 DEF JudgedAll, vars, runVars
<1>4. ~ (SetupBaseline \/ NothingToConfirm \/ RefusePeek \/ ConfirmTop \/ KeepWinner
           \/ Commit \/ Record \/ Finish \/ \E t \in Edits : Tune(t))
  BY DEF SetupBaseline, NothingToConfirm, RefusePeek, ConfirmTop, KeepWinner, Commit, Record,
         Finish, Tune
<1> QED
  BY <1>1, <1>2, <1>3, <1>4 DEF Next, Iteration

(* The steps before the confirm phase confirm nobody.                      *)
LEMMA NobodyConfirmed ==
  ASSUME Inv, JudgedAll,
         JudgeCandidate \/ RefusePeek \/ \E edits \in Proposals : Generate(edits)
  PROVE  pc' # "tune" /\ \A j \in DOMAIN batch' : ~ batch'[j].confirmed
<1>0. Types /\ \A j \in DOMAIN batch : batch[j] \in CandidateType
  BY ElementOfSeq DEF Inv, Types
<1>1. CASE JudgeCandidate \/ \E edits \in Proposals : Generate(edits)
  <2>1. pc' = "select" /\ [Next]_vars
    BY <1>1 DEF JudgeCandidate, Generate, Next, Iteration
  <2> QED
    BY <2>1, JudgedAllKept DEF JudgedAll
<1>2. CASE RefusePeek
  <2> DEFINE c == [batch[Top] EXCEPT !.reason = Reason("holdout_peek_limit", "budget", "none")]
  <2>1. /\ pc = "select" /\ pc' = "record" /\ Top \in DOMAIN batch
        /\ batch' = [batch EXCEPT ![Top] = c]
    BY <1>0, <1>2, TopPasses DEF RefusePeek, Passers
  <2>2. c.confirmed = batch[Top].confirmed
    BY <1>0, <2>1 DEF CandidateType
  <2> HIDE DEF c
  <2> QED
    BY <2>1, <2>2 DEF JudgedAll
<1> QED
  BY <1>1, <1>2

(* The confirm phase confirms the first of the ranking and nobody else.    *)
LEMMA OnlyTopConfirmed ==
  ASSUME Inv, JudgedAll, ConfirmTop
  PROVE  /\ Top \in DOMAIN batch /\ DOMAIN batch' = DOMAIN batch
         /\ batch'[Top].confirmed
         /\ \A a : Dominates(a, batch'[Top]) => Dominates(a, batch[Top])
         /\ \A j \in DOMAIN batch : j # Top => batch'[j] = batch[j] /\ ~ batch'[j].confirmed
         /\ pc' = "tune" => winner' = Top
<1> DEFINE inc == [incumbent EXCEPT !.report = RenewedHoldout(incumbent)]
           c == Confirmed(batch[Top], inc)
<1>1. Types /\ \A j \in DOMAIN batch : batch[j] \in CandidateType
  BY ElementOfSeq DEF Inv, Types
<1>2. /\ Top \in DOMAIN batch /\ pc = "select"
      /\ batch' = [batch EXCEPT ![Top] = c]
      /\ pc' = "tune" => winner' = Top
  BY <1>1, TopPasses DEF ConfirmTop, Passers
<1>3. c.confirmed = TRUE /\ \A a : Dominates(a, c) => Dominates(a, batch[Top])
  BY <1>1, <1>2, ConfirmedFields, HoldoutLeavesOrder
<1> HIDE DEF c
<1> QED
  BY <1>2, <1>3 DEF JudgedAll

(* A tuned winner stays confirmed, and is marked.                          *)
LEMMA TuneMarks ==
  ASSUME Inv, NEW t \in Edits, Tune(t)
  PROVE  /\ winner \in DOMAIN batch /\ DOMAIN batch' = DOMAIN batch
         /\ \A j \in DOMAIN batch : batch'[j].confirmed = batch[j].confirmed
         /\ batch' = batch \/ batch'[winner].tuned
<1> DEFINE r == DeflateHoldout(DeflateSelection(Outcome[t], t, 0), t, 0)
           c == Adopted(batch[winner], t, r)
<1>1. winner \in DOMAIN batch /\ batch[winner] \in CandidateType
  BY ElementOfSeq DEF Inv, Types, WinnerEarned, Tune
<1>2. batch' = batch \/ batch' = [batch EXCEPT ![winner] = c]
  BY DEF Tune
<1>3. c.confirmed = batch[winner].confirmed /\ c.tuned
  BY <1>1 DEF Adopted, CandidateType
<1> HIDE DEF c
<1> QED
  BY <1>1, <1>2, <1>3

(* At most one candidate of a batch is confirmed.                          *)
LEMMA OneConfirmedKept == Inv /\ JudgedAll /\ OneConfirmed /\ [Next]_vars => OneConfirmed'
<1> SUFFICES ASSUME Inv, JudgedAll, OneConfirmed, [Next]_vars PROVE OneConfirmed'
  OBVIOUS
<1>1. CASE JudgeCandidate \/ RefusePeek \/ \E edits \in Proposals : Generate(edits)
  BY <1>1, NobodyConfirmed DEF OneConfirmed
<1>2. CASE ConfirmTop
  BY <1>2, OnlyTopConfirmed DEF OneConfirmed
<1>3. CASE \E t \in Edits : Tune(t)
  <2>1. PICK t \in Edits : Tune(t)
    BY <1>3
  <2>2. pc' = "commit"
    BY <2>1 DEF Tune
  <2> QED
    BY <2>1, <2>2, TuneMarks DEF OneConfirmed
<1>4. CASE SetupBaseline \/ NothingToConfirm \/ KeepWinner \/ Commit \/ Record \/ Finish
             \/ UNCHANGED vars
  <2>1. batch' = batch /\ winner' = winner /\ (pc' = "tune" => pc = "tune")
    BY <1>4 DEF SetupBaseline, NothingToConfirm, KeepWinner, Commit, Record, Finish, vars
  <2> QED
    BY <2>1 DEF OneConfirmed
<1> QED
  BY <1>1, <1>2, <1>3, <1>4 DEF Next, Iteration

(* The one confirmed has no rival in its batch that dominates it.          *)
LEMMA NoDominatedChoiceKept ==
  Inv /\ DominanceInv /\ [Next]_vars => NoDominatedChoice'
<1> SUFFICES ASSUME Inv, DominanceInv, [Next]_vars PROVE NoDominatedChoice'
  OBVIOUS
<1>0. JudgedAll /\ OneConfirmed /\ NoDominatedChoice
  BY DEF DominanceInv
<1>1. CASE JudgeCandidate \/ RefusePeek \/ \E edits \in Proposals : Generate(edits)
  BY <1>0, <1>1, NobodyConfirmed DEF NoDominatedChoice
<1>2. CASE ConfirmTop
  <2>1. /\ Types /\ JudgedFairly /\ pc = "select" /\ at > Len(batch) /\ Passers # {}
        /\ \A c : ~ Dominates(c, c)
    BY <1>2 DEF Inv, ConfirmTop, Dominates
  <2> SUFFICES ASSUME NEW i \in DOMAIN batch', NEW j \in DOMAIN batch', batch'[j].confirmed,
                      batch'[i].reason = None \/ batch'[i].reason.stage # "diversity_returns",
                      Dominates(batch'[i], batch'[j])
               PROVE  FALSE
    BY DEF NoDominatedChoice
  <2>2. j = Top /\ Dominates(batch'[i], batch[Top]) /\ i \in DOMAIN batch
    BY <1>0, <1>2, OnlyTopConfirmed
  <2>3. i # Top
    BY <2>1, <2>2
  <2>4. batch'[i] = batch[i]
    BY <1>0, <1>2, <2>2, <2>3, OnlyTopConfirmed
  <2> QED
    BY <1>0, <2>1, <2>2, <2>4, TopUndominated
<1>3. CASE \E t \in Edits : Tune(t)
  <2>1. PICK t \in Edits : Tune(t)
    BY <1>3
  <2>2. CASE batch' = batch
    BY <1>0, <2>2 DEF NoDominatedChoice
  <2>3. CASE batch'[winner].tuned
    <3>1. batch[winner].confirmed
      BY <1>0, <2>1 DEF OneConfirmed, Tune
    <3>2. \A j \in DOMAIN batch' : batch'[j].confirmed => j = winner
      BY <1>0, <2>1, <3>1, TuneMarks DEF OneConfirmed
    <3> QED
      BY <2>3, <3>2 DEF NoDominatedChoice
  <2> QED
    BY <2>1, <2>2, <2>3, TuneMarks
<1>4. CASE SetupBaseline \/ NothingToConfirm \/ KeepWinner \/ Commit \/ Record \/ Finish
             \/ UNCHANGED vars
  <2>1. batch' = batch
    BY <1>4 DEF SetupBaseline, NothingToConfirm, KeepWinner, Commit, Record, Finish, vars
  <2> QED
    BY <1>0, <2>1 DEF NoDominatedChoice
<1> QED
  BY <1>1, <1>2, <1>3, <1>4 DEF Next, Iteration

(* The holdout is never spent on a candidate when the same batch holds one *)
(* that dominates it and repeats no recorded series.                       *)
THEOREM NoPeekForTheDominated == Spec => []NoDominatedChoice
<1>1. Init => DominanceInv
  BY DEF Init, DominanceInv, JudgedAll, OneConfirmed, NoDominatedChoice
<1>2. Inv /\ DominanceInv /\ [Next]_vars => DominanceInv'
  BY JudgedAllKept, OneConfirmedKept, NoDominatedChoiceKept DEF DominanceInv
<1>3. DominanceInv => NoDominatedChoice
  BY DEF DominanceInv
<1> QED
  BY <1>1, <1>2, <1>3, Invariance, PTL DEF Spec
=============================================================================
