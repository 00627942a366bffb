----------------------------- MODULE Selection -----------------------------
(***************************************************************************)
(* How one run of orchestrator.py turns evaluated candidates into a new    *)
(* incumbent: deflation by the ledger's history, the select gate, the      *)
(* duplicate check, the ranking, the holdout confirmation, the tuned       *)
(* configuration, the commit, the rows, and what the language model is     *)
(* told of the failures.                                                   *)
(*                                                                         *)
(* An edit determines its backtest: its report before deflation, its       *)
(* return series and the limits its own configuration sets.                *)
(*                                                                         *)
(* Faults, resumed sessions and early stopping are OptimizationRun's; how  *)
(* a batch comes about is CandidateBatch's.                                *)
(***************************************************************************)
EXTENDS Deflation, Ranks

CONSTANTS
  Baseline,
  Outcome,        \* the report of an edit's backtest, before deflation
  EditLimits,     \* the limits in an edit's own configuration
  HoldoutSharpe,  \* its observed holdout Sharpe ratio, None without a holdout
  Hash,           \* the dataset hash of its universe
  Series,         \* its return series: equal ones correlate fully
  Precision,      \* of its Sharpe ratio's estimate, in sample
  HoldoutPrecision,
  Incomparable,   \* pairs that overlap too little, or correlate by no number
  Tunings,        \* the edits numeric optimisation may propose for it
  Kinship,        \* correlation of two series of one family, in per cent
  Penalty,        \* settings.diversity_returns_penalty, in per cent
  PeekLimit,      \* holdout_peek_limit
  MaxShown,       \* rejected rows the prompt shows
  NumericOpt,
  MaxIterations,  \* --iterations
  Proposals       \* bound: the batches that may come out of the backtest

ASSUME RunAssumption ==
  /\ Baseline \in Edits
  /\ Outcome \in [Edits -> Report] /\ EditLimits \in [Edits -> Limits]
  /\ HoldoutSharpe \in [Edits -> Int \cup {None}]
  /\ {Precision, HoldoutPrecision} \subseteq [Edits -> Nat]
  /\ Incomparable \subseteq Edits \X Edits
  /\ Tunings \in [Edits -> SUBSET Edits]
  /\ Kinship \in 0 .. 99 /\ Penalty \in Nat
  /\ PeekLimit \in Nat /\ MaxShown \in Nat /\ NumericOpt \in BOOLEAN
  /\ MaxIterations \in Nat /\ Proposals \subseteq Seq(Edits)

VARIABLES
  attempts,      \* the ledger's rows, in id order
  incumbent,     \* its edit, the id of its row and its report
  mode, k, pc,
  batch,         \* the iteration's evaluated candidates
  at,            \* the candidate the select phase judges next
  winner,        \* index of the accepted candidate, 0 for none
  lastAttempt,   \* self.last_attempt: what failed, for the next prompt
  lastFailures   \* self.last_iteration_failures

runVars  == <<attempts, incumbent, mode, k>>
toldVars == <<lastAttempt, lastFailures>>
vars     == <<runVars, toldVars, pc, batch, at, winner>>

-----------------------------------------------------------------------------
(* Candidates and rows *)

\* Why a candidate failed: the stage, and the check its message reports.
Reason(stage, phase, gate) == [stage |-> stage, phase |-> phase, gate |-> gate]

Unexplained == Reason("all_candidates_failed", "none", "none")

Candidate(e) == [edit |-> e, report |-> Outcome[e], reason |-> None, corr |-> 0,
                 confirmed |-> FALSE, tuned |-> FALSE]

\* explore and tuned are history for the properties; no action reads them.
Row(c, accepted, peeked) ==
  [iter |-> k, edit |-> c.edit, hash |-> Hash[Baseline], report |-> c.report,
   accepted |-> accepted, peeked |-> peeked,
   reason |-> IF accepted THEN None ELSE c.reason,
   explore |-> mode = "explore", tuned |-> c.tuned]

-----------------------------------------------------------------------------
(* Deflation: a trial is never counted among its own predecessors *)

\* fetch_historical_returns and fetch_holdout_history
Rows(h, exclude) == {i \in DOMAIN attempts : attempts[i].hash = h /\ i # exclude}

PeekedRows(h, exclude) ==
  {i \in Rows(h, exclude) :
     attempts[i].peeked /\ HoldoutSharpe[attempts[i].edit] # None}

\* a column of the trials on record and one more
Joined(history, own) ==
  [i \in DOMAIN history \cup {Len(attempts) + 1} |->
     IF i \in DOMAIN history THEN history[i] ELSE own]

DeflateSelection(r, e, exclude) ==
  LET ids     == Rows(Hash[e], exclude)
      trials  == Joined([i \in ids |-> attempts[i].edit], e)
      sharpes == Joined([i \in ids |-> attempts[i].report.observed], r.observed)
  IN  [r EXCEPT !.dsr = DeflatedRatio(r.observed, Precision[e],
                                      EffectiveTrials(trials), sharpes),
                !.pbo = Overfitting(trials)]

DeflateHoldout(r, e, exclude) ==
  LET ids     == PeekedRows(Hash[e], exclude)
      trials  == Joined([i \in ids |-> attempts[i].edit], e)
      sharpes == Joined([i \in ids |-> HoldoutSharpe[attempts[i].edit]], HoldoutSharpe[e])
  IN  IF HoldoutSharpe[e] = None THEN r
      ELSE [r EXCEPT !.hdsr = DeflatedRatio(HoldoutSharpe[e], HoldoutPrecision[e],
                                            EffectiveTrials(trials), sharpes)]

\* The incumbent's report as the select phase renews it
Renewed(inc) == DeflateSelection(inc.report, inc.edit, inc.id)

RenewedHoldout(inc) == DeflateHoldout(inc.report, inc.edit, inc.id)

-----------------------------------------------------------------------------
Init ==
  /\ attempts = << >> /\ mode = "explore" /\ k = 0
  /\ incumbent = [edit |-> Baseline, id |-> 0, report |-> Outcome[Baseline]]
  /\ pc = "baseline" /\ batch = << >> /\ at = 1 /\ winner = 0
  /\ lastAttempt = None /\ lastFailures = << >>

\* _setup_baseline: iteration 0, recorded as accepted and confirmed
SetupBaseline ==
  LET r == DeflateHoldout(DeflateSelection(Outcome[Baseline], Baseline, 0), Baseline, 0)
  IN  /\ pc = "baseline"
      /\ incumbent' = [edit |-> Baseline, id |-> 1, report |-> r]
      /\ attempts' = << Row([Candidate(Baseline) EXCEPT !.report = r], TRUE, TRUE) >>
      /\ pc' = "generate"
      /\ UNCHANGED <<mode, k, toldVars, batch, at, winner>>

SlipInclusiveRange == k <= MaxIterations

MoreIterations == k < MaxIterations

\* Stuck or stalled runs explore; only a commit makes a run exploit.
Generate(edits) ==
  /\ pc = "generate" /\ MoreIterations
  /\ k' = k + 1
  /\ mode' \in {mode, "explore"}
  /\ batch' = [i \in DOMAIN edits |-> Candidate(edits[i])]
  /\ at' = 1 /\ winner' = 0
  /\ pc' = "select"
  /\ UNCHANGED <<attempts, incumbent, toldVars>>

-----------------------------------------------------------------------------
(* The select phase *)

Correlation(e, f) ==
  CASE Series[e] = Series[f] -> 100
    [] Series[e] # Series[f] /\ Family[e] = Family[f] -> Kinship
    [] OTHER -> 0

Comparable(e) == {i \in Rows(Hash[Baseline], 0) : <<e, attempts[i].edit>> \notin Incomparable}

SlipAcceptedRows(e) ==
  Max({0} \cup {Correlation(e, attempts[i].edit) :
                  i \in {j \in Comparable(e) : attempts[j].accepted}})

\* check_returns_correlation against every row of the session's universe
HistoryCorrelation(e) ==
  Max({0} \cup {Correlation(e, attempts[i].edit) : i \in Comparable(e)})

\* _run_select_phase for one candidate
Judged(c, inc) ==
  LET r      == DeflateSelection(c.report, c.edit, 0)
      checks == SelectChecks(r, inc.report, EditLimits[c.edit])
      corr   == HistoryCorrelation(c.edit)
      d      == [c EXCEPT !.report = r]
  IN  CASE ~ Passes(checks) ->
             [d EXCEPT !.reason = Reason("gate", "select", FailedGate(checks))]
        [] Passes(checks) /\ mode = "explore" /\ corr = 100 ->
             [d EXCEPT !.reason = Reason("diversity_returns", "select", "none"),
                       !.corr = corr]
        [] Passes(checks) /\ mode = "explore" /\ corr < 100 -> [d EXCEPT !.corr = corr]
        [] OTHER -> d

JudgeCandidate ==
  LET inc == [incumbent EXCEPT !.report = Renewed(incumbent)]
  IN  /\ pc = "select" /\ at <= Len(batch)
      /\ incumbent' = inc
      /\ batch' = [batch EXCEPT ![at] = Judged(@, inc)]
      /\ at' = at + 1
      /\ UNCHANGED <<attempts, mode, k, toldVars, pc, winner>>

-----------------------------------------------------------------------------
(* The confirm phase *)

Passers == {i \in DOMAIN batch : batch[i].reason = None}

\* the sort key, times 100: the compare metric is the baseline config's
Score(c) ==
  CompareMetric(c.report, EditLimits[Baseline].compare) * 100 - Penalty * c.corr

\* the sort is stable: the first of equals stays first
Top == CHOOSE i \in Passers : \A j \in Passers :
         Score(batch[i]) > Score(batch[j])
           \/ (Score(batch[i]) = Score(batch[j]) /\ i <= j)

NothingToConfirm ==
  /\ pc = "select" /\ at > Len(batch) /\ Passers = {}
  /\ pc' = "record"
  /\ UNCHANGED <<runVars, toldVars, batch, at, winner>>

BudgetExhausted(h) == Cardinality(PeekedRows(h, 0)) >= PeekLimit

\* The run ends after an iteration that was refused a peek.
RefusePeek ==
  /\ pc = "select" /\ at > Len(batch) /\ Passers # {}
  /\ BudgetExhausted(Hash[batch[Top].edit])
  /\ batch' = [batch EXCEPT ![Top].reason = Reason("holdout_peek_limit", "budget", "none")]
  /\ pc' = "record"
  /\ UNCHANGED <<runVars, toldVars, at, winner>>

Confirmed(c, inc) ==
  LET r      == DeflateHoldout(c.report, c.edit, 0)
      checks == ConfirmChecks(r, inc.report, EditLimits[c.edit])
  IN  [c EXCEPT !.report = r, !.confirmed = TRUE,
                !.reason = IF Passes(checks) THEN None
                           ELSE Reason("gate", "confirm", FailedGate(checks))]

ConfirmTop ==
  LET inc == [incumbent EXCEPT !.report = RenewedHoldout(incumbent)]
      c   == Confirmed(batch[Top], inc)
  IN  /\ pc = "select" /\ at > Len(batch) /\ Passers # {}
      /\ ~ BudgetExhausted(Hash[batch[Top].edit])
      /\ incumbent' = inc
      /\ batch' = [batch EXCEPT ![Top] = c]
      /\ winner' = IF c.reason = None THEN Top ELSE 0
      /\ pc' = IF c.reason # None THEN "record"
               ELSE IF NumericOpt THEN "tune" ELSE "commit"
      /\ UNCHANGED <<attempts, mode, k, toldVars, at>>

-----------------------------------------------------------------------------
(* The winner's tuned configuration *)

\* a metric as _optimize_winner_params compares it: NaN is the least value
AtLeast(x, y) ==
  \/ y = NaN \/ x = Inf
  \/ x \in Int /\ y \in Int /\ x >= y

RawMetric(r) == IF r[Target] = None THEN 0 ELSE r[Target]

SlipTrustsSearch(r, old, c) == AtLeast(RawMetric(r), RawMetric(old))

\* it passes both gates again and does not lose the target metric
EarnsItsPlace(r, old, c) ==
  /\ Select(r, incumbent.report, c)
  /\ Confirm(r, incumbent.report, c)
  /\ AtLeast(RawMetric(r), RawMetric(old))

SlipConfigOnly(c, e, r) == [c EXCEPT !.edit = e, !.tuned = TRUE]

Adopted(c, e, r) == [c EXCEPT !.edit = e, !.report = r, !.tuned = TRUE]

\* The search proposes t; the confirmation of a rejected t leaves no row.
Tune(t) ==
  LET c == batch[winner]
      r == DeflateHoldout(DeflateSelection(Outcome[t], t, 0), t, 0)
  IN  /\ pc = "tune" /\ t \in Tunings[c.edit]
      /\ batch' = IF EarnsItsPlace(r, c.report, EditLimits[t])
                    THEN [batch EXCEPT ![winner] = Adopted(c, t, r)] ELSE batch
      /\ pc' = "commit"
      /\ UNCHANGED <<runVars, toldVars, at, winner>>

\* The search fails, finds nothing better, or its result does not evaluate.
KeepWinner ==
  /\ pc = "tune"
  /\ pc' = "commit"
  /\ UNCHANGED <<runVars, toldVars, batch, at, winner>>

-----------------------------------------------------------------------------
(* Commit, rows and feedback *)

AttemptId == Len(attempts) + 1

SlipKeepFailureList == lastAttempt' = None /\ UNCHANGED lastFailures

ForgetFailures == lastAttempt' = None /\ lastFailures' = << >>

Commit ==
  LET c == batch[winner]
  IN  /\ pc = "commit"
      /\ attempts' = Append(attempts, Row(c, TRUE, TRUE))
      /\ incumbent' = [edit |-> c.edit, id |-> AttemptId, report |-> c.report]
      /\ ForgetFailures
      /\ mode' = "exploit"
      /\ pc' = "record"
      /\ UNCHANGED <<k, batch, at, winner>>

Losers == IF winner = 0 THEN batch
          ELSE SubSeq(batch, 1, winner - 1) \o SubSeq(batch, winner + 1, Len(batch))

Rejected == {i \in DOMAIN batch : batch[i].reason # None}

WithStage(stage) == {i \in Rejected : batch[i].reason.stage = stage}

\* stages_priority, for the stages after the backtest
Priority == <<"gate", "diversity_returns", "holdout_peek_limit">>

\* _extract_best_failure: the first candidate of the first stage that has one
BestFailure ==
  LET seen == {s \in DOMAIN Priority : WithStage(Priority[s]) # {}}
  IN  IF seen = {} THEN Unexplained
      ELSE batch[Min(WithStage(Priority[Min(seen)]))].reason

Failures == Picked(batch, Rejected)

\* record_candidates and _format_failure_summary
Record ==
  LET refused == \E i \in DOMAIN batch :
                   batch[i].reason # None /\ batch[i].reason.stage = "holdout_peek_limit"
  IN  /\ pc = "record"
      /\ attempts' = attempts \o
           [i \in DOMAIN Losers |-> Row(Losers[i], FALSE, Losers[i].confirmed)]
      /\ IF winner = 0
           THEN /\ lastAttempt' = BestFailure
                /\ lastFailures' = [i \in DOMAIN Failures |-> Failures[i].reason]
           ELSE UNCHANGED toldVars
      /\ pc' = IF refused THEN "stopped" ELSE "generate"
      /\ UNCHANGED <<incumbent, mode, k, batch, at, winner>>

Finish ==
  /\ pc = "generate" /\ ~ MoreIterations
  /\ pc' = "stopped"
  /\ UNCHANGED <<runVars, toldVars, batch, at, winner>>

\* fetch_attempt_summaries and _format_attempt_history
Shown ==
  LET rejected == {i \in Rows(Hash[Baseline], 0) : ~ attempts[i].accepted}
  IN  {attempts[i].reason : i \in {j \in rejected :
         Cardinality({l \in rejected : l > j}) < MaxShown}} \ {None}

\* build_context: every failure the next prompt reports
Told == Shown \cup ({lastAttempt} \ {None})
              \cup {lastFailures[i] : i \in DOMAIN lastFailures}

-----------------------------------------------------------------------------
Iteration ==
  \/ JudgeCandidate \/ NothingToConfirm \/ RefusePeek \/ ConfirmTop
  \/ (\E t \in Edits : Tune(t)) \/ KeepWinner
  \/ Commit \/ Record

Next ==
  \/ SetupBaseline
  \/ \E edits \in Proposals : Generate(edits)
  \/ Iteration
  \/ Finish

Spec == Init /\ [][Next]_vars
=============================================================================
