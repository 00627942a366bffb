------------------------ MODULE EvaluationProperties ------------------------
(***************************************************************************)
(* What an evaluation must guarantee, stated over Evaluation.              *)
(***************************************************************************)
EXTENDS Evaluation

IsReport(r) == /\ DOMAIN r = {"from", "to", "ratios", "turnover", "scaled"}
               /\ r.ratios \subseteq days /\ r.turnover \subseteq days /\ r.scaled \in 0 .. 1

(* Every variable has its type, no fold is empty, and the pool runs at     *)
(* most MaxWorkers folds at once.                                          *)
TypeOK ==
  /\ days \in Calendars /\ strategy \in Strategies
  /\ pc \in {"load", "signals", "prescreen", "pool", "full", "holdout", "stress",
             "haircut", "done", "rejected", "failed"}
  /\ \A i \in DOMAIN folds :
       /\ folds[i].train \subseteq days /\ folds[i].train # {}
       /\ folds[i].test \subseteq days /\ folds[i].test # {}
  /\ \A d \in DOMAIN weights : weights[d].fold \in DOMAIN folds /\ weights[d].reads \subseteq days
  /\ \A d \in DOMAIN pooled : pooled[d].held \subseteq days /\ pooled[d].net \subseteq days
  /\ Len(tasks) <= Len(folds) /\ Cardinality(Running) <= MaxWorkers
  /\ IsReport(inSample) /\ IsReport(holdout) /\ \A i \in DOMAIN reports : IsReport(reports[i])
  /\ DOMAIN full \subseteq days /\ regime.reads \subseteq days /\ regime.passed \in BOOLEAN

Tested == pc \notin {"load", "signals", "failed"}

Kept == Tested /\ pc # "rejected"

(* What the search optimises and deflates (the pooled returns, the Sharpe  *)
(* ratio of in_sample_metrics, the objective of numeric optimisation) does *)
(* not depend on a holdout price, even for a strategy that looks ahead.    *)
(* The launch haircut alone reads one: the first day of the holdout.       *)
SearchBlindToHoldout ==
  Tested =>
    LET sealed == HoldoutDays
    IN  /\ \A d \in DOMAIN pooled : pooled[d].net \cap sealed = {}
        /\ Objective \cap sealed = {}
        /\ inSample.ratios \cap sealed \subseteq
             IF inSample.scaled = 0 THEN {} ELSE {Min(sealed)}

(* No return is earned with knowledge of its own day: the position of a    *)
(* strategy that looks at earlier prices only rests on days before the one *)
(* it earns, and whatever a strategy does, a test day's return does not    *)
(* depend on prices after the end of the fold that tests it.               *)
NoLookahead ==
  \A d \in DOMAIN pooled :
    /\ strategy.honest =>
         (\A e \in pooled[d].held : e < d) /\ (\A e \in pooled[d].net : e <= d)
    /\ \E i \in DOMAIN folds :
         d \in folds[i].test /\ \A e \in pooled[d].net : e <= TestEnd(i)

(* From the first test on, every in-sample day is tested, but for a        *)
(* 1 March that ends the in-sample period after a missing 29 February.     *)
(* Two folds share only the day where one ends and the next begins, or a   *)
(* 29 February and the day after it, where DateOffset moved the one fold   *)
(* and not the other.  A day's weights come from a fold whose training     *)
(* ended before it, and a day on which the strategy rebalances is never    *)
(* lost between folds.                                                     *)
EachDayTestedOnce ==
  Tested =>
    \A d \in InSampleDays : d >= TestStart(1) =>
      LET by == {i \in DOMAIN folds : d \in folds[i].test}
      IN  /\ by = {} => d = Max(InSampleDays) /\ Missing(d - 1)
          /\ \A i, j \in by : i < j =>
               \/ d = TestEnd(i) /\ d = TestStart(j)
               \/ TestStart(j) % Year = LeapDay /\ TestEnd(i) = TestStart(j) + 1
          /\ by # {} /\ d \in strategy.rebalances => d \in DOMAIN weights
          /\ d \in DOMAIN weights =>
               weights[d].fold \in by /\ Max(folds[weights[d].fold].train) < d

(* Whatever the order in which the pool's threads finish, report i is that *)
(* of fold i, and reads no price after that fold's test but the haircut's. *)
FoldReportsInOrder ==
  pc \in {"full", "holdout", "stress", "haircut", "done"} =>
    /\ Len(reports) = Len(folds)
    /\ \A i \in DOMAIN folds :
         /\ <<reports[i].from, reports[i].to>> = <<TestStart(i), TestEnd(i)>>
         /\ reports[i].scaled = 0 => \A d \in reports[i].ratios : d <= TestEnd(i)
         /\ reports[i].scaled = inSample.scaled

(* The tuned configuration and the search agree on what a strategy earns:  *)
(* _in_sample_objective compounds the test days only, the evaluation takes *)
(* the end of an equity curve that began with the first day of the data,   *)
(* and both depend on the same days.                                       *)
ObjectiveAgrees == Kept /\ inSample.scaled = 0 => Objective = inSample.ratios

(* An evaluation ends with a report, a prescreen rejection or an error:    *)
(* a fold that fails in the pool does not leave it waiting.                *)
EvaluationEnds == <>(pc \in {"done", "rejected", "failed"})
=============================================================================
