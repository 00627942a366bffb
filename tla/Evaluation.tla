----------------------------- MODULE Evaluation -----------------------------
(***************************************************************************)
(* One call of evaluate_strategy_detailed (evaluator/evaluate.py): the     *)
(* split of the trading days, the walk-forward folds, the strategy's       *)
(* weights, the pooled backtest, the prescreen, the fold reports of the    *)
(* thread pool, the holdout, the stress regimes and the haircut.           *)
(*                                                                         *)
(* Days are numbers, and every year takes Year of them: a year without a   *)
(* 29 February leaves that number out.  A number computed                  *)
(* from prices is abstracted to the set of days whose prices it depends    *)
(* on: that is what tells a sound backtest from one that sees the future.  *)
(* A strategy is the days it rebalances on, whether it also does on the    *)
(* last day it is shown (the end of an unfinished month), and the prices a *)
(* day's weights depend on: those of its memory, or all that it is shown.  *)
(*                                                                         *)
(* Tickers, price download and the evaluation cache are PriceCache's and   *)
(* CandidateBatch's; the gates are Gate's.                                 *)
(***************************************************************************)
EXTENDS Ranks, Integers, Sequences, FiniteSets, FiniteSetsExt

CONSTANTS
  Calendars,    \* the sets of trading days the price table may have
  Year,         \* numbers a year takes, 366
  LeapDay,      \* the place of 29 February among them
  LeapYears,    \* the years that have one
  TrainYears, TestYears, HoldoutYears,
  Strategies,   \* records of the fields below
  Regimes,      \* the crash regimes, as [from, to]
  MaxWorkers,   \* of the thread pool, 4 in the code
  Lookback,     \* trading days of the benchmark's rolling return, 252 in the code
  Prescreen     \* settings.enable_cheap_prescreen

ASSUME EvaluationAssumption ==
  /\ Calendars \subseteq SUBSET Nat
  /\ \A c \in Calendars : IsFiniteSet(c) /\ c # {}
  /\ Year \in Nat /\ Year > 3 /\ LeapDay \in 1 .. Year - 2 /\ LeapYears \subseteq Nat
  /\ \A c \in Calendars : \A d \in c : d % Year = LeapDay => d \div Year \in LeapYears
  /\ TrainYears \in Nat \ {0} /\ TestYears \in Nat \ {0}
  /\ HoldoutYears \in Nat
  /\ \A s \in Strategies :
       /\ DOMAIN s = {"honest", "adaptive", "memory", "rebalances", "last"}
       /\ s.honest \in BOOLEAN /\ s.adaptive \in BOOLEAN /\ s.memory \in Nat
       /\ s.rebalances \subseteq Nat /\ s.last \in BOOLEAN
  /\ Regimes \subseteq [from : Nat, to : Nat]
  /\ MaxWorkers \in Nat \ {0} /\ Lookback \in Nat \ {0} /\ Prescreen \in BOOLEAN

VARIABLES
  days,       \* prices.index
  strategy,
  pc,
  folds,      \* wf_windows
  weights,    \* wf_weights: for each rebalanced test day its fold and reads
  pooled,     \* wf_net_returns: for each day the reads of its position and its net return
  inSample,   \* in_sample_metrics
  tasks,      \* the folds' tasks in the pool
  reports,    \* wf_reports, by fold
  full,       \* the weights of the whole period
  holdout,    \* holdout_report
  regime      \* the regimes' verdict and the days it depends on

inputs == <<days, strategy>>
poolVars == <<tasks, reports>>
vars   == <<inputs, pc, folds, weights, pooled, inSample, poolVars, full, holdout, regime>>

-----------------------------------------------------------------------------
(* The calendar *)

Within(from, to) == {d \in days : from <= d /\ d <= to}

\* A 29 February of a year that has none
Missing(d) == d % Year = LeapDay /\ d \div Year \notin LeapYears

\* pd.DateOffset(years=k): a 29 February becomes the 28th where it is missing.
YearsLater(d, k) ==
  LET moved == d + k * Year IN IF Missing(moved) THEN moved - 1 ELSE moved

DayAfter(d) == IF Missing(d + 1) THEN d + 2 ELSE d + 1

Cutoff == YearsLater(Max(days), - HoldoutYears)

\* partition_holdout_data
InSampleDays == LET cutoff == Cutoff IN {d \in days : d < cutoff}

HoldoutDays == LET cutoff == Cutoff IN {d \in days : d >= cutoff}

TrainEnd(start) == YearsLater(start, TrainYears)

\* The test's days, its last one inclusive
From(start) == DayAfter(TrainEnd(start))

To(start) == YearsLater(From(start), TestYears)

SlipWholeTestsOnly(start) ==
  [train |-> Within(start, TrainEnd(start)) \cap InSampleDays,
   test  |-> IF To(start) > Max(InSampleDays) THEN {}
             ELSE Within(From(start), To(start)) \cap InSampleDays]

\* The fold that starts training on a day
Fold(start) ==
  [train |-> Within(start, TrainEnd(start)) \cap InSampleDays,
   test  |-> IF From(start) < Max(InSampleDays)
               THEN Within(From(start), To(start)) \cap InSampleDays
               ELSE {}]

\* The loop's start after k steps of a year: once a 29 February is missing, the
\* 28th it becomes stays.
Start(k) ==
  LET first == Min(InSampleDays)
  IN  IF \E j \in 1 .. k : Missing(first + j * Year)
        THEN first + k * Year - 1 ELSE first + k * Year

\* The first days of the folds' training
Starts ==
  LET first == Min(InSampleDays)
      last  == Max(InSampleDays)
  IN  IF InSampleDays = {} THEN {}
      ELSE {s \in {Start(k) : k \in 0 .. last - first} :
              TrainEnd(s) < last /\ Fold(s).train # {} /\ Fold(s).test # {}}

Window(f) == [train |-> f.train, test |-> f.test, from |-> Min(f.test), to |-> Max(f.test)]

\* The loop appends the folds in the order of their first days.
Folds == [i \in 1 .. Cardinality(Starts) |-> Window(Fold(Nth(Starts, i)))]

TestStart(i) == folds[i].from

TestEnd(i) == folds[i].to

-----------------------------------------------------------------------------
(* Signals and backtests *)

\* What the strategy's weights for day d depend on, given prices to look at
Seen(prices, d) ==
  IF strategy.honest THEN {e \in prices : d - strategy.memory <= e /\ e <= d} ELSE prices

\* The prices a fold's signals are computed from
Shown(i) == Within(0, TestEnd(i))

\* The days it gives weights for
Given(prices) ==
  (strategy.rebalances \cap prices) \cup (IF strategy.last THEN {Max(prices)} ELSE {})

SlipBackfilled(w, d) ==
  LET given == {e \in DOMAIN w : e <= d}
  IN  IF given # {} THEN w[Max(given)]
      ELSE IF DOMAIN w = {} THEN {} ELSE w[Min(DOMAIN w)]

\* ffill: the latest weights given for a day of the window or an earlier one
Held(w, d) ==
  LET given == {e \in DOMAIN w : e <= d} IN IF given = {} THEN {} ELSE w[Max(given)]

Before(window, d) == {e \in window : e < d}

SlipUnshifted(w, window, d) == Held(w, d)

\* shift(1): the position of day d was decided on the window's day before
Position(w, window, d) ==
  IF Before(window, d) = {} THEN {} ELSE Held(w, Max(Before(window, d)))

\* A day's asset return compares its price with the day before's.
AssetReturn(d) == {d} \cup (IF Before(days, d) = {} THEN {} ELSE {Max(Before(days, d))})

\* run_vectorized_backtest and calculate_turnover_and_costs: a held position
\* earns the day's return, and the day's trades into its new weights cost, more
\* after volatile days when the slippage is adaptive.
NetReturn(w, window, d) ==
  LET held == Position(w, window, d)
      new  == Held(w, d)
      past == Before(window, d) \cup {d}
  IN  held \cup new \cup (IF held = {} THEN {} ELSE AssetReturn(d))
        \cup (IF strategy.adaptive /\ new # {} THEN past \cup AssetReturn(Min(past)) ELSE {})

Restricted(w, window) == [d \in DOMAIN w \cap window |-> w[d]]

Report(from, to, ratios, turnover) ==
  [from |-> from, to |-> to, ratios |-> ratios, turnover |-> turnover, scaled |-> 0]

NoReport == Report(0, 0, {}, {})

\* generate_window_report, which sees the window's prices and weights only
WindowReport(w, window) ==
  LET own   == Restricted(w, window)
      reads == UNION {NetReturn(own, window, d) : d \in window}
  IN  Report(Min(window), Max(window), reads, reads)

FoldReads == [d \in DOMAIN weights |-> weights[d].reads]

\* _in_sample_objective, which numeric optimisation calls
Objective ==
  IF folds = << >> THEN {}
  ELSE LET w == FoldReads
       IN  UNION {NetReturn(w, days, d) : d \in Within(TestStart(1), TestEnd(Len(folds)))}

-----------------------------------------------------------------------------
Init ==
  /\ days \in Calendars /\ strategy \in Strategies
  /\ pc = "load" /\ folds = << >> /\ weights = << >> /\ pooled = << >>
  /\ inSample = NoReport /\ tasks = << >> /\ reports = << >>
  /\ full = << >> /\ holdout = NoReport /\ regime = [reads |-> {}, passed |-> FALSE]

Fails ==
  /\ pc' = "failed"
  /\ UNCHANGED <<inputs, folds, weights, pooled, inSample, poolVars, full, holdout, regime>>

\* A missing ticker or benchmark
LoadFails == pc = "load" /\ Fails

NoFolds == InSampleDays = {} \/ HoldoutDays = {} \/ Folds = << >>

TooShort == pc = "load" /\ NoFolds /\ Fails

Partition ==
  /\ pc = "load" /\ ~ NoFolds
  /\ folds' = Folds
  /\ pc' = "signals"
  /\ UNCHANGED <<inputs, weights, pooled, inSample, poolVars, full, holdout, regime>>

\* A computation outside the pool raises, and nothing catches it: validate_output
\* refuses the weights of a fold or of the whole period, or a backtest or a report
\* fails.
Raises == pc \in {"signals", "full", "holdout", "stress", "haircut"} /\ Fails

\* duplicated(keep="first"): a day two folds test keeps the earlier weights.
Splice(i) ==
  LET given == Given(Shown(i)) \cap Within(TestStart(i), TestEnd(i))
  IN  [d \in DOMAIN weights \cup given |->
         IF d \in DOMAIN weights THEN weights[d] ELSE [fold |-> i, reads |-> Seen(Shown(i), d)]]

\* _generate_wf_weights: the folds one after the other
FoldSignals(i) ==
  /\ pc = "signals" /\ i = Len(tasks) + 1 /\ i <= Len(folds)
  /\ weights' = Splice(i)
  /\ tasks' = Append(tasks, "queued") /\ reports' = Append(reports, NoReport)
  /\ UNCHANGED <<inputs, pc, folds, pooled, inSample, full, holdout, regime>>

\* The pooled backtest runs over every day and keeps the test period's returns;
\* its equity is that of all the days before, its turnover that of all days.
RunBacktest ==
  LET w    == FoldReads
      net  == [d \in days |-> NetReturn(w, days, d)]
      from == TestStart(1)
      to   == TestEnd(Len(folds))
  IN  /\ pc = "signals" /\ Len(tasks) = Len(folds)
      /\ pooled' = [d \in Within(from, to) |->
                      [held |-> Position(w, days, d), net |-> net[d]]]
      /\ inSample' = Report(from, to, UNION {net[d] : d \in Within(0, to)},
                            UNION {net[d] : d \in days})
      /\ pc' = IF Prescreen THEN "prescreen" ELSE "pool"
      /\ UNCHANGED <<inputs, folds, weights, poolVars, full, holdout, regime>>

\* The Sharpe ratio and the return are compared with floors.
PassPrescreen ==
  /\ pc = "prescreen" /\ pc' = "pool"
  /\ UNCHANGED <<inputs, folds, weights, pooled, inSample, poolVars, full, holdout, regime>>

\* The report of a rejected strategy has no folds, no holdout and no returns.
RejectEarly ==
  /\ pc = "prescreen" /\ pc' = "rejected"
  /\ pooled' = << >> /\ reports' = << >>
  /\ UNCHANGED <<inputs, folds, weights, inSample, tasks, full, holdout, regime>>

-----------------------------------------------------------------------------
(* _run_walk_forward_windows: a thread pool, its results by fold *)

Running == {i \in DOMAIN tasks : tasks[i] = "running"}

Waiting == {i \in DOMAIN tasks : tasks[i] = "queued"}

SlipAllSucceeded == \A i \in DOMAIN tasks : tasks[i] = "done"

AllDone == Running \cup Waiting = {}

SlipOneMore == Cardinality(Running) <= MaxWorkers

WorkerFree == Cardinality(Running) < MaxWorkers

StartFold(i) ==
  /\ pc = "pool" /\ i \in Waiting /\ i = Min(Waiting)
  /\ WorkerFree
  /\ tasks' = [tasks EXCEPT ![i] = "running"]
  /\ UNCHANGED <<inputs, pc, folds, weights, pooled, inSample, reports, full, holdout, regime>>

SlipAsCompleted(i) == 1 + Cardinality({j \in DOMAIN tasks : tasks[j] = "done"})

\* future_map: the fold a future was submitted for
Slot(i) == i

FinishFold(i) ==
  /\ pc = "pool" /\ i \in Running
  /\ tasks' = [tasks EXCEPT ![i] = "done"]
  /\ reports' = [reports EXCEPT ![Slot(i)] =
                   WindowReport(FoldReads, Within(TestStart(i), TestEnd(i)))]
  /\ UNCHANGED <<inputs, pc, folds, weights, pooled, inSample, full, holdout, regime>>

FoldFails(i) ==
  /\ pc = "pool" /\ i \in Running
  /\ tasks' = [tasks EXCEPT ![i] = "failed"]
  /\ UNCHANGED <<inputs, pc, folds, weights, pooled, inSample, reports, full, holdout, regime>>

Broken == \E i \in DOMAIN tasks : tasks[i] = "failed"

\* The executor waits for every fold before a failure is raised.
CloseWithFailure == pc = "pool" /\ AllDone /\ Broken /\ Fails

Close ==
  /\ pc = "pool" /\ AllDone /\ ~ Broken
  /\ pc' = "full"
  /\ UNCHANGED <<inputs, folds, weights, pooled, inSample, poolVars, full, holdout, regime>>

-----------------------------------------------------------------------------
(* The whole period, the holdout and the stress tests *)

FullSignals ==
  /\ pc = "full"
  /\ full' = [d \in Given(days) |-> Seen(days, d)]
  /\ pc' = "holdout"
  /\ UNCHANGED <<inputs, folds, weights, pooled, inSample, poolVars, holdout, regime>>

\* The holdout starts without a position: its weights are cut to its days.
ReportHoldout ==
  /\ pc = "holdout"
  /\ holdout' = WindowReport(full, HoldoutDays)
  /\ pc' = "stress"
  /\ UNCHANGED <<inputs, folds, weights, pooled, inSample, poolVars, full, regime>>

Crash == {d \in days : \E r \in Regimes : r.from <= d /\ d <= r.to}

\* evaluate_stress_regimes, over all days; without an overlap it fails.
Stress ==
  /\ pc = "stress"
  /\ \E passed \in BOOLEAN :
       regime' = [reads |-> UNION {NetReturn(full, days, d) : d \in Crash},
                  passed |-> passed /\ Crash # {}]
  /\ pc' = "haircut"
  /\ UNCHANGED <<inputs, folds, weights, pooled, inSample, poolVars, full, holdout>>

SlipWholeHistory == days

\* .loc[:launch_date] of the rolling returns, which begin after Lookback days
BenchmarkHistory == LET launch == Min(HoldoutDays) IN {d \in days : d <= launch}

Scaled(report) ==
  [report EXCEPT !.ratios = @ \cup BenchmarkHistory, !.scaled = @ + 1]

\* calculate_regime_haircut is positive only after an unusually good year.
ApplyHaircut ==
  /\ pc = "haircut"
  /\ Cardinality(BenchmarkHistory) > Lookback + 1
  /\ inSample' = Scaled(inSample) /\ holdout' = Scaled(holdout)
  /\ reports' = [i \in DOMAIN reports |-> Scaled(reports[i])]
  /\ pc' = "done"
  /\ UNCHANGED <<inputs, folds, weights, pooled, tasks, full, regime>>

NoHaircut ==
  /\ pc = "haircut" /\ pc' = "done"
  /\ UNCHANGED <<inputs, folds, weights, pooled, inSample, poolVars, full, holdout, regime>>

-----------------------------------------------------------------------------
Prepare == LoadFails \/ TooShort \/ Partition

Signals == \E i \in DOMAIN folds : FoldSignals(i)

Pool ==
  \/ \E i \in DOMAIN reports : StartFold(i) \/ FoldFails(i) \/ FinishFold(i)
  \/ CloseWithFailure \/ Close

Conclude == FullSignals \/ ReportHoldout \/ Stress \/ ApplyHaircut \/ NoHaircut

Next == Prepare \/ Raises \/ Signals \/ RunBacktest \/ PassPrescreen \/ RejectEarly \/ Pool \/ Conclude

Spec == Init /\ [][Next]_vars

\* Signals and backtests are computations that end.
FairSpec == Spec /\ WF_vars(Next)
=============================================================================
