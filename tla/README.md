# A formal model of autobacktest

autobacktest lets a language model rewrite a trading strategy, backtests every
rewrite, and commits the ones that pass statistical gates to a git branch.  This
directory holds TLA+ specifications of the parts of the program whose
correctness depends on order, failure or concurrency, the TLC configurations
that check them on small instances, and proofs that TLAPS checks.

Paths below are relative to `src/src/autobacktest/` unless they start with
`docs/` or `tests/`.

## The system

| component | state it keeps | operations | what makes it correct |
|---|---|---|---|
| optimisation loop (`orchestrator.py`) | incumbent (report, returns, ledger id), mode, exploit stall, failure counters, holdout budget, early stop | setup / resume, prepare, generate, evaluate, select, confirm, optimise, commit, record, summarise | ledger, branch, files and incumbent tell one story at every point a session can be cut short; budget and mode follow the recorded outcomes |
| attempt ledger (`ledger/store.py`) | SQLite rows of every evaluated candidate | `record_attempt`, `mark_committed`, history queries | append-only, one winner per iteration, a committed row names a commit with its content |
| git ledger (`ledger/git_ops.py`) | branch, index, working tree of two files | create branch, `git add` + `git commit`, rollback | one commit per accepted candidate, both files of it |
| event log (`ledger/event_log.py`) | JSON lines | append | one record at the end of each completed iteration (and one for each jitter that found nothing apart, which the loop never reads) |
| gates (`gate.py`) | none | `select`, `confirm` | a candidate that is worse, too risky or not a number is rejected |
| candidate pipeline (`optimization/candidate.py`) | token and cost totals | generate in parallel, repair, preflight | every candidate is accounted for once |
| evaluation (`evaluator/`, `optimization/eval_manager.py`) | LRU cache shared by the evaluator threads | backtest, battery of tests, memoisation | a cached result is the result of the same code, config and data |
| price cache (`data/cache.py`) | per ticker a parquet file and a JSON file with its covered range | `get_prices`: hit, suffix, prefix or full fetch | no row lost, covered range never wider than the rows but where the provider was asked, no needless download |
| numeric optimisation (`optimization/param_search.py`) | none | Optuna search over a winner's numeric parameters | a tuned configuration earns its place like any other |
| deflation (`optimization/persistence.py`, `evaluator/deflated_sharpe.py`, `evaluator/cscv.py`) | none | deflated Sharpe ratio and probability of overfitting, from the trials on record | candidate and incumbent are judged by the same trials, and never by themselves |
| lesson store (`lessons/store.py`) | SQLite rows keyed by a hash | ingest, filtered selection | no duplicates, newest lessons within a size bound |
| diversity, jitter, importance (`strategy/`) | none | similarity of configs and returns, perturbation | duplicates rejected, a perturbed config stays valid |
| strategy validation (`strategy/`) | none | AST linter, codemods, sandbox subprocess | generated code runs only after every check |
| LLM providers (`llm/`) | temperature | one call per candidate, retries | an error of one call costs one candidate |
| command line, reports (`cli.py`, `commands/`, `reports/`) | none | run, resume, reset, evaluate, report | wiring |

The loop calls everything else.  Each iteration asks the provider for N
candidates in a thread pool, validates and guards them one by one, evaluates the
survivors in a second thread pool (which share the evaluation cache and the price
cache files), and from then on is single-threaded: deflation and the select gate
read the ledger's history, the best survivor is confirmed on the holdout, and a
winner is written to the working tree, the ledger, the git index, the branch and
the ledger again, in that order.  The process can be killed, interrupted or
thrown out of this at any point, and `--resume` starts a new session from what
the ledger and the branch hold.

The hard behaviours are therefore: a crash between any two durable writes; what a
resumed session believes; counters and modes over long sequences of iterations;
the holdout budget, which is derived from rows written later than the call they
count; ratios that age while trials accumulate; candidates that are rewritten by
codemod, repair, jitter and tuning after they were checked; which prices a number
depends on; and threads that share the evaluation cache and the price files.
`PROJECT.json` lists each hazard with its line and the properties that cover it.

## Modules

| module | role |
|---|---|
| `OptimizationRun` | the loop, ledger, event log and git branch of one run, over sessions and faults |
| `RunHistory` | the abstract specification: what a reader of the finished branch and ledger may rely on |
| `RunProperties` | the loop's properties, and the refinement mapping to `RunHistory` |
| `Gate` | `select`, `confirm` and `accept` as operators over ordered values, NaN and infinity |
| `Deflation` | the deflated Sharpe ratio and the probability of overfitting as operators over the trials on record |
| `Selection` | from evaluated candidates to rows, incumbent and feedback; uses `Gate` and `Deflation` |
| `SelectionProperties` | its properties |
| `Lessons` | the lesson store as operators |
| `CandidateBatch` | from the language model's answers to evaluated candidates; uses `Lessons` |
| `Ranks` | the elements of a set by rank and those of a sequence at a set of positions, for loops that filter in order |
| `BatchProperties` | its properties |
| `Evaluation`, `EvaluationProperties` | one call of `evaluate_strategy_detailed`, and its properties |
| `PriceCache`, `PriceCacheProperties` | the price cache of one ticker with concurrent requests and a provider, and its properties |
| `MCOptimizationRun`, `MCSelection`, `MCCandidateBatch`, `MCEvaluation`, `MCPriceCache` | constants for TLC |
| `OptimizationRunProofs`, `LoopProofs` | theorems about the loop |
| `SelectionProofs`, `SelectionHistoryProofs` | theorems about the selection |
| `BatchProofs` | theorems about the candidate batch |
| `EvaluationProofs` | theorems about one evaluation |
| `PriceCacheProofs` | theorems about the price cache |
| `Extrema` | facts about `Min`, `Max`, ranks and folds over finite sets that the proofs share |

An iteration is `CandidateBatch` (answers to reports), in which each backtest is
an `Evaluation`, whose prices come through `PriceCache`; then `Selection` (reports
to a winner, rows and feedback); and `OptimizationRun` is the loop around it, with
the winner written step by step.  Each module keeps what the next one up leaves
open as a free choice: `OptimizationRun` lets any verdict happen, `Selection` any
batch, `CandidateBatch` any outcome of a backtest.  A property of one level
therefore holds whatever the level below decides.

### OptimizationRun

* An *edit* is one candidate's pair of files.  Working tree, index and each commit
  record which edit the strategy file and the config file come from, because the
  two are written one after the other.
* `attempts` are the ledger's rows (iteration, edit, dataset hash, accepted,
  committed, commit, holdout series present); `events` the event log; `branch`
  the run's commits.  These survive a session.  Everything else is the process:
  `pc`, the loop counter `k`, the incumbent, mode and counters, and the
  candidates of the iteration.
* `Start` / `Resume` / `SetupBaseline` are `setup()`.  `SelectCandidates` is
  everything from `prepare_iteration` to the ranking of the select-passers: the
  verdicts are free choices, but the guards that compare a candidate with the
  files on disk or with the ledger are kept (`Evaluable`, `Selectable`).  In exploit
  mode the guard asks for a similarity of 0.999 with the configuration on disk, which
  a configuration does not always have with itself: `Recognised` is the set of edits
  whose configuration does.
  `RefusePeek`, `ConfirmAccepts` and `ConfirmRejects` are `_run_confirm_phase`;
  `OptimizeWinner` is `_optimize_winner_params`, including its second, uncounted
  call of `confirm`.
* `WriteStrategy`, `WriteConfig`, `RecordWinner`, `GitAdd`, `GitCommit`,
  `MarkCommitted` are the steps of `commit_winner`, one per durable write, and
  `CommitFails` its `except` clause.  `RecordFinalist`, `RecordLoser` are
  `record_candidates`, `FinishIteration` the summary, the event and the early-stop
  check, `FinishRun` the end of `run_optimization`.
* `Abort` is a kill, an exception outside `commit_winner`, or Ctrl-C, at any point.

### Gate, Deflation and Selection

* A metric is an integer (hundredths, per cent), `NaN`, `Inf` or, for the optional
  ratios, `None`; an operator stands for what Python's comparison, clamp or
  subtraction makes of each.  `HardChecks`, `SoftChecks` and `ConfirmChecks` are the
  lists of checks with their verdicts, in the code's order: the first failing one
  names the reason.  Every edit brings the limits of its own configuration, as the
  code reads them.
* An edit determines its backtest (`Outcome`, `HoldoutSharpe`, `Series`, `Family`).
  `Rows` and `PeekedRows` are the queries that decide which rows are trials, the
  `exclude` argument included, and `Joined` puts the candidate's own column behind
  theirs.
* `EffectiveTrials` counts clusters, `ExpectedMaximum` is the deviation of the trials'
  Sharpe ratios times the expected maximum of so many normal ones, and `DeflatedRatio`
  the normal distribution function of the excess over it, weighed by the precision that
  length, skew and kurtosis give the series.  `Overfitting` ranks the trials inside and
  outside of every split, as `deflate_selection` does anew for each candidate.  Integers
  stand for the floats: Sharpe ratios and probabilities are hundredths.  Given with the
  edit are its cluster, its precision and its Sharpe ratios on the halves of a split;
  the program derives the clusters from all series together, and cuts the series to
  their common days before it splits them, so a longer history could change these data,
  which the tables do not follow.
* `Comparable` are the rows whose series overlaps a candidate's for at least 60 days and
  correlates with it by a number; the novelty check passes over the others.
* `JudgeCandidate` renews the incumbent's deflated ratio and runs `select` and the
  correlation check for one candidate; `Top` is the stable sort with the diversity
  penalty; `RefusePeek`, `ConfirmTop`, `Tune`, `KeepWinner`, `Commit`, `Record`
  follow the code.  `lastAttempt` and `lastFailures` are the two fields the next
  prompt is built from, and `Told` everything it says of failures.  `BestFailure` is
  the first candidate of the first stage of `Priority` that rejected one, `Failures`
  the rejected candidates in their order (`Picked`).

### CandidateBatch and Lessons

* Files are pairs of a code and a configuration, both model values; tables give
  what codemod makes of a code, which files preflight accepts, which may time out,
  how similar two configurations are, and what jitter may try.  The similarity also
  depends on all that the candidate is compared with, because `max_config_similarity`
  scales numbers of unknown range to the range they have there, and two equal
  configurations need not be similar (`bare` in the instance).
* `Generate` is the parallel calls: a refused call ends the run, a transient
  failure costs its candidate.  `ProcessEdit`, `Repair`, `RepairFails`,
  `RepairRefused` are `process_and_repair_candidate` with its rounds, `Settle` its
  tail; lessons are ingested from the first answer only.  `KeepConfig`, `Jitter`,
  `CheckExploit`, `CheckBehaviour` are the guards, in one loop over the batch each,
  as in the code.
* `Submit`, `StartEvaluation`, `FinishEvaluation`, `FinishBatch` are the thread pool:
  a thread looks its key up under the lock, and inserts its result under the lock
  when the backtest has ended, so two threads can miss on one key.  A report is the
  files it was computed for and the object that holds it, because deflation
  changes reports in place (`dirty`).
* `Conclude` stands for what `Selection` does to a batch; the rows of the evaluated
  candidates follow the winner's in their order (`Picked`).

### Evaluation

Days are numbers, as many in every year; one of them is 29 February, and a year
without that day leaves its number out (`Missing`).  `YearsLater` is
`pd.DateOffset(years=...)`, which turns a 29 February into the 28th where it is
missing.  A number computed from prices is abstracted to the *set of days
whose prices it depends on*, which is what separates a sound backtest from one
that sees the future.  A strategy is the days it rebalances on, whether its costs
use the adaptive slippage, and what its weights for a day read: the days of its
memory, or, for a dishonest one, all it was shown.  `Partition` is the holdout split
and the folds: `Start(k)` is the loop's start after k steps of a year, which stays on
28 February once a 29th was missing; `Starts` are those it keeps, and fold i starts
on the i-th of them.  `FoldSignals` the
weights of a fold spliced into `wf_weights`, `RunBacktest` the pooled backtest,
`PassPrescreen` / `RejectEarly` the prescreen, `StartFold`, `FinishFold`,
`FoldFails`, `CloseWithFailure`, `Close` the thread pool of the fold reports,
`FullSignals`, `ReportHoldout`, `Stress`, `ApplyHaircut` / `NoHaircut` the rest.
The strategy's own code is external.

### PriceCache

One ticker; a row is its day.  A request reads the parquet file, then the
metadata, decides between hit, suffix, prefix and full fetch, asks the provider,
writes the parquet file, then the metadata: one action each, so that requests of
the worker threads interleave between them.  All requests of a command ask for
the same window, as they do in the program; `NewCommand` changes it.  Fetch
failures, a lost metadata write, a crash at any step, the expiry of
confirmed-empty metadata and a damaged parquet file are actions.  The provider is
external (`yf.download`), and its end day is exclusive.  Trading days of the calendar
and days with a price are independent sets.  The history variable `seams` collects
the days at which a request extends the covered range without asking for them: days
`is_trading_day` refuses, the excluded end of a prefix, and the window's end when
the answer is empty.  The variable `broken` records that one of two things has
happened which the code does not survive: an update overlapped another request, or
the rows of a damaged file were replaced and the metadata write after it was lost.

### Slips

An operator named `Slip...` stands before the definition it resembles and
differs from it as a plausible bug would.  No specification uses one; replacing
the definition by it makes the property named in `PROJECT.json` fail, which shows
that the property depends on that piece of code.

## What is checked

### Runs that pass

`run_faults` (three edits, one universe, three iterations, two sessions, two
faults, one configuration not recognised; about 770 000 states):

* `LedgerMatchesBranch` – a row marked committed names a commit on the branch
  that holds exactly that row's two files, and every commit the ledger does not
  acknowledge has cost a fault.
* `OneWinnerPerIteration` – no two accepted rows of one iteration, also when a
  session was cut short and its iteration run again by another.
* `StoresAgree` – outside a commit, HEAD, index, both files and the incumbent in
  memory are one edit, and the incumbent's row is the newest committed one.  It is
  stated for the first session and for a resumed one that has committed, because
  a resumed session may start with the wrong incumbent (see the findings) and with
  the mixed files of a killed commit; what it makes of these until its first commit is
  not covered.
* `RepeatsOnlyUnrecognised` – although commits are made with `--allow-empty`, the guards
  on candidates keep a first session from committing again what the branch holds, but
  for a configuration that the similarity does not recognise, and then only while the
  session still exploits the win it repeats.
* `PeekBudgetKept` – the calls of `confirm` stay within `holdout_peek_limit`, up
  to one per fault that struck before the row was written; for one universe and no
  numeric optimisation, because the code does not count those (see below).
* `LedgerOnlyGrows` – rows are appended in iteration order and only changed by the
  one mark of an accepted row.
* `ImplementsHistory` – the run implements `RunHistory`: `reached` is the highest
  iteration in the ledger, `wins` the iterations of the branch's commits,
  `certified` those the ledger marks.

`run_modes` (five iterations, budget 5, patience 4, stuck threshold 3, exploit
patience 2, numeric optimisation on, no faults; about 353 000 states):

* `StopsExactlyWhenDue` – the loop goes on exactly while no event refused a peek
  and the last `early_stop_patience` events are not all failures.  The property is
  stated over the event log, not over the counters it checks.
* `ExploitAfterRecentWin` – an iteration runs in exploit mode exactly when the
  session has a win and fewer failures since than exploit patience and stuck
  threshold allow.
* `SessionsEnd` – a session that starts ends.

`selection` (eleven edits with their own limits, 22 batches of up to three, up to
three iterations after the baseline; about 258 000 states):

* `NeverWorseThanIncumbent` – the incumbent is only replaced by an edit that,
  deflated by the trials on record at the commit, keeps its limits and does not
  degrade the deflated ratios of the incumbent deflated by *the same* trials.  It
  holds for tuned configurations too.
* `NoDominatedChoice` – the holdout is never spent on a candidate when the batch has one
  that, as the select phase deflated the two, is at least as good in all `select` looks
  at and has a greater deflated Sharpe ratio and target metric: neither NaN arithmetic,
  the tradeoff of return against the ratio nor the ranking with its penalty turns such a
  pair around.  The return and the target metric of the two are numbers, drawdown,
  turnover and probability of overfitting need not be.  Nothing is claimed of the Sharpe
  ratios before deflation, whose order the deflated ones need not keep.
* `RowsHoldOneBacktest` – edit, report and holdout series of a row are of one
  backtest, a row holds a holdout series exactly when the holdout decided about
  it, and the incumbent is what its row says.
* `DuplicatesTakeNoPeek` – while a run explores, no return series of an earlier
  iteration, accepted or rejected, reaches the holdout again, unless the two overlap for
  fewer than 60 days or have no correlation (`Incomparable`), which the code passes over.
  Near copies below the threshold of the correlation are let through by design.
* `FeedbackIsCurrent` – after a commit the next prompt tells no failure, otherwise
  exactly those of the last iteration's rows, and nothing of the holdout that no
  recorded peek has paid for.

`batch` (six codes, five configurations, nine batches, two repair rounds, two
threads, a cache of two, two iterations; about 60 000 states):

* `EvaluatedWasValidated` – what is backtested passed preflight and is what a
  commit would write, after codemod, repair and jitter.
* `CacheTransparent` – a candidate's report was computed for its own code,
  comments aside, and configuration, in an object that no earlier deflation
  changed and no other candidate shares.
* `CostAccounted` – an iteration's cost is the number of calls charged (`Charged`,
  the pairs of a candidate and one of its calls): every call of a candidate that
  passed preflight; of one that stayed invalid the first only, as in the code.
* `JitteredStandsApart` – a jittered configuration is below the threshold against
  the recent ones and those that went on before it in its batch, measured among just
  these.
* `NoNoOpBacktested` – the incumbent's own files are backtested again only if comparing
  their behaviour timed out, or, in exploit mode, if their configuration is not similar
  to itself.
* `LessonsCurrent` – every prompt is built from the longest run of newest lessons
  that fits, without duplicates.
* `BatchSettles` – a batch reaches the gates or the run ends.

`evaluation` (39 calendars of leap and common years, which begin on 28 February, 29
February or 1 March, miss a day, and are too short for a fold or have up to four; 12
strategies; two pool threads; about 19 700 states):

* `SearchBlindToHoldout` – pooled returns, objective and in-sample ratios depend on
  no holdout price, but for the haircut's first day, even for a strategy that
  looks ahead.
* `NoLookahead` – an honest strategy's position rests on days before the one it
  earns; no test day's return depends on prices after its fold's test.
* `EachDayTestedOnce` – from the first test on every in-sample day is tested, with weights
  of a fold whose training ended before, but for a 1 March that ends the in-sample
  period after a missing 29 February; two folds share only the day where they meet, or a
  29 February and the day after it, where `DateOffset` moved the one and not the other.
* `FoldReportsInOrder` – report i is fold i's, whatever order the threads end in.
* `ObjectiveAgrees` – the search's objective and the evaluation depend on the same
  days, although one compounds the test days and the other reads an equity curve.
* `EvaluationEnds` – an evaluation ends with a report, a rejection or an error, also when
  folds fail while others run or wait.

`price_cache` (two readers, six days of which one precedes the listing, one is a weekday
on which the exchange was closed and one a federal holiday on which it was open; the
provider's end is exclusive; about 180 000 states):

* `AnswersComplete` – a request whose fetch succeeded returns every row of its window
  that the provider would have returned, whatever earlier commands asked for and
  whichever of their steps failed, but for days in `seams`, unless `broken`.
* `CoverageHonest` – the metadata never covers another day that has a price and no row,
  and the rows have no other gap.

What `seams` allows is what the code loses by extending a range without asking, and
`cache_gap` shows that it does lose it; that nothing *else* is lost, over any sequence of
windows, failures, crashes and expiries, is what the two properties say.

`run_faults`, `selection`, `batch`, `evaluation` and `price_cache` also check their
module's `TypeOK`.

### Runs that show a disagreement

| run | statement | what the code does |
|---|---|---|
| `resume_incumbent` | "latest accepted attempt" (`_resume_incumbent`) | the filter tests the columns iteration and accepted, so a rejected candidate becomes the incumbent |
| `rollback` | "Restore ... to HEAD" (`rollback_strategy`) | `git checkout --` restores the index, which already holds the winner when `git commit` fails |
| `peek_limit` | "Max holdout evaluations before early termination" | the budget is read under the candidate's dataset hash and rows are stored under the session's: a candidate that changes the universe is never counted |
| `cache_gap` | "fetching missing dates incrementally if necessary" (`get_prices`) | extending to earlier dates treats the provider's exclusive end as inclusive, and the day before the range is lost |
| `cache_race` | "Per-path locks for thread-safe cache writes" (`data/cache.py:29`), and the statement before | the locks cover single writes: a reader takes the rows from before another's update and the metadata from after it, and answers without the days fetched in between |
| `identical_guard` | "Reject candidates whose weights are identical to the incumbent" (`_check_identical_behavior`) | the incumbent's code is run with the candidate's configuration, so a candidate that changes only the configuration is always rejected |

Reading the code for the models showed more such disagreements; those without a
run are listed at the end.

### Bounds, and why they are enough

* `run_faults`: three edits, the baseline, one that differs and one more, so that a
  candidate can equal the incumbent, an earlier row, or neither.  Three iterations
  and two faults: a fault in one iteration, its consequences in the next two, and
  a second fault while the first is being recovered from.  A larger instance (three
  sessions, iteration arguments two and three, 3.7 million states) was run once
  without an error.  `MaxBatch`: two candidates reach the gates, a finalist and a
  loser; more losers only repeat `RecordLoser`.
* `run_modes` keeps the defaults' order (patience > stuck threshold > exploit
  patience) and has one iteration more than the patience, so every transition
  between modes and every reset happens before the early stop.
* `selection`: each edit makes one check decide (NaN and infinite metrics, loose
  limits, another universe, a duplicate series, a holdout failure, a tuning that
  earns its place and one that does not); three iterations let a row of the first be
  a trial, a duplicate or the incumbent of a later one; a budget of three is reached
  (the baseline's peek counts).  The edits' precisions differ, so that a greater Sharpe
  ratio can have the smaller deflated one; the series are split in two ways, enough for a probability of overfitting between none and one.  `Proposals` bounds the
  batches to the combinations in which one candidate affects another.
* `batch`: `Batches` pairs the answers so that each guard, repair outcome and cache
  event happens beside another candidate; a cache of two overflows within an
  iteration and hits in the next.
* `evaluation`: a year has four numbers, the second one is 29 February and every other
  year leaps, which keeps a training window of two years, a test of one and a holdout of
  one.  The calendars begin before, on and after the 29th and end at different places
  in a year, so the loop's start is moved to the 28th or not, windows meet on either side
  of the missing day, and the last fold is cut short; a day without trading lies in or
  beside the tests, or nowhere.  More folds repeat the middle one.
* `price_cache`: six days give the five windows a surprise inside, before or after them,
  and ranges that touch, nest and lie apart.  `CONSTRAINT Unbroken` stops at states
  where `broken` holds, of which no property of that run speaks; `cache_race` shows
  what happens there and has no such constraint.  The readers are symmetric, and no
  liveness property is checked with symmetry.
* Deadlock checking is off where the system stops by design (a run, a batch run, an
  evaluation); it is on for the price cache, which can always go on.

### Fairness

Three specifications state weak fairness, each of the steps of the program alone.
`OptimizationRun!FairSpec`: the single thread of the loop (`Program`); every call it
waits for ends, because LLM calls and sandboxed runs have timeouts and backtests
and git commands are finite.  Faults, sessions and resumes are not fair.
`CandidateBatch!FairSpec` and `Evaluation!FairSpec`: some step of the batch, or of
the evaluation, is taken while one is possible.  No step can be taken forever
without progress, so nothing stronger is needed, and no thread is assumed to be
fast.

## What is proved

The theorems hold for all values of the constants that satisfy the named
assumptions.  `PROJECT.json` lists the results; their lemmas are in the modules.

### The loop (`EditsAssumption`, `LimitsAssumption`)

`OptimizationRunProofs`: `TypeCorrect`, `OneWinner` (`[]OneWinnerPerIteration`),
`LedgerGrows` (`LedgerOnlyGrows`) and `Refinement` (`ImplementsHistory`) rest on
`Invariance`, `Spec => []Inv`.  One winner per iteration is not inductive by
itself: it needs that the row about to be written is of a newer iteration than
every accepted row (`RowsBelowIteration`), that this survives a resume
(`RowsInOrder`, and the lemma that the highest iteration is that of the newest
row), that a resume never skips the baseline (`BaselineFirst`), and that a winner
is at hand where one is recorded (`CandidateAtHand`).  `BranchInOrder` relates the
commits to the rows: `git commit` happens while its row is the newest, so it is a
`Win` of the iteration reached.

`LoopProofs`: `LedgerOnBranch` (`LedgerMatchesBranch`) and `StoresInStep`
(`StoresAgree`) follow from
`StoresInvariance`.  The stores disagree inside `commit_winner`, so the invariant
says for each of its steps what is written already (`Staging`); `RowsOnBranch` and
`CommitsOnRecord` bound what a fault leaves behind; `Untouched` says what the stores
are before the baseline is recorded; `IncumbentNewest` that memory follows the
branch.
`BudgetKept` (`PeekBudgetKept`) is proved for one universe, `Hashes = {u}`:
a call of `confirm` is counted by a row written later, so `PeeksRecorded` says that
it is on record, pending (`PendingPeek`), or lost to a fault.

In the same module `RepeatsExplained` (`RepeatsOnlyUnrecognised`) follows from these and
from `RepeatInv`: a candidate on its way to a commit differs from HEAD unless its
configuration is not recognised and the last win is recent (`ChangesFiles`), because a
session that exploits counts the iterations since its last win (`SinceWin`).

In the same module `StopsWhenDue` (`StopsExactlyWhenDue`) and `ExploitsRecentWins`
(`ExploitAfterRecentWin`) follow from `ModeInvariance`.  Its core is `Counted`: the
counter of failures is the number of events since the last acceptance, except
between a commit and the event that reports it; `ModeFollows` derives mode and
stall counter from it.

### The selection (`ValuesAssumption`, `RunAssumption`, `ReasonsAssumption`)

`SelectionProofs`: `IncumbentNeverWorse` (`NeverWorseThanIncumbent`) for every table
of outcomes, limits, series and hashes.  What makes it true is an invariant about
time: in the select phase the incumbent is deflated by the ledger as it is and
every candidate let through was judged against it (`JudgedFairly`), and no row is
written between that and the commit, so the winner has earned its place against
the same trials on the holdout too (`WinnerEarned`).  Types are carried through
deflation (`DeviationTyped`, `ExpectedMaximumTyped`, `DeflatedRatioTyped`,
`OverfittingTyped`), which is why `Extrema` is needed: `Max` and `Min` are `CHOOSE`s, and
its lemma `FiniteMax` proves without induction (from the smallest finite set that lacks a
greatest element) that they name elements.

`SelectionHistoryProofs`: `RowsStayTrue` (`RowsHoldOneBacktest`) and
`NoPeekForDuplicates` (`DuplicatesTakeNoPeek`).  What holds of rows is carried there
by the batch: `OneBacktest`, `ConfirmedCounted`, `IncumbentRecorded`, and for
duplicates `RowsDated` and `NoRepeat`.

`TypeCorrect` is there too, and `FeedbackCurrent` (`FeedbackIsCurrent`).  The feedback
is a list made in one step and read in a later iteration, while the ledger grows:
`Blamed` says what the candidates' reasons are when their rows are written,
`RowsSoFar` that the last rows are then those of the batch, and `ListsCurrent` that
until the next batch the told failures are the rejected ones among these rows.  Both
sides list the elements of a set by rank, one over positions of the batch and one
over rows of the ledger; `NthShifted` proves that shifting a set keeps the ranks.

`NoPeekForTheDominated` (`NoDominatedChoice`) compares two candidates, judged at
different moments, through every gate.  It claims nothing of how deflation orders them:
a greater Sharpe ratio may have the smaller deflated one, and domination is of the
deflated reports.  Both are deflated by the same rows, because none is written in the
select phase, and confirmation leaves the order as it is (`HoldoutLeavesOrder`);
`SelectConditions` spells out what passing `select` means for ordered values,
`BetterPasses` that it is monotone, tolerance and tradeoff of return included;
`TopUndominated` that the ranking then prefers the better one.  The invariant adds that
every candidate's verdict is the one of the rows on record (`JudgedAll`) and that at most
one has been confirmed (`OneConfirmed`).

### The candidate batch (`BatchAssumption`)

`BatchProofs`: `EvaluatedIsValidated` (`EvaluatedWasValidated`), `NoNoOp`
(`NoNoOpBacktested`), `CacheInvisible` (`CacheTransparent`), `JitteredApart`
(`JitteredStandsApart`), `TypeCorrect` (`TypeOK`), `CostIsAccounted`
(`CostAccounted`) and `LessonsAreCurrent` (`LessonsCurrent`), for any tables of codes, configurations, verdicts,
similarities and outcomes, any number of threads and any cache size.  They follow
from `Invariance`.  Every step rewrites one candidate, so the invariant is `SoundAt`,
about one candidate and its place: what is known of it depends on the phase and on
whether the phase has been past it (`Guarded`, `Unjittered`).  `TurnEnds` proves once
that a step which hands on the candidate properly keeps it, `AdvanceKeeps` and
`OthersKeep` that the others lose nothing; each action is then a few lines.
Cached entries carry what makes a hit harmless in their type (`EntrySet`), so
eviction and reordering keep it.  `JitteredApart` also needs that before the end of
the diversity check only a valid candidate has a stage that counts as having gone
on (`Undecided`), for jitter looks at valid ones only.

`TypeCorrect` is more than types: it needs `Bounds`, that failures are counted once an
iteration (`Iterations`), that a candidate is under repair only with rounds left
(`RoundsBounded`), that a hit and an insertion leave one entry per key and evict in
time (`CacheBounded`), and that no thread reports twice (`ReportsOnce`).
`CostIsAccounted` follows from `BillSound`: at every moment the cost is the size of
the bill of the candidates whose processing has ended (`Billed`), those after them
have paid for one edit or none (`Pending`), and the edit under repair carries the
cost of its rounds.  The bill is a set of pairs, so that the count of calls needs no
recursive sum: each turn adds the calls of one candidate (`BillGrows`), and the
guards and backtests that follow change the stage of candidates but not their calls.

`LessonsAreCurrent` is about two loops over sequences of any length, which the model
writes as folds.  `FoldExists` (in `Extrema`) shows, by the size of the sets, that the
recursion behind a fold over a finite set has a solution; then the claim is an
induction over the numbers in a set (`ReachesAll`).  After each round of the loop over
the rows, what it has taken is a run of the newest lessons within the limit, and once
it has stopped the run with one lesson more is too long (`TakenFrom`, `NextTaken`).
The size of a run is the number of its characters, again a set of pairs.

`NoNoOp` assumes nothing of the table of similarities, so it covers configurations that
are not similar to themselves, and the property names them.  `CacheInvisible` alone
assumes more than the tables' types: `ObjectsApart`, that codes are not numbers, so that
the names of two objects in the model differ when the objects do.

### The evaluation (`EvaluationAssumption`; `Unbroken` for two theorems)

`EvaluationProofs`: `TypeCorrect`, `SearchIsBlind` (`SearchBlindToHoldout`),
`ReportsInOrder` (`FoldReportsInOrder`) and `ObjectivesAgree` (`ObjectiveAgrees`) hold
for any calendar, any strategy, honest or not, any lengths of training, test and
holdout, and any number of threads.  `EvaluationInvariance` says for each phase what
has been computed so far and from which days: the folds are `Folds` (`FoldsMade`), a
rebalanced test day's weights are those of one fold that tests it and read no later
price (`WeightsSound`), pooled returns read what their position and their day allow
(`PooledSound`), the pool's tasks and reports belong together (`PoolSound`,
`ReportsSound`), and so on.  Folds are listed by the rank of their
first day, whose lemmas (`NthElement`, `NthUnique`) replace induction along the loop.

The calendar has a chain of lemmas of its own.  `Places` and `Lapse` say that of
neighbouring days at most one is a missing 29 February, `Moved` that a step of years
arrives on the day or the day before, `Ends` and `InOrder` that a fold's training, test
and end follow each other, and `Meet` how the end of one fold's test and the start of
the next one's can lie: on one day; the end a day after a start on 29 February; or the
end two days before a start, with the missing 29 February between them.  `StartSteps`
carries the loop's start, which may move to the 28th once, from one step to the next.

`NothingAhead` (`NoLookahead`) and `DaysTestedOnce` (`EachDayTestedOnce`) assume
`Unbroken`: neighbouring trading days of a calendar are never further apart than a
training period, two years in the program.  Without it they are false, and TLC shows
why on arbitrary sets of days: a fold whose training has no days is left out, and
its test days with it, and a gap that swallows a test leaves days to a later fold
whose window was computed first.  No exchange was ever closed that long.
`DaysTestedOnce` also assumes `TestYears = 1`: the windows step by one year whatever
the length of the test, so longer tests overlap; every caller passes one
(`evaluate.py:253`, `:421`, `param_search.py:119`).

### The price cache (`PriceCacheAssumption`)

`TypeCorrect`, `WholeAnswers` (`AnswersComplete`) and `HonestCoverage`
(`CoverageHonest`) hold for any calendar, any days with prices, any windows and any
number of threads, with the provider's end exclusive as it is.  The last two follow from
`CacheStaysSound`: as long as `broken` is false, no day that was asked for or will be
(`Sought`, the priced days outside `seams`) lies between the rows and the covered range
without a row (`Linked`); the files have this by `Honest`, a request on its way by
`Sound`, which says for each step what the request may rely on.  A fetch gains exactly
the days it lacks among those it asks for (`GainedLacking`), in the suffix, prefix and
full case alike; the others are in `seams` by then, which only grow (`SeamsGrow`).  As
long as `broken` is false no update overlaps another request (`Alone`).

### Only model-checked

Liveness (`SessionsEnd`, `BatchSettles`, `EvaluationEnds`): out of the prover's reach,
as is ENABLED.  Every other property that a passing run checks is a theorem, if with
the assumptions named above: `Hashes = {u}`, `ObjectsApart`, `Unbroken` and
`TestYears = 1`.  The library's induction theorems cannot be used, because they take an
operator as parameter; `LeastExists`, `ReachesAll` and `FoldExists` state what is needed
of them about sets.

## What is not modelled

* What is computed from one return series: Sharpe ratio, the precision its length, skew
  and kurtosis give it, its Sharpe ratio on a part of it, its cluster and correlations;
  bootstrap, SPA and Monte Carlo.  They are tables over which the theorems quantify;
  what deflation and the probability of overfitting make of them is modelled.
* Text: prompts, summaries, reports, the wording of reasons; lesson stages and the
  migration of old lesson files; temperature.
* How a verdict about a file comes about: the syntax-tree linter, the rewrites of
  codemod, the similarity of two configurations, the mutations of jitter and the
  Optuna search are tables.  Parameter importance is one of the sources of lessons.
* Command line, scaffolding, reset, report and evaluate commands; leaderboard and
  statistics queries; tickers other than one; two processes on one run directory.
* Prices the provider publishes late, and answers that lack days it has prices of.

## Other disagreements met while modelling

These have no run of their own: they are visible in the models or lie in parts
that are abstracted.

Loop and ledger
* `holdout_peek_limit` is not checked before the confirmation of a tuned
  configuration, and when that is rejected no row counts it.
* Resuming a finished run executes no iteration and ends with "Zero successful LLM
  calls"; `setup()` runs outside the `try` that restores the branch.
* The resumed incumbent's holdout ratio is stale until the first confirmation;
  the returns restored may belong to another row of its iteration.
* Candidates that passed `select` but were not the finalist are recorded without a
  reason; "exploit_no_change" is missing from the ranking of `_extract_best_failure`.
* Numbers of holdout failures reach the next prompt through `rejection_reason`,
  although `fetch_attempt_summaries` says that holdout values are not exposed.

Gates and jitter
* A candidate's own configuration supplies the gates' limits, so an edit can loosen
  them; `config_schema.py:25` says otherwise. `enable_holdout_confirmation` and the
  floor of the deflated ratio are never read.
* Jitter's list of excluded keys misses three parameters of the gates.
* The comment on infinite metrics in `gate.py` promises a rejection; they are capped.
  Docstrings say `>=` where the code rejects on `<=`.
* The ranking uses the compare metric of the baseline's configuration, and the
  incumbent is deflated with the candidate's settings.

Candidates and lessons
* "In exploit mode, returning the same config unchanged is always rejected"
  (`orchestrator.py:786`): the guard asks for a similarity of 0.999, but a configuration
  without a numeric field, or whose numbers are all custom parameters, is 0.65 similar to
  itself, and one with an empty list 0.925, because empty vectors and sets count as 0.5
  (`diversity.py:167`, `:201`, `:244`).  The configuration `bare` of `batch` is one, and
  `NoNoOpBacktested` and `RepeatsOnlyUnrecognised` state the exception.
* Calls whose answer cannot be parsed are billed but not counted, and neither are
  those of failed repairs; `repair_applied` stays false for a failed repair; a
  permanent error during a repair ends the run.
* Two identical candidates of one exploit batch are both evaluated, and two threads
  with one key both run the backtest.
* During a backtest candidate code runs in the process, without a timeout.
* A lesson that is already stored leaves a failed `INSERT` without a rollback, so the
  connection keeps a write transaction; a lesson learnt again keeps its old place
  and may fall out of the window.  Lessons of repair edits are dropped.

Evaluation
* The turnover that `select` judges is summed over all days of the table, the holdout's
  included (`costs.py:106`), and a stress regime may lie in the holdout, although
  `docs/architecture.md:278` says of this stage that the holdout is "never consulted";
  `SearchBlindToHoldout` is stated for the other numbers.
* Fold and holdout reports start in cash while the pooled backtest carries positions;
  adjacent folds share a boundary day, and around a 29 February possibly two; the last 1
  March of the in-sample period may be left untested; the first training years are never
  tested, although `walk_forward.py` says the test segments cover the in-sample period.

Price cache
* `is_trading_day` uses the federal calendar, but the exchange is open on Columbus Day and
  Veterans Day: when such a day follows the covered range its price is skipped
  (`Skipped`).
* An empty answer puts the window's end on record, a day that was not asked for.
* A window that begins and ends on days without a price, like the default one, is
  downloaded by every request (`cache.py:375`), although `tests/test_cache_resilience.py:45`
  says that queries falling on holidays "write metadata and skip future fetches".

## Plan

1. The refinement of a common abstract iteration by `OptimizationRun` and
   `Selection`, so that the free choices of the first are shown to cover the second.
2. Parameter importance and the lesson stages.
