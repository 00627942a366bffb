-------------------------- MODULE OptimizationRun --------------------------
(***************************************************************************)
(* The optimisation loop of orchestrator.py together with the two stores   *)
(* it keeps in step: the SQLite ledger (ledger/store.py) and the run       *)
(* branch of the git repository (ledger/git_ops.py).                       *)
(*                                                                         *)
(* One run is a sequence of sessions: a first one that evaluates the       *)
(* baseline and any number of `--resume` sessions.  Between two durable    *)
(* effects of a session the process may be killed, interrupted by the      *)
(* user, or hit an exception; what survives is the ledger, the event log   *)
(* and the git working tree, index and branch.                             *)
(*                                                                         *)
(* An edit stands for the strategy file and the configuration file of one  *)
(* candidate. The two files are written one after the other, so working    *)
(* tree, index and commits hold the edit each file comes from. Whether a   *)
(* candidate validates, evaluates, ranks first and passes a gate depends   *)
(* on market data and is left open.                                        *)
(*                                                                         *)
(* An operator named Slip... is the definition after it with a plausible   *)
(* mistake; no specification uses one.  They show that each property       *)
(* would notice.                                                           *)
(***************************************************************************)
EXTENDS Integers, Sequences, FiniteSets

CONSTANTS
  Edits,            \* what the strategy and configuration files may hold
  Recognised,       \* those whose configuration is 0.999 similar to itself
  Baseline,         \* the edit the repository holds before the run
  NoEdit,           \* stands for Python's None
  Hashes,           \* dataset hashes: one per asset universe
  DatasetHash,      \* the hash of the universe each edit's config names
  PriorPeeks,       \* holdout rows earlier runs left in the ledger, per hash
  IterationChoices, \* the values --iterations may be given
  PeekLimit,        \* holdout_peek_limit
  Patience,         \* early_stop_patience, 0 disables early stopping
  StuckThreshold,   \* settings.stuck_threshold
  ExploitPatience,  \* settings.exploit_patience
  MaxBatch,         \* bound: candidates of one iteration that reach the gates
  NumericOpt,       \* settings.enable_numeric_optimization
  MaxSessions,      \* bound: sessions of the run, the first included
  MaxFaults         \* bound: kills, interrupts and exceptions

ASSUME EditsAssumption ==
  /\ Baseline \in Edits /\ Recognised \subseteq Edits
  /\ NoEdit \notin Edits
  /\ DatasetHash \in [Edits -> Hashes]
  /\ PriorPeeks \in [Hashes -> Nat]

ASSUME LimitsAssumption ==
  /\ IterationChoices \subseteq Nat
  /\ PeekLimit \in Nat
  /\ Patience \in Nat
  /\ StuckThreshold \in Nat
  /\ ExploitPatience \in Nat \ {0}
  /\ MaxBatch \in Nat
  /\ NumericOpt \in BOOLEAN
  /\ MaxSessions \in Nat
  /\ MaxFaults \in Nat

VARIABLES
  (* durable *)
  attempts,     \* the ledger's rows of this run, in id order
  events,       \* events.jsonl: one record per completed iteration
  branch,       \* commits made on the run branch, oldest first
  index,        \* the two files as staged in the git index
  work,         \* the two files in the working tree
  (* the session *)
  pc,           \* what the process does next
  iterations,   \* its --iterations argument
  k,            \* the current iteration
  datasetHash,  \* computed once, in setup()
  incumbent,    \* report and returns candidates are compared with
  mode, exploitStall, noAccept, nCommitted, llmOk, earlyStopAt,
  (* the iteration *)
  losers,       \* evaluated candidates still to be recorded as rejected
  finalist,     \* the top select-passer, until it is recorded or accepted
  peeked,       \* has confirm() been called on the finalist?
  winner,       \* the accepted candidate
  (* history, read by no action *)
  peeks,        \* calls of confirm() so far, per dataset hash
  sessions, faults,
  sessionStart  \* length of events when the session began

ledgerVars  == <<attempts, events>>
gitVars     == <<branch, index, work>>
sessionVars == <<iterations, datasetHash, llmOk>>
modeVars    == <<mode, exploitStall, noAccept>>
commitVars  == <<incumbent, nCommitted>>
candVars    == <<losers, finalist, peeked, winner>>
countVars   == <<sessions, sessionStart>>
vars == <<ledgerVars, gitVars, pc, k, sessionVars, modeVars, commitVars,
          earlyStopAt, candVars, peeks, countVars, faults>>

-----------------------------------------------------------------------------
(* Types *)

CommitSteps == {"write_strategy", "write_config", "record_winner",
                "git_add", "git_commit", "mark_committed"}
Active  == {"baseline", "iterate", "confirm", "optimize", "record", "finish"}
             \cup CommitSteps
Stopped == {"returned", "raised", "killed"}

Tree == [code : Edits, config : Edits]

Files(e) == [code |-> e, config |-> e]

Row == [iter : Nat, edit : Edits, hash : Hashes, accepted : BOOLEAN,
        committed : BOOLEAN, sha : Nat, peeked : BOOLEAN]

StoreTypes ==
  /\ attempts \in Seq(Row)
  /\ events \in Seq([iter : Nat, accepted : BOOLEAN, limit : BOOLEAN])
  /\ branch \in Seq([files : Tree, iter : Nat])
  /\ index \in Tree
  /\ work \in Tree

SessionTypes ==
  /\ pc \in {"idle"} \cup Active \cup Stopped
  /\ iterations \in Nat /\ k \in Nat
  /\ datasetHash \in Hashes
  /\ incumbent \in [edit : Edits, returns : Edits, id : Nat]
  /\ mode \in {"explore", "exploit"}
  /\ exploitStall \in Nat /\ noAccept \in Nat /\ nCommitted \in Nat
  /\ llmOk \in BOOLEAN
  /\ earlyStopAt \in Nat

IterationTypes ==
  /\ losers \subseteq Edits
  /\ finalist \in Edits \cup {NoEdit}
  /\ peeked \in BOOLEAN
  /\ winner \in Edits \cup {NoEdit}

HistoryTypes ==
  /\ peeks \in [Hashes -> Nat]
  /\ sessions \in Nat /\ faults \in Nat /\ sessionStart \in Nat

TypeOK == StoreTypes /\ SessionTypes /\ IterationTypes /\ HistoryTypes

-----------------------------------------------------------------------------
(* What the code reads from its stores *)

SlipZeroBased(it, e, acc, com, sha, pk) ==
  [iter |-> it - 1, edit |-> e, hash |-> datasetHash, accepted |-> acc,
   committed |-> com, sha |-> sha, peeked |-> pk]

RowOf(it, e, acc, com, sha, pk) ==
  [iter |-> it, edit |-> e, hash |-> datasetHash, accepted |-> acc,
   committed |-> com, sha |-> sha, peeked |-> pk]

\* fetch_holdout_history(h): the rows of this run that hold a holdout series.
PeekRows(h) == {i \in DOMAIN attempts : attempts[i].hash = h /\ attempts[i].peeked}

PeeksOnRecord(h) == PriorPeeks[h] + Cardinality(PeekRows(h))

LastIteration ==
  CHOOSE m \in {attempts[i].iter : i \in DOMAIN attempts} :
    \A i \in DOMAIN attempts : attempts[i].iter <= m

SlipSameIteration == LastIteration

\* max(row[0] for row in rows) + 1 in run_optimization.  A session resumed
\* without a baseline records it first, so there is always a row.
NextIteration == LastIteration + 1

BaselineRecorded == \E i \in DOMAIN attempts : attempts[i].iter = 0

\* _resume_incumbent filters rows by `row[1] or row[2]`, which are the
\* columns iteration and accepted, and takes the largest id.
ResumeRow ==
  CHOOSE i \in DOMAIN attempts :
    /\ attempts[i].iter # 0 \/ attempts[i].accepted
    /\ \A j \in DOMAIN attempts :
         (attempts[j].iter # 0 \/ attempts[j].accepted) => j <= i

\* The returns are fetched by iteration: the first row of that iteration.
ReturnsRow(i) ==
  CHOOSE j \in DOMAIN attempts :
    /\ attempts[j].iter = attempts[i].iter
    /\ \A l \in DOMAIN attempts : attempts[l].iter = attempts[i].iter => j <= l

ResumedIncumbent ==
  [edit |-> attempts[ResumeRow].edit, id |-> ResumeRow,
   returns |-> attempts[ReturnsRow(ResumeRow)].edit]

-----------------------------------------------------------------------------
Init ==
  /\ attempts = <<>> /\ events = <<>> /\ branch = <<>>
  /\ index = Files(Baseline)
  /\ work = Files(Baseline)
  /\ pc = "idle"
  /\ iterations = 0 /\ k = 0
  /\ datasetHash = DatasetHash[Baseline]
  /\ incumbent = [edit |-> Baseline, returns |-> Baseline, id |-> 0]
  /\ mode = "explore" /\ exploitStall = 0 /\ noAccept = 0
  /\ nCommitted = 0 /\ llmOk = FALSE /\ earlyStopAt = 0
  /\ losers = {} /\ finalist = NoEdit /\ peeked = FALSE /\ winner = NoEdit
  /\ peeks = [h \in Hashes |-> 0]
  /\ sessions = 0 /\ faults = 0 /\ sessionStart = 0

(* A new _OptimizationState: its loop variables at their initial values.   *)
NewSession ==
  /\ iterations' \in IterationChoices
  /\ mode' = "explore" /\ exploitStall' = 0 /\ noAccept' = 0
  /\ nCommitted' = 0 /\ llmOk' = FALSE /\ earlyStopAt' = 0
  /\ losers' = {} /\ finalist' = NoEdit /\ peeked' = FALSE /\ winner' = NoEdit
  /\ sessions' = sessions + 1 /\ sessionStart' = Len(events)
  /\ datasetHash' = DatasetHash[work.config]

(* setup(None): the strategy files are clean, a branch is created at HEAD. *)
Start ==
  /\ pc = "idle"
  /\ NewSession
  /\ pc' = "baseline"
  /\ UNCHANGED <<ledgerVars, gitVars, k, incumbent, peeks, faults>>

(* setup(run_id): the branch is checked out, which leaves local changes in *)
(* place; nothing checks that the files are clean.                         *)
Resume ==
  /\ pc \in Stopped /\ sessions < MaxSessions
  /\ NewSession
  /\ IF BaselineRecorded
       THEN /\ incumbent' = ResumedIncumbent
            /\ k' = NextIteration
            /\ pc' = "iterate"
       ELSE /\ pc' = "baseline"
            /\ UNCHANGED <<incumbent, k>>
  /\ UNCHANGED <<ledgerVars, gitVars, peeks, faults>>

(* _setup_baseline: whatever the working tree holds is iteration 0.        *)
SetupBaseline ==
  /\ pc = "baseline"
  /\ attempts' = Append(attempts,
                        RowOf(0, work.code, TRUE, TRUE, Len(branch), TRUE))
  /\ incumbent' = [edit |-> work.code, returns |-> work.code,
                   id |-> Len(attempts) + 1]
  /\ k' = 1
  /\ pc' = "iterate"
  /\ UNCHANGED <<events, gitVars, sessionVars, modeVars, nCommitted,
                 earlyStopAt, candVars, peeks, countVars, faults>>

-----------------------------------------------------------------------------
(* One iteration *)

\* prepare_iteration
PreparedMode == IF noAccept >= StuckThreshold THEN "explore" ELSE mode

SlipExploitUnguarded(m) == {e \in Edits : m = "explore" => e # work.code}

\* The guards compare a candidate with the files on disk: its behaviour with
\* the current code in explore mode, its config with the current one in
\* exploit mode, by a similarity that does not recognise every config: without
\* numbers to compare, or with empty lists, a config is 0.65 to 0.925 like itself.
Evaluable(m) ==
  {e \in Edits : IF m = "explore" THEN e # work.code
                 ELSE e # work.config \/ e \notin Recognised}

\* _run_select_phase rejects, in explore mode, returns the ledger has seen.
Selectable(m) ==
  {e \in Evaluable(m) :
     m = "explore" =>
       ~ \E i \in DOMAIN attempts :
           attempts[i].hash = datasetHash /\ attempts[i].edit = e}

(* Candidates are generated, validated, evaluated and selected; the best   *)
(* of those that pass select, if any, goes to the holdout.                 *)
SelectCandidates ==
  /\ pc = "iterate" /\ k <= iterations
  /\ mode' = PreparedMode
  /\ exploitStall' = IF noAccept >= StuckThreshold THEN 0 ELSE exploitStall
  /\ \E top \in Selectable(PreparedMode) \cup {NoEdit} :
       /\ finalist' = top
       /\ pc' = IF top = NoEdit THEN "record" ELSE "confirm"
       /\ losers' \in SUBSET Evaluable(PreparedMode)
       /\ Cardinality(losers') + (IF top = NoEdit THEN 0 ELSE 1) <= MaxBatch
       /\ llmOk' \in {b \in BOOLEAN :
                        (llmOk \/ losers' # {} \/ top # NoEdit) => b}
  /\ UNCHANGED <<ledgerVars, gitVars, k, iterations, datasetHash, noAccept,
                 commitVars, earlyStopAt, peeked, winner, peeks, countVars, faults>>

SlipOnePeekMore == PeeksOnRecord(DatasetHash[finalist]) > PeekLimit

BudgetExhausted == PeeksOnRecord(DatasetHash[finalist]) >= PeekLimit

(* The budget is looked up under the candidate's own dataset hash.         *)
RefusePeek ==
  /\ pc = "confirm" /\ BudgetExhausted
  /\ earlyStopAt' = k
  /\ pc' = "record"
  /\ UNCHANGED <<ledgerVars, gitVars, k, sessionVars, modeVars, commitVars,
                 candVars, peeks, countVars, faults>>

Peek == peeks' = [peeks EXCEPT ![DatasetHash[finalist]] = @ + 1]

ConfirmAccepts ==
  /\ pc = "confirm" /\ ~ BudgetExhausted
  /\ Peek
  /\ winner' = finalist /\ finalist' = NoEdit
  /\ pc' = IF NumericOpt THEN "optimize" ELSE "write_strategy"
  /\ UNCHANGED <<ledgerVars, gitVars, k, sessionVars, modeVars, commitVars,
                 earlyStopAt, losers, peeked, countVars, faults>>

ConfirmRejects ==
  /\ pc = "confirm" /\ ~ BudgetExhausted
  /\ Peek
  /\ peeked' = TRUE
  /\ pc' = "record"
  /\ UNCHANGED <<ledgerVars, gitVars, k, sessionVars, modeVars, commitVars,
                 earlyStopAt, losers, finalist, winner, countVars, faults>>

(* _optimize_winner_params: no improvement in sample, or a second confirm  *)
(* whose verdict decides whether the tuned config replaces the winner's.   *)
OptimizeWinner ==
  /\ pc = "optimize"
  /\ \/ UNCHANGED <<winner, peeks>>
     \/ /\ peeks' = [peeks EXCEPT ![DatasetHash[winner]] = @ + 1]
        /\ winner' \in {e \in Edits : DatasetHash[e] = DatasetHash[winner]}
  /\ pc' = "write_strategy"
  /\ UNCHANGED <<ledgerVars, gitVars, k, sessionVars, modeVars, commitVars,
                 earlyStopAt, losers, finalist, peeked, countVars, faults>>

-----------------------------------------------------------------------------
(* commit_winner *)

WriteStrategy ==
  /\ pc = "write_strategy"
  /\ work' = [work EXCEPT !.code = winner]
  /\ pc' = "write_config"
  /\ UNCHANGED <<ledgerVars, branch, index, k, sessionVars, modeVars, commitVars,
                 earlyStopAt, candVars, peeks, countVars, faults>>

WriteConfig ==
  /\ pc = "write_config"
  /\ work' = [work EXCEPT !.config = winner]
  /\ pc' = "record_winner"
  /\ UNCHANGED <<ledgerVars, branch, index, k, sessionVars, modeVars, commitVars,
                 earlyStopAt, candVars, peeks, countVars, faults>>

RecordWinner ==
  /\ pc = "record_winner"
  /\ attempts' = Append(attempts, RowOf(k, winner, TRUE, FALSE, 0, TRUE))
  /\ pc' = "git_add"
  /\ UNCHANGED <<events, gitVars, k, sessionVars, modeVars, commitVars,
                 earlyStopAt, candVars, peeks, countVars, faults>>

SlipStageCodeOnly == [index EXCEPT !.code = work.code]

\* `git add` of the two files
Staged == work

GitAdd ==
  /\ pc = "git_add"
  /\ index' = Staged
  /\ pc' = "git_commit"
  /\ UNCHANGED <<ledgerVars, branch, work, k, sessionVars, modeVars, commitVars,
                 earlyStopAt, candVars, peeks, countVars, faults>>

GitCommit ==
  /\ pc = "git_commit"
  /\ branch' = Append(branch, [files |-> index, iter |-> k])
  /\ pc' = "mark_committed"
  /\ UNCHANGED <<ledgerVars, index, work, k, sessionVars, modeVars, commitVars,
                 earlyStopAt, candVars, peeks, countVars, faults>>

SlipMarkIncumbent == incumbent.id

\* The id that record_attempt returned.
AttemptId == Len(attempts)

SlipKeepReport == [incumbent EXCEPT !.returns = winner, !.id = AttemptId]

WinnerIncumbent == [edit |-> winner, returns |-> winner, id |-> AttemptId]

\* mark_committed, then the incumbent and the counters follow in memory.
MarkCommitted ==
  /\ pc = "mark_committed"
  /\ attempts' = [attempts EXCEPT ![AttemptId].committed = TRUE,
                                  ![AttemptId].sha = Len(branch)]
  /\ incumbent' = WinnerIncumbent
  /\ nCommitted' = nCommitted + 1
  /\ mode' = "exploit" /\ exploitStall' = 0 /\ noAccept' = 0
  /\ pc' = "record"
  /\ UNCHANGED <<events, gitVars, k, sessionVars, earlyStopAt, candVars,
                 peeks, countVars, faults>>

(* The except clause of commit_winner: `git checkout -- <files>` copies    *)
(* the index over the working tree, and the exception ends the run.        *)
CommitFails ==
  /\ pc \in CommitSteps /\ faults < MaxFaults
  /\ work' = index
  /\ pc' = "raised"
  /\ faults' = faults + 1
  /\ UNCHANGED <<ledgerVars, branch, index, k, sessionVars, modeVars, commitVars,
                 earlyStopAt, candVars, peeks, countVars>>

-----------------------------------------------------------------------------
(* The end of an iteration *)

RecordFinalist ==
  /\ pc = "record" /\ finalist # NoEdit
  /\ attempts' = Append(attempts, RowOf(k, finalist, FALSE, FALSE, 0, peeked))
  /\ finalist' = NoEdit /\ peeked' = FALSE
  /\ UNCHANGED <<events, gitVars, pc, k, sessionVars, modeVars, commitVars,
                 earlyStopAt, losers, winner, peeks, countVars, faults>>

RecordLoser ==
  /\ pc = "record"
  /\ \E e \in losers :
       /\ attempts' = Append(attempts, RowOf(k, e, FALSE, FALSE, 0, FALSE))
       /\ losers' = losers \ {e}
  /\ UNCHANGED <<events, gitVars, pc, k, sessionVars, modeVars, commitVars,
                 earlyStopAt, finalist, peeked, winner, peeks, countVars, faults>>

SlipStallUncounted == exploitStall >= ExploitPatience

ExploitStalled == exploitStall + 1 >= ExploitPatience

\* _format_failure_summary
CountFailure ==
  /\ noAccept' = noAccept + 1
  /\ IF mode = "exploit"
       THEN /\ mode' = IF ExploitStalled THEN "explore" ELSE "exploit"
            /\ exploitStall' = IF ExploitStalled THEN 0 ELSE exploitStall + 1
       ELSE UNCHANGED <<mode, exploitStall>>

SlipPatienceExceeded(n) == Patience > 0 /\ n > Patience

OutOfPatience(n) == Patience > 0 /\ n >= Patience

(* log_and_summarize_iteration, the event log and the early-stop check.    *)
FinishIteration ==
  /\ pc = "record" /\ finalist = NoEdit /\ losers = {}
  /\ IF winner = NoEdit THEN CountFailure ELSE UNCHANGED modeVars
  /\ events' = Append(events, [iter |-> k, accepted |-> winner # NoEdit,
                               limit |-> earlyStopAt # 0])
  /\ earlyStopAt' = IF earlyStopAt = 0 /\ OutOfPatience(noAccept') THEN k
                    ELSE earlyStopAt
  /\ IF earlyStopAt' # 0
       THEN pc' = "finish" /\ k' = k
       ELSE pc' = "iterate" /\ k' = k + 1
  /\ winner' = NoEdit
  /\ UNCHANGED <<attempts, gitVars, sessionVars, commitVars, losers, finalist,
                 peeked, peeks, countVars, faults>>

SlipBreakIgnored == pc = "iterate" /\ k > iterations

LoopOver == pc = "finish" \/ (pc = "iterate" /\ k > iterations)

(* A run in which no LLM call succeeded raises.                            *)
FinishRun ==
  /\ LoopOver
  /\ pc' = IF llmOk THEN "returned" ELSE "raised"
  /\ UNCHANGED <<ledgerVars, gitVars, k, sessionVars, modeVars, commitVars,
                 earlyStopAt, candVars, peeks, countVars, faults>>

-----------------------------------------------------------------------------
(* Faults *)

(* The process dies, or an exception leaves an iteration outside the try   *)
(* of commit_winner, or Ctrl-C arrives: setup() lets it propagate, the     *)
(* loop turns it into a normal return, and neither restores a file.        *)
Abort ==
  /\ pc \in Active /\ faults < MaxFaults
  /\ pc' \in {"killed"}
          \cup (IF pc \in CommitSteps THEN {} ELSE {"raised"})
          \cup (IF pc = "baseline" THEN {} ELSE {"returned"})
  /\ faults' = faults + 1
  /\ UNCHANGED <<ledgerVars, gitVars, k, sessionVars, modeVars, commitVars,
                 earlyStopAt, candVars, peeks, countVars>>

-----------------------------------------------------------------------------
CommitWinner ==
  WriteStrategy \/ WriteConfig \/ RecordWinner \/ GitAdd \/ GitCommit \/ MarkCommitted

Iterate ==
  \/ SelectCandidates \/ RefusePeek \/ ConfirmAccepts \/ ConfirmRejects
  \/ OptimizeWinner \/ CommitWinner
  \/ RecordFinalist \/ RecordLoser \/ FinishIteration

Program == SetupBaseline \/ Iterate \/ FinishRun

Next == Start \/ Resume \/ Program \/ CommitFails \/ Abort

Spec == Init /\ [][Next]_vars

(* One thread runs the loop, and each call it waits for is bounded by a    *)
(* timeout of its own, so an enabled program step is eventually taken.     *)
FairSpec == Spec /\ WF_vars(Program)
=============================================================================
