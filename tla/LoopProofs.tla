----------------------------- MODULE LoopProofs -----------------------------
(***************************************************************************)
(* Proofs, for every value of the constants, that the four stores of an    *)
(* optimisation run keep in step: the ledger's committed rows with the run *)
(* branch, the index, the working tree and the incumbent.                  *)
(*                                                                         *)
(* commit_winner writes them one after the other, so what is proved is     *)
(* what each of its steps has already brought about (Staging).  The second *)
(* section is about the holdout budget: confirm() is called before the row *)
(* that counts it is written, so a call is on record, pending, or lost to  *)
(* a fault (PeeksRecorded).                                                *)
(*                                                                         *)
(* The last section is about the counters of a session: the loop stops,    *)
(* and an iteration exploits or explores, exactly as the session's events  *)
(* say.  The counter noAccept is the number of events since the last       *)
(* acceptance (Counted), except from the commit of a winner to the event   *)
(* that reports it.  They also tell how long a first session may repeat    *)
(* what it has committed (SinceWin).                                       *)
(***************************************************************************)
EXTENDS OptimizationRunProofs, Extrema

\* What commit_winner has done so far
Staging ==
  /\ pc = "write_config" => work.code = winner
  /\ pc \in {"record_winner"} \cup Acknowledging => work = Files(winner)
  /\ pc \in Acknowledging => attempts[Len(attempts)].edit = winner
  /\ pc \in {"git_commit", "mark_committed"} => index = Files(winner)
  /\ pc = "mark_committed" => HeadFiles = Files(winner)

\* A committed row names its commit.
RowsOnBranch ==
  \A i \in CommittedRows :
    /\ attempts[i].sha \in DOMAIN branch
    /\ branch[attempts[i].sha] = [files |-> Files(attempts[i].edit),
                                  iter |-> attempts[i].iter]

Unmarked == IF pc = "mark_committed" THEN 1 ELSE 0

\* A commit without such a row costs a fault.
CommitsOnRecord == Len(branch) <= Cardinality(CommittedRows) + faults + Unmarked

\* Before the first session has recorded its baseline
Untouched ==
  /\ pc = "idle" <=> sessions = 0
  /\ pc = "baseline" => nCommitted = 0
  /\ pc \in {"idle", "baseline"} /\ sessions <= 1 =>
       branch = <<>> /\ index = Files(Baseline) /\ work = Files(Baseline)

Settled == sessions = 1 \/ nCommitted > 0

\* The incumbent is the newest commit, but for one not yet marked.
IncumbentNewest ==
  Settled /\ pc \in Active \ {"baseline"} =>
    /\ incumbent.returns = incumbent.edit
    /\ incumbent.id \in DOMAIN attempts
    /\ attempts[incumbent.id].edit = incumbent.edit
    /\ \A i \in CommittedRows : i <= incumbent.id
    /\ pc # "mark_committed" => HeadFiles = Files(incumbent.edit)
    /\ pc \notin CommitSteps => index = HeadFiles /\ work = HeadFiles

TunesIfAsked == pc = "optimize" => NumericOpt

StoreInv ==
  /\ Staging /\ RowsOnBranch /\ CommitsOnRecord
  /\ Untouched /\ IncumbentNewest /\ TunesIfAsked

-----------------------------------------------------------------------------
(* What a step does to the stores *)

StoresTyped ==
  /\ attempts \in Seq(Row) /\ branch \in Seq([files : Tree, iter : Nat])
  /\ index \in Tree /\ work \in Tree
  /\ Len(attempts) \in Nat /\ DOMAIN attempts = 1 .. Len(attempts)
  /\ Len(branch) \in Nat /\ DOMAIN branch = 1 .. Len(branch)
  /\ faults \in Nat /\ nCommitted \in Nat /\ sessions \in Nat

(* The types these proofs need.                                            *)
LEMMA Stores == TypeOK => StoresTyped
<1> SUFFICES ASSUME TypeOK PROVE StoresTyped
  OBVIOUS
<1>1. attempts \in Seq(Row) /\ branch \in Seq([files : Tree, iter : Nat])
  BY DEF TypeOK, StoreTypes
<1>2. Len(attempts) \in Nat /\ DOMAIN attempts = 1 .. Len(attempts)
  BY <1>1, LenProperties
<1>3. Len(branch) \in Nat /\ DOMAIN branch = 1 .. Len(branch)
  BY <1>1, LenProperties
<1> QED
  BY <1>1, <1>2, <1>3 DEF TypeOK, StoreTypes, HistoryTypes, SessionTypes, StoresTyped

\* Old rows stay as they are, and none becomes committed.
KeepsCommitted ==
  /\ CommittedRows' = CommittedRows
  /\ \A i \in DOMAIN attempts : i \in DOMAIN attempts' /\ attempts'[i] = attempts[i]

\* The newest row becomes committed to the newest commit.
Commits ==
  LET n == Len(attempts)
  IN  /\ n \in DOMAIN attempts /\ n \notin CommittedRows
      /\ CommittedRows' = CommittedRows \cup {n}
      /\ \A i \in DOMAIN attempts \ {n} : attempts'[i] = attempts[i]
      /\ attempts'[n].edit = attempts[n].edit /\ attempts'[n].iter = k
      /\ attempts'[n].sha = Len(branch)
      /\ DOMAIN attempts' = DOMAIN attempts /\ Len(attempts') = n

(* The rows a step commits are none, or the newest.                        *)
LEMMA LedgerEffect ==
  ASSUME Inv, [Next]_vars
  PROVE  \/ ~ MarkCommitted /\ KeepsCommitted
         \/ MarkCommitted /\ Commits
<1>0. StoresTyped
  BY Stores DEF Inv
<1>1. CASE MarkCommitted
  <2> DEFINE n == Len(attempts)
  <2>1. /\ n \in DOMAIN attempts /\ ~ attempts[n].committed
        /\ attempts[n].iter = k /\ k > 0 /\ DOMAIN attempts' = DOMAIN attempts
        /\ Len(attempts') = n
        /\ \A i \in DOMAIN attempts : i # n => attempts'[i] = attempts[i]
        /\ attempts'[n] = [attempts[n] EXCEPT !.committed = TRUE, !.sha = Len(branch)]
    BY <1>1, MarkedRow
  <2>2. attempts[n] \in Row
    BY <1>0, <2>1 DEF StoresTyped
  <2> DEFINE old == attempts[n]
  <2> HIDE DEF n
  <2>3. /\ attempts'[n].committed /\ attempts'[n].edit = attempts[n].edit
        /\ attempts'[n].iter = k /\ attempts'[n].sha = Len(branch)
    <3>1. old \in Row /\ attempts'[n] = [old EXCEPT !.committed = TRUE, !.sha = Len(branch)]
          /\ old.iter = k
      BY <2>1, <2>2
    <3> HIDE DEF old
    <3>2. /\ attempts'[n].committed /\ attempts'[n].edit = old.edit
          /\ attempts'[n].iter = old.iter /\ attempts'[n].sha = Len(branch)
      BY <3>1 DEF Row
    <3> QED
      BY <3>1, <3>2 DEF old
  <2>4. n \notin CommittedRows /\ CommittedRows' = CommittedRows \cup {n}
    BY <2>1, <2>3 DEF CommittedRows
  <2> QED
    BY <1>1, <2>1, <2>3, <2>4 DEF Commits, n
<1>2. CASE ~ MarkCommitted /\ UNCHANGED attempts
  BY <1>2 DEF KeepsCommitted, CommittedRows
<1>3. CASE ~ MarkCommitted /\ RecordsRow
  <2>1. PICK r \in Row : /\ attempts' = Append(attempts, r)
                         /\ r.iter = 0 \/ ~ r.committed
    BY <1>3 DEF RecordsRow, RecordsBaseline, RecordsWinner, RecordsReject
  <2>2. /\ DOMAIN attempts' = 1 .. Len(attempts) + 1
        /\ \A i \in DOMAIN attempts : attempts'[i] = attempts[i]
        /\ attempts'[Len(attempts) + 1] = r
    BY <1>0, <2>1, AppendRow DEF StoresTyped
  <2>3. CommittedRows' = CommittedRows
    <3>1. \A i \in CommittedRows' : i \in DOMAIN attempts
      BY <1>0, <2>1, <2>2 DEF CommittedRows, StoresTyped
    <3>2. DOMAIN attempts \subseteq DOMAIN attempts'
      BY <1>0, <2>2 DEF StoresTyped
    <3> QED
      BY <2>2, <3>1, <3>2 DEF CommittedRows
  <2> QED
    BY <1>0, <1>3, <2>2, <2>3 DEF KeepsCommitted, StoresTyped
<1> QED
  BY <1>1, <1>2, <1>3, AttemptsSteps DEF Inv

\* A commit of the staged files
Extends ==
  /\ branch' = Append(branch, [files |-> index, iter |-> k])
  /\ Len(branch') = Len(branch) + 1 /\ DOMAIN branch' = 1 .. Len(branch) + 1
  /\ \A b \in DOMAIN branch : branch'[b] = branch[b]
  /\ branch'[Len(branch')].files = index /\ HeadFiles' = index

(* The branch only changes by `git commit`.                                *)
LEMMA BranchEffect ==
  ASSUME Inv, [Next]_vars
  PROVE  \/ ~ GitCommit /\ UNCHANGED <<branch, HeadFiles>>
         \/ GitCommit /\ Extends
<1>1. CASE GitCommit
  <2>1. branch' = Append(branch, [files |-> index, iter |-> k]) /\ StoresTyped
    BY <1>1, Stores DEF GitCommit, Inv
  <2>2. /\ Len(branch') = Len(branch) + 1 /\ DOMAIN branch' = 1 .. Len(branch) + 1
        /\ \A b \in DOMAIN branch : branch'[b] = branch[b]
        /\ branch'[Len(branch')] = [files |-> index, iter |-> k] /\ branch' # <<>>
    BY <2>1 DEF StoresTyped
  <2> QED
    BY <1>1, <2>1, <2>2 DEF Extends, HeadFiles
<1>2. CASE ~ GitCommit
  <2>1. UNCHANGED branch
    <3>1. CASE UNCHANGED vars \/ Unstored
      BY <3>1, UnstoredKeepsStores DEF vars, gitVars
    <3>2. CASE SetupBaseline \/ RecordFinalist \/ RecordLoser \/ FinishIteration
               \/ WriteStrategy \/ WriteConfig \/ RecordWinner \/ GitAdd \/ CommitFails
      BY <3>2 DEF SetupBaseline, RecordFinalist, RecordLoser, FinishIteration,
           WriteStrategy, WriteConfig, RecordWinner, GitAdd, CommitFails, gitVars
    <3>3. CASE MarkCommitted
      BY <3>3, Zenon DEF MarkCommitted, gitVars
    <3> QED
      BY <1>2, <3>1, <3>2, <3>3 DEF Next, Program, Iterate, CommitWinner, Unstored
  <2> QED
    BY <1>2, <2>1 DEF HeadFiles
<1> QED
  BY <1>1, <1>2

(* The committed rows are finitely many.                                   *)
LEMMA CommittedFinite ==
  ASSUME TypeOK
  PROVE  IsFiniteSet(CommittedRows) /\ Cardinality(CommittedRows) \in Nat
<1>1. IsFiniteSet(1 .. Len(attempts)) /\ CommittedRows \subseteq 1 .. Len(attempts)
  BY Stores, FS_Interval DEF StoresTyped, CommittedRows
<1> QED
  BY <1>1, FS_Subset, FS_CardinalityType

-----------------------------------------------------------------------------
(* The invariant *)

\* The steps that lead to no step after "write_strategy" of commit_winner
Outside ==
  \/ Start \/ Resume \/ SetupBaseline \/ SelectCandidates \/ RefusePeek
  \/ ConfirmAccepts \/ ConfirmRejects \/ OptimizeWinner \/ MarkCommitted
  \/ RecordFinalist \/ RecordLoser \/ FinishIteration \/ FinishRun
  \/ CommitFails \/ Abort

(* They leave commit_winner alone.                                         *)
LEMMA OutsideSteps == Outside => pc' \notin CommitSteps \ {"write_strategy"}
<1> USE DEF CommitSteps
<1>1. Start \/ Resume \/ SetupBaseline \/ SelectCandidates \/ RefusePeek
        => pc' \notin CommitSteps \ {"write_strategy"}
  BY DEF Start, Resume, SetupBaseline, SelectCandidates, RefusePeek
<1>2. ConfirmAccepts \/ ConfirmRejects \/ OptimizeWinner
        => pc' \notin CommitSteps \ {"write_strategy"}
  BY DEF ConfirmAccepts, ConfirmRejects, OptimizeWinner
<1>3. MarkCommitted => pc' = "record"
  BY Zenon DEF MarkCommitted
<1>4. RecordFinalist \/ RecordLoser => pc' = pc /\ pc = "record"
  BY DEF RecordFinalist, RecordLoser
<1>5. FinishIteration \/ FinishRun => pc' \notin CommitSteps \ {"write_strategy"}
  BY DEF FinishIteration, FinishRun
<1>6. CommitFails \/ Abort => pc' \notin CommitSteps \ {"write_strategy"}
  BY DEF CommitFails, Abort
<1> QED
  BY <1>1, <1>2, <1>3, <1>4, <1>5, <1>6 DEF Outside

(* A step that is not one of them is one of commit_winner.                 *)
LEMMA StepKinds ==
  [Next]_vars => \/ UNCHANGED vars \/ Outside
                 \/ WriteStrategy \/ WriteConfig \/ RecordWinner \/ GitAdd \/ GitCommit
BY DEF Next, Program, Iterate, CommitWinner, Outside

(* Every step of commit_winner does its part.                              *)
LEMMA StagingKept ==
  ASSUME Inv, Staging, [Next]_vars
  PROVE  Staging'
<1>0. StoresTyped
  BY Stores DEF Inv
<1> USE DEF Acknowledging, CommitSteps
<1>1. CASE UNCHANGED vars
  <2>1. UNCHANGED <<pc, work, index, attempts, winner, branch>>
    BY <1>1 DEF vars, ledgerVars, gitVars, candVars
  <2> QED
    BY <2>1 DEF Staging, HeadFiles
<1>2. CASE Outside
  BY <1>2, OutsideSteps DEF Staging
<1>3. CASE WriteStrategy
  <2>1. pc' = "write_config" /\ winner' = winner /\ work' = [work EXCEPT !.code = winner]
    BY <1>3 DEF WriteStrategy, candVars
  <2>2. work'.code = winner
    BY <1>0, <2>1 DEF StoresTyped, Tree
  <2> QED
    BY <2>1, <2>2 DEF Staging
<1>4. CASE WriteConfig
  <2>1. /\ pc = "write_config" /\ pc' = "record_winner" /\ winner' = winner
        /\ work' = [work EXCEPT !.config = winner]
    BY <1>4 DEF WriteConfig, candVars
  <2>2. work.code = winner /\ work \in Tree
    BY <1>0, <2>1 DEF Staging, StoresTyped
  <2>3. work' = Files(winner)
    BY <2>1, <2>2 DEF Tree, Files
  <2> QED
    BY <2>1, <2>3 DEF Staging, Files
<1>5. CASE RecordWinner
  <2> DEFINE r == RowOf(k, winner, TRUE, FALSE, 0, TRUE)
  <2>1. /\ pc = "record_winner" /\ pc' = "git_add" /\ winner' = winner /\ work' = work
        /\ attempts' = Append(attempts, r)
    BY <1>5 DEF RecordWinner, candVars, gitVars
  <2>2. r.edit = winner
    BY DEF RowOf
  <2> HIDE DEF r
  <2>3. attempts'[Len(attempts')] = r
    BY <1>0, <2>1 DEF StoresTyped
  <2> QED
    BY <2>1, <2>2, <2>3 DEF Staging, Files
<1>6. CASE GitAdd
  <2>1. pc = "git_add" /\ pc' = "git_commit" /\ index' = work
        /\ UNCHANGED <<work, attempts, winner>>
    BY <1>6 DEF GitAdd, Staged, candVars, ledgerVars
  <2> QED
    BY <2>1 DEF Staging, Files
<1>7. CASE GitCommit
  <2>1. pc = "git_commit" /\ pc' = "mark_committed"
        /\ UNCHANGED <<index, work, attempts, winner>>
    BY <1>7 DEF GitCommit, candVars, ledgerVars
  <2>2. HeadFiles' = index
    BY <1>7, BranchEffect DEF Extends
  <2> QED
    BY <2>1, <2>2 DEF Staging, Files
<1> QED
  BY <1>1, <1>2, <1>3, <1>4, <1>5, <1>6, <1>7, StepKinds

(* A row is marked with the commit that holds its edit.                    *)
LEMMA RowsOnBranchKept ==
  ASSUME Inv, Staging, RowsOnBranch, [Next]_vars
  PROVE  RowsOnBranch'
<1>0. StoresTyped
  BY Stores DEF Inv
<1>1. CASE MarkCommitted /\ Commits
  <2> DEFINE n == Len(attempts)
  <2>1. /\ pc = "mark_committed" /\ UNCHANGED branch
        /\ branch # <<>> /\ branch[Len(branch)].iter = k
    BY <1>1, MarkedRow, Zenon DEF MarkCommitted
  <2>2. HeadFiles = Files(winner) /\ attempts[n].edit = winner
    BY <2>1 DEF Staging, Acknowledging
  <2>3. Len(branch) \in DOMAIN branch /\ branch[Len(branch)] \in [files : Tree, iter : Nat]
    <3>1. branch \in Seq([files : Tree, iter : Nat]) /\ branch # <<>>
      BY <1>0, <2>1 DEF StoresTyped
    <3>2. Len(branch) \in 1 .. Len(branch)
      BY <3>1, LenProperties, EmptySeq
    <3> QED
      BY <1>0, <3>1, <3>2, ElementOfSeq DEF StoresTyped
  <2>4. branch[Len(branch)] = [files |-> Files(winner), iter |-> k]
    BY <2>1, <2>2, <2>3 DEF HeadFiles
  <2>5. /\ attempts'[n].sha \in DOMAIN branch'
        /\ branch'[attempts'[n].sha] = [files |-> Files(attempts'[n].edit),
                                        iter |-> attempts'[n].iter]
    BY <1>1, <2>1, <2>2, <2>3, <2>4 DEF Commits
  <2>6. \A i \in CommittedRows : i # n => attempts'[i] = attempts[i]
    BY <1>1 DEF Commits, CommittedRows
  <2>7. CommittedRows' = CommittedRows \cup {n} /\ n \notin CommittedRows
    BY <1>1 DEF Commits
  <2> HIDE DEF n
  <2> QED
    BY <2>1, <2>5, <2>6, <2>7 DEF RowsOnBranch
<1>2. CASE KeepsCommitted /\ UNCHANGED branch
  BY <1>2 DEF KeepsCommitted, RowsOnBranch, CommittedRows
<1>3. CASE KeepsCommitted /\ Extends
  <2>1. \A i \in CommittedRows : attempts'[i] = attempts[i] /\ i \in CommittedRows'
    BY <1>3 DEF KeepsCommitted, CommittedRows
  <2>2. \A b \in DOMAIN branch : b \in DOMAIN branch' /\ branch'[b] = branch[b]
    BY <1>0, <1>3 DEF Extends, StoresTyped
  <2>3. CommittedRows' = CommittedRows
    BY <1>3 DEF KeepsCommitted
  <2> QED
    BY <2>1, <2>2, <2>3 DEF RowsOnBranch
<1>4. ~ (MarkCommitted /\ GitCommit)
  <2>1. MarkCommitted => pc = "mark_committed"
    BY Zenon DEF MarkCommitted
  <2> QED
    BY <2>1 DEF GitCommit
<1> QED
  BY <1>1, <1>2, <1>3, <1>4, LedgerEffect, BranchEffect

(* A commit is marked in the next step, unless a fault comes between.      *)
LEMMA CommitsOnRecordKept ==
  ASSUME Inv, CommitsOnRecord, [Next]_vars
  PROVE  CommitsOnRecord'
<1>0. /\ StoresTyped /\ IsFiniteSet(CommittedRows) /\ Cardinality(CommittedRows) \in Nat
      /\ Unmarked \in {0, 1}
  BY Stores, CommittedFinite DEF Inv, Unmarked
<1>1. CASE MarkCommitted /\ Commits
  <2>1. pc = "mark_committed" /\ pc' = "record" /\ UNCHANGED <<branch, faults>>
    BY <1>1, Zenon DEF MarkCommitted, gitVars
  <2>2. Cardinality(CommittedRows') = Cardinality(CommittedRows) + 1
    BY <1>0, <1>1, FS_AddElement DEF Commits
  <2>3. Unmarked = 1 /\ Unmarked' = 0
    BY <2>1 DEF Unmarked
  <2> QED
    BY <1>0, <2>1, <2>2, <2>3 DEF CommitsOnRecord, StoresTyped
<1>2. CASE KeepsCommitted /\ GitCommit /\ Extends
  <2>1. pc = "git_commit" /\ pc' = "mark_committed" /\ faults' = faults
    BY <1>2 DEF GitCommit
  <2>2. Unmarked = 0 /\ Unmarked' = 1 /\ CommittedRows' = CommittedRows
    BY <1>2, <2>1 DEF Unmarked, KeepsCommitted
  <2> QED
    BY <1>0, <1>2, <2>1, <2>2 DEF CommitsOnRecord, StoresTyped, Extends
<1>3. CASE KeepsCommitted /\ ~ GitCommit /\ ~ MarkCommitted /\ UNCHANGED branch
  <2>1. CASE pc # "mark_committed"
    <3>1. faults' \in {faults, faults + 1} /\ Unmarked' = 0 /\ Unmarked = 0
      <4>1. pc' # "mark_committed"
        BY <1>3, <2>1, StepKinds, OutsideSteps
           DEF CommitSteps, vars, WriteStrategy, WriteConfig, RecordWinner, GitAdd
      <4>2. faults' \in {faults, faults + 1}
        <5>1. CASE UNCHANGED vars \/ Start \/ Resume \/ SetupBaseline \/ SelectCandidates
                   \/ RefusePeek \/ ConfirmAccepts \/ ConfirmRejects \/ OptimizeWinner
          BY <5>1 DEF vars, Start, Resume, SetupBaseline, SelectCandidates, RefusePeek,
               ConfirmAccepts, ConfirmRejects, OptimizeWinner
        <5>2. CASE WriteStrategy \/ WriteConfig \/ RecordWinner \/ GitAdd
          BY <5>2 DEF WriteStrategy, WriteConfig, RecordWinner, GitAdd
        <5>3. CASE RecordFinalist \/ RecordLoser \/ FinishIteration \/ FinishRun
                   \/ CommitFails \/ Abort
          BY <5>3 DEF RecordFinalist, RecordLoser, FinishIteration, FinishRun, CommitFails, Abort
        <5> QED
          BY <1>3, <5>1, <5>2, <5>3, StepKinds DEF Outside
      <4> QED
        BY <2>1, <4>1, <4>2 DEF Unmarked
    <3>2. CommittedRows' = CommittedRows
      BY <1>3 DEF KeepsCommitted
    <3> QED
      BY <1>0, <1>3, <3>1, <3>2 DEF CommitsOnRecord, StoresTyped
  <2>2. CASE pc = "mark_committed"
    <3>1. UNCHANGED <<pc, faults>> \/ faults' = faults + 1
      BY <1>3, <2>2 DEF Next, vars, Program, Iterate, CommitWinner, Start, Resume,
         SetupBaseline, SelectCandidates, RefusePeek, ConfirmAccepts, ConfirmRejects,
         OptimizeWinner, WriteStrategy, WriteConfig, RecordWinner, GitAdd, RecordFinalist,
         RecordLoser, FinishIteration, FinishRun, LoopOver, CommitFails, Abort, Stopped
    <3>2. CommittedRows' = CommittedRows /\ Unmarked = 1 /\ Unmarked' \in {0, 1}
          /\ (pc' = pc => Unmarked' = 1)
      BY <1>3, <2>2 DEF KeepsCommitted, Unmarked
    <3> QED
      BY <1>0, <1>3, <3>1, <3>2 DEF CommitsOnRecord, StoresTyped
  <2> QED
    BY <2>1, <2>2
<1> QED
  BY <1>1, <1>2, <1>3, LedgerEffect, BranchEffect DEF GitCommit, MarkCommitted

(* Nothing is written before a first session has recorded its baseline.    *)
LEMMA UntouchedKept ==
  ASSUME Inv, Untouched, [Next]_vars
  PROVE  Untouched'
<1>0. StoresTyped /\ pc \in {"idle"} \cup Active \cup Stopped
  BY Stores DEF Inv, TypeOK, SessionTypes
<1>1. CASE UNCHANGED vars
  BY <1>1 DEF vars, gitVars, commitVars, countVars, Untouched
<1>2. CASE Start
  <2>1. /\ pc = "idle" /\ pc' = "baseline" /\ sessions' = sessions + 1 /\ nCommitted' = 0
        /\ UNCHANGED <<branch, index, work>>
    BY <1>2 DEF Start, NewSession, gitVars
  <2> QED
    BY <1>0, <2>1 DEF Untouched, StoresTyped
<1>3. CASE Resume
  <2>1. /\ pc \in Stopped /\ pc' \in {"baseline", "iterate"} /\ sessions' = sessions + 1
        /\ nCommitted' = 0
    BY <1>3 DEF Resume, NewSession
  <2>2. sessions # 0 /\ sessions' > 1
    BY <1>0, <2>1 DEF Untouched, StoresTyped, Stopped
  <2> QED
    BY <1>0, <2>1, <2>2 DEF Untouched, StoresTyped
<1>4. ASSUME pc \in Active, pc' \notin {"idle", "baseline"}, sessions' = sessions
      PROVE  Untouched'
  <2>1. pc # "idle"
    BY <1>4 DEF Active, CommitSteps
  <2> QED
    BY <1>4, <2>1 DEF Untouched
<1>5. CASE SetupBaseline \/ SelectCandidates \/ RefusePeek \/ ConfirmAccepts \/ ConfirmRejects
           \/ OptimizeWinner
  BY <1>4, <1>5 DEF SetupBaseline, SelectCandidates, RefusePeek, ConfirmAccepts,
     ConfirmRejects, OptimizeWinner, countVars, Active
<1>6. CASE WriteStrategy \/ WriteConfig \/ RecordWinner \/ GitAdd \/ GitCommit
  BY <1>4, <1>6 DEF WriteStrategy, WriteConfig, RecordWinner, GitAdd, GitCommit, countVars,
     Active, CommitSteps
<1>7. CASE MarkCommitted
  <2>1. pc = "mark_committed" /\ pc' = "record" /\ sessions' = sessions
    BY <1>7, Zenon DEF MarkCommitted, countVars
  <2> QED
    BY <1>4, <2>1 DEF Active, CommitSteps
<1>8. CASE RecordFinalist \/ RecordLoser \/ FinishIteration \/ FinishRun
  BY <1>4, <1>8 DEF RecordFinalist, RecordLoser, FinishIteration, FinishRun, LoopOver,
     countVars, Active
<1>9. CASE CommitFails \/ Abort
  BY <1>4, <1>9 DEF CommitFails, Abort, countVars, Active, CommitSteps
<1> QED
  BY <1>1, <1>2, <1>3, <1>5, <1>6, <1>7, <1>8, <1>9, StepKinds DEF Outside

\* What does not depend on the step the session is at
IncumbentRecorded ==
  /\ incumbent.returns = incumbent.edit
  /\ incumbent.id \in DOMAIN attempts
  /\ attempts[incumbent.id].edit = incumbent.edit
  /\ \A i \in CommittedRows : i <= incumbent.id

(* The incumbent follows the branch.                                       *)
LEMMA IncumbentNewestKept ==
  ASSUME Inv, Staging, Untouched, IncumbentNewest, [Next]_vars
  PROVE  IncumbentNewest'
<1> DEFINE In == pc \in Active \ {"baseline"}
<1>0. StoresTyped
  BY Stores DEF Inv
<1>1. ASSUME KeepsCommitted, In, IncumbentRecorded, UNCHANGED incumbent
      PROVE  IncumbentRecorded'
  BY <1>1 DEF KeepsCommitted, IncumbentRecorded
<1>2. CASE UNCHANGED vars
  BY <1>2 DEF vars, ledgerVars, gitVars, commitVars, countVars, IncumbentNewest, Settled,
     CommittedRows, HeadFiles
<1>3. CASE Start \/ Resume
  <2>1. pc' = "baseline" \/ (pc \in Stopped /\ sessions' = sessions + 1 /\ nCommitted' = 0)
    BY <1>3 DEF Start, Resume, NewSession
  <2>2. pc \in Stopped => sessions # 0
    BY DEF Untouched, Stopped
  <2>3. pc' = "baseline" \/ ~ Settled'
    BY <1>0, <2>1, <2>2 DEF Settled, StoresTyped
  <2> QED
    BY <2>3 DEF IncumbentNewest
<1>4. CASE SetupBaseline
  <2> DEFINE r == RowOf(0, work.code, TRUE, TRUE, Len(branch), TRUE)
  <2>1. /\ pc = "baseline" /\ pc' = "iterate" /\ attempts = << >>
        /\ attempts' = Append(attempts, r)
        /\ incumbent' = [edit |-> work.code, returns |-> work.code, id |-> Len(attempts) + 1]
        /\ UNCHANGED <<branch, index, work, sessions, nCommitted>>
    BY <1>4 DEF SetupBaseline, gitVars, countVars, Inv, BaselineFirst
  <2>2. r.edit = work.code
    BY DEF RowOf
  <2> HIDE DEF r
  <2>3. /\ incumbent'.id = 1 /\ incumbent'.edit = work.code /\ incumbent'.returns = work.code
        /\ 1 \in DOMAIN attempts' /\ attempts'[1] = r
    BY <2>1
  <2>4. CommittedRows' = {}
    <3>1. ~ MarkCommitted
      BY <2>1 DEF MarkCommitted
    <3>2. KeepsCommitted
      BY <3>1, LedgerEffect
    <3> QED
      BY <2>1, <3>2 DEF KeepsCommitted, CommittedRows
  <2>5. ASSUME Settled' PROVE branch = << >> /\ index = Files(Baseline) /\ work = Files(Baseline)
    <3>1. nCommitted = 0
      BY <2>1 DEF Untouched
    <3>2. sessions = 1
      BY <2>1, <2>5, <3>1 DEF Settled
    <3> QED
      BY <2>1, <3>2 DEF Untouched
  <2>6. ASSUME Settled'
        PROVE  HeadFiles' = Files(incumbent'.edit) /\ index' = HeadFiles' /\ work' = HeadFiles'
    BY <2>1, <2>3, <2>5, <2>6 DEF HeadFiles, Files
  <2> QED
    BY <2>1, <2>2, <2>3, <2>4, <2>6 DEF IncumbentNewest, Files
<1>5. ASSUME In, KeepsCommitted, UNCHANGED <<incumbent, sessions, nCommitted, branch>>,
             pc' # "mark_committed", pc # "mark_committed",
             pc' \notin CommitSteps => pc \notin CommitSteps /\ UNCHANGED <<index, work>>
      PROVE  IncumbentNewest'
  <2> SUFFICES ASSUME Settled'
               PROVE  /\ IncumbentRecorded'
                      /\ HeadFiles' = Files(incumbent'.edit)
                      /\ pc' \notin CommitSteps => index' = HeadFiles' /\ work' = HeadFiles'
    BY DEF IncumbentNewest, IncumbentRecorded
  <2>1. Settled /\ HeadFiles' = HeadFiles
    BY <1>5 DEF Settled, HeadFiles
  <2>2. /\ IncumbentRecorded /\ HeadFiles = Files(incumbent.edit)
        /\ pc \notin CommitSteps => index = HeadFiles /\ work = HeadFiles
    BY <1>5, <2>1 DEF IncumbentNewest, IncumbentRecorded
  <2> QED
    BY <1>1, <1>5, <2>1, <2>2 DEF Files
<1>6. CASE SelectCandidates \/ RefusePeek \/ ConfirmAccepts \/ ConfirmRejects \/ OptimizeWinner
  <2>1. /\ pc \in {"iterate", "confirm", "optimize"} /\ pc' # "mark_committed"
        /\ UNCHANGED <<attempts, branch, index, work, incumbent, sessions, nCommitted>>
    BY <1>6 DEF SelectCandidates, RefusePeek, ConfirmAccepts, ConfirmRejects, OptimizeWinner,
       ledgerVars, gitVars, commitVars, countVars
  <2>2. KeepsCommitted
    BY <2>1 DEF KeepsCommitted, CommittedRows
  <2> QED
    BY <1>5, <2>1, <2>2 DEF Active, CommitSteps
<1>7. CASE WriteStrategy \/ WriteConfig \/ RecordWinner \/ GitAdd
  <2>1. /\ pc \in CommitSteps \ {"mark_committed"} /\ pc' \in CommitSteps \ {"mark_committed"}
        /\ UNCHANGED <<branch, incumbent, sessions, nCommitted>>
    BY <1>7 DEF WriteStrategy, WriteConfig, RecordWinner, GitAdd, gitVars, commitVars,
       countVars, CommitSteps
  <2>2. ~ MarkCommitted
    BY <2>1 DEF MarkCommitted
  <2> QED
    BY <1>5, <2>1, <2>2, LedgerEffect DEF Active, CommitSteps
<1>8. CASE GitCommit
  <2>1. /\ pc = "git_commit" /\ pc' = "mark_committed"
        /\ UNCHANGED <<attempts, incumbent, sessions, nCommitted>>
    BY <1>8 DEF GitCommit, ledgerVars, commitVars, countVars
  <2>2. KeepsCommitted
    BY <2>1 DEF KeepsCommitted, CommittedRows
  <2>3. In
    BY <2>1 DEF Active, CommitSteps
  <2>4. Settled' => IncumbentRecorded'
    BY <1>1, <2>1, <2>2, <2>3 DEF IncumbentNewest, IncumbentRecorded, Settled
  <2> QED
    BY <2>1, <2>4 DEF IncumbentNewest, IncumbentRecorded, CommitSteps
<1>9. CASE MarkCommitted
  <2> DEFINE n == Len(attempts)
  <2>1. /\ pc = "mark_committed" /\ pc' = "record" /\ UNCHANGED <<branch, index, work>>
        /\ incumbent' = WinnerIncumbent
    BY <1>9, Zenon DEF MarkCommitted, gitVars
  <2>2. incumbent'.edit = winner /\ incumbent'.returns = winner /\ incumbent'.id = n
    BY <2>1 DEF WinnerIncumbent, AttemptId
  <2>3. Commits
    BY <1>9, LedgerEffect
  <2>4. attempts[n].edit = winner /\ work = Files(winner) /\ index = Files(winner)
        /\ HeadFiles = Files(winner)
    BY <2>1 DEF Staging, Acknowledging
  <2>5. n \in DOMAIN attempts' /\ attempts'[n].edit = winner
    BY <2>3, <2>4 DEF Commits
  <2>6. \A i \in CommittedRows' : i <= n
    BY <1>0, <2>3 DEF Commits, CommittedRows, StoresTyped
  <2>7. HeadFiles' = HeadFiles
    BY <2>1 DEF HeadFiles
  <2> HIDE DEF n
  <2> QED
    BY <2>1, <2>2, <2>4, <2>5, <2>6, <2>7 DEF IncumbentNewest, CommitSteps, Files
<1>10. CASE RecordFinalist \/ RecordLoser \/ FinishIteration
  <2>1. /\ pc = "record" /\ pc' \in {"record", "iterate", "finish"}
        /\ UNCHANGED <<branch, index, work, incumbent, sessions, nCommitted>>
    BY <1>10 DEF RecordFinalist, RecordLoser, FinishIteration, gitVars, commitVars, countVars
  <2>2. ~ MarkCommitted
    BY <2>1 DEF MarkCommitted
  <2> QED
    BY <1>5, <2>1, <2>2, LedgerEffect DEF Active, CommitSteps
<1>11. CASE FinishRun \/ CommitFails \/ Abort
  <2>1. pc' \in Stopped
    BY <1>11 DEF FinishRun, CommitFails, Abort, Stopped
  <2> QED
    BY <2>1 DEF IncumbentNewest, Active, CommitSteps, Stopped
<1> QED
  BY <1>2, <1>3, <1>4, <1>6, <1>7, <1>8, <1>9, <1>10, <1>11, StepKinds DEF Outside

(* A winner is tuned only if numeric optimisation is on.                   *)
LEMMA TunesIfAskedKept ==
  ASSUME TunesIfAsked, [Next]_vars
  PROVE  TunesIfAsked'
<1> USE DEF TunesIfAsked
<1>1. CASE UNCHANGED vars
  BY <1>1 DEF vars
<1>2. CASE Start \/ Resume \/ SetupBaseline \/ SelectCandidates \/ RefusePeek
           \/ ConfirmAccepts \/ ConfirmRejects \/ OptimizeWinner
  BY <1>2 DEF Start, Resume, SetupBaseline, SelectCandidates, RefusePeek, ConfirmAccepts,
     ConfirmRejects, OptimizeWinner
<1>3. CASE WriteStrategy \/ WriteConfig \/ RecordWinner \/ GitAdd \/ GitCommit
  BY <1>3 DEF WriteStrategy, WriteConfig, RecordWinner, GitAdd, GitCommit
<1>4. MarkCommitted => pc' = "record"
  BY Zenon DEF MarkCommitted
<1>5. CASE RecordFinalist \/ RecordLoser \/ FinishIteration \/ FinishRun \/ CommitFails \/ Abort
  BY <1>5 DEF RecordFinalist, RecordLoser, FinishIteration, FinishRun, CommitFails, Abort
<1> QED
  BY <1>1, <1>2, <1>3, <1>4, <1>5, StepKinds DEF Outside

-----------------------------------------------------------------------------
(* The theorems *)

(* What commit_winner has staged, what the rows name and what the          *)
(* incumbent is hold together.                                             *)
THEOREM StoresInvariance == Spec => []StoreInv
<1>1. Init => StoreInv
  <2> SUFFICES ASSUME Init PROVE StoreInv
    OBVIOUS
  <2>1. /\ pc = "idle" /\ sessions = 0 /\ attempts = << >> /\ branch = << >>
        /\ index = Files(Baseline) /\ work = Files(Baseline) /\ faults = 0
    BY DEF Init
  <2>2. CommittedRows = {} /\ Cardinality(CommittedRows) = 0 /\ Len(branch) = 0
    BY <2>1, FS_EmptySet DEF CommittedRows
  <2>3. Staging /\ RowsOnBranch /\ IncumbentNewest
    BY <2>1, <2>2 DEF Staging, Acknowledging, RowsOnBranch, IncumbentNewest, Active, CommitSteps
  <2>4. CommitsOnRecord /\ Untouched /\ TunesIfAsked
    BY <2>1, <2>2 DEF CommitsOnRecord, Unmarked, Untouched, TunesIfAsked
  <2> QED
    BY <2>3, <2>4 DEF StoreInv
<1>2. Inv /\ StoreInv /\ [Next]_vars => StoreInv'
  BY StagingKept, RowsOnBranchKept, CommitsOnRecordKept, UntouchedKept, IncumbentNewestKept,
     TunesIfAskedKept
  DEF StoreInv
<1> QED
  BY <1>1, <1>2, Invariance, PTL DEF Spec

(* LedgerMatchesBranch: a row called committed names its commit, and a     *)
(* commit without such a row costs a fault.                                *)
THEOREM LedgerOnBranch == Spec => []LedgerMatchesBranch
<1>1. StoreInv => LedgerMatchesBranch
  BY DEF StoreInv, RowsOnBranch, CommitsOnRecord, Unmarked, LedgerMatchesBranch
<1> QED
  BY <1>1, StoresInvariance, PTL

(* StoresAgree: between two commits the branch, the index, the files on    *)
(* disk, the incumbent and its row are one edit.                           *)
THEOREM StoresInStep == Spec => []StoresAgree
<1>1. StoreInv => StoresAgree
  <2> SUFFICES ASSUME StoreInv, BetweenCommits, Settled
               PROVE  StoresAgree
    BY DEF StoresAgree, Settled
  <2>1. pc \in Active \ {"baseline"} /\ pc \notin CommitSteps
    BY DEF BetweenCommits
  <2>2. pc # "mark_committed"
    BY <2>1 DEF CommitSteps
  <2> QED
    BY <2>1, <2>2 DEF StoreInv, IncumbentNewest, StoresAgree
<1> QED
  BY <1>1, StoresInvariance, PTL

-----------------------------------------------------------------------------
(* The holdout budget of one asset universe *)

\* A call of confirm() whose row is still to be written
PendingPeek ==
  IF \/ pc \in {"write_strategy", "write_config", "record_winner"}
     \/ pc = "record" /\ peeked
  THEN 1 ELSE 0

\* peeked speaks of a rejected finalist.
PeekedFinalist ==
  /\ pc = "record" /\ peeked => finalist # NoEdit
  /\ pc \in Active \ {"record"} => ~ peeked

\* A peek is on record, about to be, or was lost to a fault.
PeeksRecorded(u) ==
  /\ attempts = << >> => peeks[u] = 0
  /\ attempts # << >> =>
       PriorPeeks[u] + 1 + peeks[u] <= PeeksOnRecord(u) + PendingPeek + faults
  /\ peeks[u] > 0 => PeeksOnRecord(u) + PendingPeek <= PeekLimit

PeekInv(u) == ~ NumericOpt => PeekedFinalist /\ PeeksRecorded(u)

(* The peeks on record are a number.                                       *)
LEMMA PeekCount ==
  ASSUME TypeOK, NEW u \in Hashes
  PROVE  IsFiniteSet(PeekRows(u)) /\ Cardinality(PeekRows(u)) \in Nat
         /\ PriorPeeks[u] \in Nat /\ PeeksOnRecord(u) \in Nat
<1>1. IsFiniteSet(1 .. Len(attempts)) /\ PeekRows(u) \subseteq 1 .. Len(attempts)
  BY Stores, FS_Interval DEF StoresTyped, PeekRows
<1>2. IsFiniteSet(PeekRows(u)) /\ Cardinality(PeekRows(u)) \in Nat
  BY <1>1, FS_Subset, FS_CardinalityType
<1>3. PriorPeeks[u] \in Nat
  BY EditsAssumption
<1> QED
  BY <1>2, <1>3 DEF PeeksOnRecord

(* A row that holds a holdout series adds one to them.                     *)
LEMMA PeekRowAdded ==
  ASSUME TypeOK, NEW u \in Hashes, NEW r \in Row, attempts' = Append(attempts, r),
         r.hash = u
  PROVE  PeeksOnRecord(u)' = PeeksOnRecord(u) + (IF r.peeked THEN 1 ELSE 0)
<1> DEFINE n == Len(attempts) + 1
<1>1. /\ DOMAIN attempts = 1 .. n - 1 /\ DOMAIN attempts' = 1 .. n /\ n \in Nat
      /\ \A i \in DOMAIN attempts : attempts'[i] = attempts[i]
      /\ attempts'[n] = r
  BY AppendRow, Stores DEF StoresTyped
<1>2. n \notin PeekRows(u)
  BY <1>1 DEF PeekRows
<1>3. PeekRows(u)' = PeekRows(u) \cup (IF r.peeked THEN {n} ELSE {})
  <2> HIDE DEF n
  <2>1. ASSUME NEW i PROVE i \in PeekRows(u)' <=> i \in PeekRows(u) \/ (i = n /\ r.peeked)
    BY <1>1 DEF PeekRows
  <2> QED
    BY <2>1
<1> HIDE DEF n
<1>4. Cardinality(PeekRows(u)') = Cardinality(PeekRows(u)) + (IF r.peeked THEN 1 ELSE 0)
  <2>1. CASE r.peeked
    BY <1>2, <1>3, <2>1, PeekCount, FS_AddElement
  <2>2. CASE ~ r.peeked
    BY <1>3, <2>2, PeekCount
  <2> QED
    BY <2>1, <2>2
<1> QED
  BY <1>4, PeekCount DEF PeeksOnRecord

(* mark_committed changes none of them.                                    *)
LEMMA PeekRowsMarked ==
  ASSUME Inv, MarkCommitted, NEW u \in Hashes
  PROVE  PeeksOnRecord(u)' = PeeksOnRecord(u)
<1> DEFINE n == Len(attempts)
<1>1. /\ n \in DOMAIN attempts /\ DOMAIN attempts' = DOMAIN attempts
      /\ \A i \in DOMAIN attempts : i # n => attempts'[i] = attempts[i]
      /\ attempts'[n] = [attempts[n] EXCEPT !.committed = TRUE, !.sha = Len(branch)]
  BY MarkedRow
<1> DEFINE old == attempts[n]
<1>2. old \in Row /\ attempts'[n] = [old EXCEPT !.committed = TRUE, !.sha = Len(branch)]
  BY <1>1, Stores DEF Inv, StoresTyped
<1> HIDE DEF old, n
<1>3. attempts'[n].hash = old.hash /\ attempts'[n].peeked = old.peeked
  BY <1>2 DEF Row
<1>4. \A i \in DOMAIN attempts : /\ attempts'[i].hash = attempts[i].hash
                                 /\ attempts'[i].peeked = attempts[i].peeked
  BY <1>1, <1>3 DEF old
<1>5. PeekRows(u)' = PeekRows(u)
  BY <1>1, <1>4 DEF PeekRows
<1> QED
  BY <1>5 DEF PeeksOnRecord

(* Every call of confirm() is checked against the rows on record, and its  *)
(* own row follows before the next.                                        *)
LEMMA PeekInvKept ==
  ASSUME NEW u, Hashes = {u}, Inv, TunesIfAsked, PeekInv(u), [Next]_vars
  PROVE  PeekInv(u)'
<1> SUFFICES ASSUME ~ NumericOpt PROVE PeekedFinalist' /\ PeeksRecorded(u)'
  BY DEF PeekInv
<1>0. /\ StoresTyped /\ PeeksOnRecord(u) \in Nat /\ PriorPeeks[u] \in Nat /\ peeks[u] \in Nat
      /\ datasetHash = u /\ PendingPeek \in {0, 1} /\ PendingPeek' \in {0, 1}
      /\ PeekLimit \in Nat /\ \A e \in Edits : DatasetHash[e] = u
  BY Stores, PeekCount, EditsAssumption, LimitsAssumption
     DEF Inv, TypeOK, HistoryTypes, SessionTypes, PendingPeek
<1>1. PeekedFinalist /\ PeeksRecorded(u)
  BY DEF PeekInv
<1>2. ASSUME UNCHANGED <<attempts, peeks>>,
             \/ PendingPeek' = PendingPeek /\ faults' = faults
             \/ PendingPeek' = 0 /\ faults' = faults + 1
      PROVE  PeeksRecorded(u)'
  <2>1. PeeksOnRecord(u)' = PeeksOnRecord(u)
    BY <1>2 DEF PeeksOnRecord, PeekRows
  <2>2. faults' \in Nat /\ faults \in Nat /\ PendingPeek' + faults' >= PendingPeek + faults
        /\ PendingPeek' <= PendingPeek
    BY <1>0, <1>2 DEF StoresTyped
  <2>3. attempts # << >> =>
          PriorPeeks[u] + 1 + peeks[u] <= PeeksOnRecord(u) + PendingPeek' + faults'
    <3>1. attempts # << >> =>
            PriorPeeks[u] + 1 + peeks[u] <= PeeksOnRecord(u) + PendingPeek + faults
      BY <1>1 DEF PeeksRecorded
    <3>2. \A a, b, c, d, e, f, g \in Nat :
            a + 1 + b <= c + d + e /\ f + g >= d + e => a + 1 + b <= c + f + g
      OBVIOUS
    <3>3. {PriorPeeks[u], peeks[u], PeeksOnRecord(u), PendingPeek, PendingPeek'} \subseteq Nat
      BY <1>0
    <3> QED
      BY <2>2, <3>1, <3>2, <3>3
  <2>4. peeks[u] > 0 => PeeksOnRecord(u) + PendingPeek' <= PeekLimit
    <3>1. peeks[u] > 0 => PeeksOnRecord(u) + PendingPeek <= PeekLimit
      BY <1>1 DEF PeeksRecorded
    <3> QED
      BY <1>0, <2>2, <3>1
  <2> QED
    BY <1>1, <1>2, <2>1, <2>3, <2>4 DEF PeeksRecorded
<1>3. CASE UNCHANGED vars
  <2>1. UNCHANGED <<attempts, peeks, pc, peeked, finalist, faults>>
    BY <1>3 DEF vars, ledgerVars, candVars
  <2> QED
    BY <1>1, <1>2, <2>1 DEF PendingPeek, PeekedFinalist
<1>4. CASE Start \/ Resume
  <2>1. /\ UNCHANGED <<attempts, peeks, faults>> /\ pc \in {"idle"} \cup Stopped
        /\ pc' \in {"baseline", "iterate"} /\ ~ peeked'
    BY <1>4 DEF Start, Resume, NewSession, ledgerVars
  <2>2. PendingPeek' = PendingPeek
    BY <2>1 DEF PendingPeek, Stopped
  <2> QED
    BY <1>2, <2>1, <2>2 DEF PeekedFinalist
<1>5. CASE SetupBaseline
  <2> DEFINE r == RowOf(0, work.code, TRUE, TRUE, Len(branch), TRUE)
  <2>1. /\ pc = "baseline" /\ pc' = "iterate" /\ attempts = << >>
        /\ attempts' = Append(attempts, r)
        /\ UNCHANGED <<peeks, faults, peeked>>
    BY <1>5 DEF SetupBaseline, candVars, Inv, BaselineFirst
  <2>2. r \in Row /\ r.hash = u /\ r.peeked
    <3>1. work.code \in Edits /\ Len(branch) \in Nat
      BY <1>0 DEF StoresTyped, Tree
    <3> QED
      BY <1>0, <3>1, RowOfType DEF RowOf
  <2> HIDE DEF r
  <2>3. PeeksOnRecord(u)' = PeeksOnRecord(u) + 1 /\ attempts' # << >>
    BY <1>0, <2>1, <2>2, PeekRowAdded DEF Inv
  <2>4. PeeksOnRecord(u) >= PriorPeeks[u]
    BY <1>0, PeekCount DEF PeeksOnRecord, Inv
  <2>5. peeks[u] = 0 /\ PendingPeek' = 0 /\ ~ peeked
    BY <1>1, <2>1 DEF PeeksRecorded, PendingPeek, PeekedFinalist, Active
  <2> QED
    BY <1>0, <2>1, <2>3, <2>4, <2>5 DEF PeeksRecorded, PeekedFinalist, StoresTyped
<1>6. CASE SelectCandidates \/ RefusePeek
  <2>1. /\ UNCHANGED <<attempts, peeks, faults, peeked>> /\ pc \in {"iterate", "confirm"}
        /\ pc' \in {"record", "confirm"}
    BY <1>6 DEF SelectCandidates, RefusePeek, ledgerVars, candVars
  <2>2. ~ peeked
    BY <1>1, <2>1 DEF PeekedFinalist, Active
  <2> QED
    BY <1>2, <2>1, <2>2 DEF PendingPeek, PeekedFinalist
<1>7. CASE ConfirmAccepts \/ ConfirmRejects
  <2>1. /\ pc = "confirm" /\ ~ BudgetExhausted /\ Peek /\ UNCHANGED <<attempts, faults>>
        /\ \/ pc' = "write_strategy" /\ peeked' = peeked
           \/ pc' = "record" /\ peeked' /\ finalist' = finalist
    BY <1>7 DEF ConfirmAccepts, ConfirmRejects, ledgerVars
  <2>2. finalist \in Edits /\ finalist # NoEdit /\ ~ peeked
    BY <1>1, <2>1, EditsAssumption DEF Inv, CandidateAtHand, PeekedFinalist, Active
  <2>3. DatasetHash[finalist] = u /\ peeks \in [Hashes -> Nat]
    BY <1>0, <2>2 DEF Inv, TypeOK, HistoryTypes
  <2>4. peeks'[u] = peeks[u] + 1 /\ PeeksOnRecord(u) < PeekLimit
    BY <1>0, <2>1, <2>3 DEF Peek, BudgetExhausted
  <2>5. PeeksOnRecord(u)' = PeeksOnRecord(u) /\ PendingPeek = 0 /\ PendingPeek' = 1
    BY <2>1 DEF PeeksOnRecord, PeekRows, PendingPeek
  <2>6. attempts # << >>
    BY <2>1 DEF Inv, BaselineFirst, Active
  <2>7. PriorPeeks[u] + 1 + peeks[u] <= PeeksOnRecord(u) + faults
    BY <1>0, <1>1, <2>5, <2>6 DEF PeeksRecorded, StoresTyped
  <2>8. PriorPeeks[u] + 1 + peeks'[u] <= PeeksOnRecord(u)' + PendingPeek' + faults'
    BY <1>0, <2>1, <2>4, <2>5, <2>7 DEF StoresTyped
  <2>9. PeeksOnRecord(u)' + PendingPeek' <= PeekLimit
    BY <1>0, <2>4, <2>5
  <2>10. PeeksRecorded(u)'
    BY <2>1, <2>6, <2>8, <2>9 DEF PeeksRecorded
  <2>11. PeekedFinalist'
    BY <2>1, <2>2 DEF PeekedFinalist
  <2> QED
    BY <2>10, <2>11
<1>8. ~ OptimizeWinner
  BY DEF OptimizeWinner, TunesIfAsked
<1>9. CASE WriteStrategy \/ WriteConfig \/ GitAdd \/ GitCommit
  <2>1. /\ UNCHANGED <<attempts, peeks, faults, peeked>>
        /\ \/ pc = "write_strategy" /\ pc' = "write_config"
           \/ pc = "write_config" /\ pc' = "record_winner"
           \/ pc = "git_add" /\ pc' = "git_commit"
           \/ pc = "git_commit" /\ pc' = "mark_committed"
    BY <1>9 DEF WriteStrategy, WriteConfig, GitAdd, GitCommit, ledgerVars, candVars
  <2>2. ~ peeked
    BY <1>1, <2>1 DEF PeekedFinalist, Active, CommitSteps
  <2>3. PendingPeek' = PendingPeek
    BY <2>1 DEF PendingPeek
  <2> QED
    BY <1>2, <2>1, <2>2, <2>3 DEF PeekedFinalist
<1>10. CASE RecordWinner
  <2> DEFINE r == RowOf(k, winner, TRUE, FALSE, 0, TRUE)
  <2>1. /\ pc = "record_winner" /\ pc' = "git_add" /\ attempts' = Append(attempts, r)
        /\ UNCHANGED <<peeks, faults, peeked>>
    BY <1>10 DEF RecordWinner, candVars
  <2>2. r \in Row /\ r.hash = u /\ r.peeked
    <3>1. winner \in Edits /\ k \in Nat
      BY <2>1 DEF Inv, CandidateAtHand, CommitSteps, TypeOK, SessionTypes
    <3> QED
      BY <1>0, <3>1, RowOfType DEF RowOf
  <2> HIDE DEF r
  <2>3. /\ PeeksOnRecord(u)' = PeeksOnRecord(u) + 1 /\ attempts' # << >>
        /\ attempts # << >>
    BY <1>0, <2>1, <2>2, PeekRowAdded DEF Inv, BaselineFirst, Active, CommitSteps
  <2>4. PendingPeek = 1 /\ PendingPeek' = 0 /\ ~ peeked
    BY <1>1, <2>1 DEF PendingPeek, PeekedFinalist, Active, CommitSteps
  <2>5. PriorPeeks[u] + 1 + peeks'[u] <= PeeksOnRecord(u)' + PendingPeek' + faults'
    BY <1>0, <1>1, <2>1, <2>3, <2>4 DEF PeeksRecorded, StoresTyped
  <2>6. peeks'[u] > 0 => PeeksOnRecord(u)' + PendingPeek' <= PeekLimit
    BY <1>0, <1>1, <2>1, <2>3, <2>4 DEF PeeksRecorded
  <2>7. PeeksRecorded(u)'
    BY <2>3, <2>5, <2>6 DEF PeeksRecorded
  <2> QED
    BY <2>1, <2>4, <2>7 DEF PeekedFinalist
<1>11. CASE MarkCommitted
  <2>1. /\ pc = "mark_committed" /\ pc' = "record" /\ UNCHANGED <<peeks, faults, peeked>>
        /\ attempts # << >> /\ attempts' # << >>
    <3>1. pc = "mark_committed" /\ pc' = "record" /\ UNCHANGED <<peeks, faults, peeked>>
      BY <1>11, Zenon DEF MarkCommitted, candVars
    <3>2. attempts # << >>
      BY <3>1 DEF Inv, BaselineFirst, Active, CommitSteps
    <3>3. Len(attempts') = Len(attempts) /\ attempts' \in Seq(Row)
      BY <1>11, MarkedRow
    <3> QED
      BY <1>0, <3>1, <3>2, <3>3 DEF StoresTyped
  <2>2. PendingPeek = 0 /\ PendingPeek' = 0 /\ ~ peeked
    BY <1>1, <2>1 DEF PendingPeek, PeekedFinalist, Active, CommitSteps
  <2>3. PeeksOnRecord(u)' = PeeksOnRecord(u)
    BY <1>11, PeekRowsMarked
  <2>4. PeeksRecorded(u)'
    BY <1>1, <2>1, <2>2, <2>3 DEF PeeksRecorded
  <2> QED
    BY <2>1, <2>2, <2>4 DEF PeekedFinalist
<1>12. CASE RecordFinalist \/ RecordLoser
  <2>1. PICK e \in Edits, pk \in BOOLEAN :
          /\ attempts' = Append(attempts, RowOf(k, e, FALSE, FALSE, 0, pk))
          /\ pc = "record" /\ pc' = "record" /\ UNCHANGED <<peeks, faults>>
          /\ \/ pk = peeked /\ ~ peeked'
             \/ ~ pk /\ UNCHANGED <<peeked, finalist>>
    <3>1. CASE RecordFinalist
      <4>1. finalist \in Edits /\ peeked \in BOOLEAN
        BY <3>1 DEF RecordFinalist, Inv, TypeOK, IterationTypes
      <4> QED
        BY <3>1, <4>1 DEF RecordFinalist
    <3>2. CASE RecordLoser
      <4>1. losers \subseteq Edits
        BY DEF Inv, TypeOK, IterationTypes
      <4> QED
        BY <3>2, <4>1 DEF RecordLoser
    <3> QED
      BY <1>12, <3>1, <3>2
  <2> DEFINE r == RowOf(k, e, FALSE, FALSE, 0, pk)
  <2>2. r \in Row /\ r.hash = u /\ r.peeked = pk
    <3>1. k \in Nat
      BY DEF Inv, TypeOK, SessionTypes
    <3> QED
      BY <1>0, <3>1, RowOfType DEF RowOf
  <2>3. attempts' = Append(attempts, r)
    BY <2>1
  <2> HIDE DEF r
  <2>4. /\ PeeksOnRecord(u)' = PeeksOnRecord(u) + (IF pk THEN 1 ELSE 0)
        /\ attempts' # << >> /\ attempts # << >>
    <3>1. attempts # << >>
      BY <2>1 DEF Inv, BaselineFirst, Active, CommitSteps
    <3>2. attempts' # << >>
      BY <1>0, <2>2, <2>3
    <3>3. PeeksOnRecord(u)' = PeeksOnRecord(u) + (IF r.peeked THEN 1 ELSE 0)
      BY <1>0, <2>2, <2>3, PeekRowAdded DEF Inv
    <3>4. (IF r.peeked THEN 1 ELSE 0) = IF pk THEN 1 ELSE 0
      BY <2>2, Zenon
    <3> QED
      BY <3>1, <3>2, <3>3, <3>4
  <2>5. PendingPeek = PendingPeek' + (IF pk THEN 1 ELSE 0)
    BY <2>1 DEF PendingPeek
  <2>6. PriorPeeks[u] + 1 + peeks'[u] <= PeeksOnRecord(u)' + PendingPeek' + faults'
    BY <1>0, <1>1, <2>1, <2>4, <2>5 DEF PeeksRecorded, StoresTyped
  <2>7. peeks'[u] > 0 => PeeksOnRecord(u)' + PendingPeek' <= PeekLimit
    BY <1>0, <1>1, <2>1, <2>4, <2>5 DEF PeeksRecorded
  <2>8. PeeksRecorded(u)'
    BY <2>4, <2>6, <2>7 DEF PeeksRecorded
  <2>9. PeekedFinalist'
    BY <1>1, <2>1 DEF PeekedFinalist
  <2> QED
    BY <2>8, <2>9
<1>13. CASE FinishIteration
  <2>1. /\ pc = "record" /\ finalist = NoEdit /\ pc' \in {"iterate", "finish"}
        /\ UNCHANGED <<attempts, peeks, faults, peeked>>
    BY <1>13 DEF FinishIteration
  <2>2. ~ peeked
    BY <1>1, <2>1 DEF PeekedFinalist
  <2> QED
    BY <1>2, <2>1, <2>2 DEF PeekedFinalist, PendingPeek
<1>14. CASE FinishRun
  <2>1. /\ pc \in {"iterate", "finish"} /\ pc' \in {"returned", "raised"}
        /\ UNCHANGED <<attempts, peeks, faults>>
    BY <1>14 DEF FinishRun, LoopOver, ledgerVars
  <2> QED
    BY <1>2, <2>1 DEF PeekedFinalist, PendingPeek, Active, CommitSteps
<1>15. CASE CommitFails \/ Abort
  <2>1. /\ pc' \in Stopped /\ faults' = faults + 1 /\ UNCHANGED <<attempts, peeks>>
    BY <1>15 DEF CommitFails, Abort, ledgerVars, Stopped
  <2>2. PendingPeek' = 0
    BY <2>1 DEF PendingPeek, Stopped
  <2> QED
    BY <1>2, <2>1, <2>2 DEF PeekedFinalist, Active, CommitSteps, Stopped
<1> QED
  BY <1>3, <1>4, <1>5, <1>6, <1>7, <1>8, <1>9, <1>10, <1>11, <1>12, <1>13, <1>14, <1>15,
     StepKinds DEF Outside

(* PeekBudgetKept, for one asset universe: the calls of confirm() stay     *)
(* within the limit, but for one lost row per fault.                       *)
THEOREM BudgetKept ==
  ASSUME NEW u, Hashes = {u}
  PROVE  Spec => []PeekBudgetKept
<1>1. Init => PeekInv(u)
  <2> SUFFICES ASSUME Init PROVE PeekInv(u)
    OBVIOUS
  <2>1. attempts = << >> /\ peeks[u] = 0 /\ pc = "idle"
    BY DEF Init
  <2> QED
    BY <2>1 DEF PeekInv, PeekedFinalist, PeeksRecorded, Active, CommitSteps
<1>2. Inv /\ StoreInv /\ PeekInv(u) /\ [Next]_vars => PeekInv(u)'
  BY PeekInvKept DEF StoreInv
<1>3. Inv /\ PeekInv(u) => PeekBudgetKept
  <2> SUFFICES ASSUME Inv, PeekInv(u), ~ NumericOpt, attempts # << >>, peeks[u] > 0
               PROVE  PriorPeeks[u] + 1 + peeks[u] <= PeekLimit + faults
    BY DEF PeekBudgetKept
  <2>1. /\ PeeksOnRecord(u) \in Nat /\ PriorPeeks[u] \in Nat /\ peeks[u] \in Nat
        /\ PendingPeek \in {0, 1} /\ PeekLimit \in Nat /\ faults \in Nat
    BY PeekCount, LimitsAssumption DEF Inv, TypeOK, HistoryTypes, PendingPeek
  <2> QED
    BY <2>1 DEF PeekInv, PeeksRecorded
<1> QED
  BY <1>1, <1>2, <1>3, Invariance, StoresInvariance, PTL DEF Spec
-----------------------------------------------------------------------------
(* The counters and the mode of a session *)

InLoop == pc \in Active \ {"baseline"}

\* A winner is committed and its event not yet written.
Won == pc = "record" /\ winner # NoEdit

\* A session that has not begun to iterate
NothingYet ==
  pc = "baseline" =>
    /\ sessionStart = Len(events) /\ noAccept = 0 /\ mode = "explore" /\ earlyStopAt = 0
    /\ winner = NoEdit

Counted ==
  InLoop =>
    IF Won THEN noAccept = 0 /\ mode = "exploit" /\ exploitStall = 0 /\ earlyStopAt = 0
    ELSE noAccept = TrailingFailures

\* The mode the next iteration would have, if it is not stuck
ModeFollows ==
  InLoop /\ ~ Won =>
    /\ noAccept < StuckThreshold =>
         (mode = "exploit" <=> AcceptedThisSession /\ noAccept < ExploitPatience)
    /\ mode = "exploit" => exploitStall = noAccept
    /\ pc \notin {"iterate", "finish"} /\ noAccept >= StuckThreshold => mode = "explore"

NotStopped ==
  /\ pc \in {"iterate", "confirm", "optimize"} \cup CommitSteps => earlyStopAt = 0
  /\ pc \in {"iterate", "confirm", "finish"} => winner = NoEdit

ModeInv ==
  /\ sessionStart <= Len(events)
  /\ NothingYet /\ Counted /\ ModeFollows /\ NotStopped
  /\ StopsExactlyWhenDue

-----------------------------------------------------------------------------
(* The events of a session *)

Event == [iter : Nat, accepted : BOOLEAN, limit : BOOLEAN]

EventsTyped ==
  /\ events \in Seq(Event) /\ sessionStart \in Nat /\ sessionStart <= Len(events)
  /\ Len(events) \in Nat

SessionShape ==
  /\ Len(SessionEvents) = Len(events) - sessionStart
  /\ Len(SessionEvents) \in Nat
  /\ DOMAIN SessionEvents = 1 .. Len(SessionEvents)
  /\ \A i \in 1 .. Len(SessionEvents) : SessionEvents[i] = events[i + sessionStart]

(* The session's events are those after its start.                         *)
LEMMA SessionLength == EventsTyped => SessionShape
<1> SUFFICES ASSUME EventsTyped PROVE SessionShape
  OBVIOUS
<1>1. SessionEvents = [i \in 1 .. Len(events) - sessionStart |-> events[i + sessionStart]]
  BY SMT DEF SessionEvents, EventsTyped
<1> QED
  BY <1>1, SMT DEF EventsTyped, SessionShape

(* The same, after a step.                                                 *)
LEMMA SessionLengthNext == EventsTyped' => SessionShape'
BY SessionLength, PTL

(* An event is added to them at the end.                                   *)
LEMMA SessionGrows ==
  ASSUME EventsTyped, NEW e \in Event, events' = Append(events, e),
         sessionStart' = sessionStart
  PROVE  /\ Len(SessionEvents') = Len(SessionEvents) + 1
         /\ DOMAIN SessionEvents' = 1 .. Len(SessionEvents) + 1
         /\ \A i \in 1 .. Len(SessionEvents) : SessionEvents'[i] = SessionEvents[i]
         /\ SessionEvents'[Len(SessionEvents) + 1] = e
         /\ EventsTyped'
<1>1. /\ events' \in Seq(Event) /\ Len(events') = Len(events) + 1
      /\ \A i \in 1 .. Len(events) : events'[i] = events[i]
      /\ events'[Len(events) + 1] = e
  BY DEF EventsTyped
<1>2. EventsTyped'
  BY <1>1 DEF EventsTyped
<1>3. /\ Len(SessionEvents') = Len(events') - sessionStart'
      /\ DOMAIN SessionEvents' = 1 .. Len(SessionEvents')
      /\ \A i \in 1 .. Len(SessionEvents') : SessionEvents'[i] = events'[i + sessionStart']
  BY <1>2, SessionLengthNext DEF SessionShape
<1> QED
  BY <1>1, <1>2, <1>3, SessionLength DEF EventsTyped, SessionShape

Accepts == {i \in DOMAIN SessionEvents : SessionEvents[i].accepted}

\* The last of some positions, as TrailingFailures names it
LastOf(S) == CHOOSE i \in S : \A j \in S : j <= i

(* There is a last acceptance, if there is one.                            *)
LEMMA LastAccept ==
  ASSUME NEW n \in Nat, NEW S \in SUBSET (1 .. n), S # {}
  PROVE  LastOf(S) \in S /\ \A j \in S : j <= LastOf(S)
<1>0. IsFiniteSet(1 .. n)
  BY FS_Interval
<1>1. IsFiniteSet(S) /\ S \in SUBSET Int
  <2>1. IsFiniteSet(S)
    BY <1>0, FS_Subset
  <2>2. S \in SUBSET Int
    OBVIOUS
  <2> QED
    BY <2>1, <2>2
<1>2. Max(S) \in S /\ \A j \in S : j <= Max(S)
  BY <1>1, FiniteMax
<1> DEFINE P(i) == \A j \in S : j <= i
<1>3. Max(S) \in S /\ P(Max(S))
  BY <1>2
<1>4. LastOf(S) = CHOOSE i \in S : P(i)
  BY DEF LastOf
<1> HIDE DEF P
<1>5. LastOf(S) \in S /\ P(LastOf(S))
  BY <1>3, <1>4
<1> QED
  BY <1>5 DEF P

Trailing(n, S) == IF S = {} THEN n ELSE n - LastOf(S)

(* TrailingFailures, by the acceptances' positions.                        *)
LEMMA TrailingByAccepts ==
  TrailingFailures = Trailing(Len(SessionEvents), Accepts)
BY DEF TrailingFailures, Trailing, Accepts, LastOf

(* A failure adds one to the trailing failures, an acceptance ends them.   *)
LEMMA TrailingStep ==
  ASSUME EventsTyped, NEW e \in Event, events' = Append(events, e),
         sessionStart' = sessionStart
  PROVE  /\ e.accepted => TrailingFailures' = 0 /\ AcceptedThisSession'
         /\ ~ e.accepted => /\ TrailingFailures' = TrailingFailures + 1
                            /\ AcceptedThisSession' <=> AcceptedThisSession
<1> DEFINE n == Len(SessionEvents)
<1>1. /\ n \in Nat /\ Len(SessionEvents') = n + 1 /\ DOMAIN SessionEvents = 1 .. n
      /\ DOMAIN SessionEvents' = 1 .. n + 1
      /\ \A i \in 1 .. n : SessionEvents'[i] = SessionEvents[i]
      /\ SessionEvents'[n + 1] = e
  BY SessionLength, SessionGrows DEF SessionShape
<1>2. Accepts \subseteq 1 .. n
  BY <1>1 DEF Accepts
<1>3. Accepts' = IF e.accepted THEN Accepts \cup {n + 1} ELSE Accepts
  <2> HIDE DEF n
  <2>1. ASSUME NEW i PROVE i \in Accepts' <=> i \in Accepts \/ (i = n + 1 /\ e.accepted)
    BY <1>1 DEF Accepts
  <2> QED
    BY <2>1
<1>4. TrailingFailures' = Trailing(Len(SessionEvents'), Accepts')
  BY DEF TrailingFailures, Trailing, Accepts, LastOf
<1>5. /\ AcceptedThisSession <=> Accepts # {}
      /\ AcceptedThisSession' <=> Accepts' # {}
  BY DEF AcceptedThisSession, Accepts
<1> HIDE DEF n
<1>6. CASE e.accepted
  <2>1. Accepts' = Accepts \cup {n + 1}
    BY <1>3, <1>6
  <2> DEFINE S == Accepts \cup {n + 1}
  <2>2. S \in SUBSET (1 .. n + 1) /\ S # {} /\ n + 1 \in Nat
    BY <1>1, <1>2
  <2>3. LastOf(S) \in S /\ n + 1 <= LastOf(S)
    BY <2>2, LastAccept
  <2>4. LastOf(S) = n + 1
    BY <1>1, <2>2, <2>3
  <2> QED
    BY <1>1, <1>4, <1>5, <1>6, <2>1, <2>4 DEF Trailing
<1>7. CASE ~ e.accepted
  <2>1. Accepts' = Accepts
    BY <1>3, <1>7
  <2>2. Accepts # {} => LastOf(Accepts) \in 1 .. n
    BY <1>1, <1>2, LastAccept
  <2>3. Trailing(n + 1, Accepts) = Trailing(n, Accepts) + 1
    BY <1>1, <2>2 DEF Trailing
  <2> QED
    BY <1>1, <1>4, <1>5, <1>7, <2>1, <2>3, TrailingByAccepts DEF n
<1> QED
  BY <1>6, <1>7

Due ==
  LET ev == SessionEvents
  IN  /\ ev # <<>>
      /\ \/ ev[Len(ev)].limit
         \/ Patience > 0 /\ TrailingFailures >= Patience

NoEvents  == EventsTyped /\ sessionStart = Len(events)
NoVerdict == TrailingFailures = 0 /\ ~ AcceptedThisSession /\ ~ Due

(* A session without events has no trailing failures and goes on.          *)
LEMMA FreshSession == NoEvents => NoVerdict
<1> SUFFICES ASSUME NoEvents PROVE NoVerdict
  OBVIOUS
<1>1. Len(SessionEvents) = 0 /\ DOMAIN SessionEvents = {}
  BY SessionLength DEF SessionShape, EventsTyped, NoEvents
<1>2. SessionEvents = << >>
  <2>1. SessionEvents = [i \in 1 .. Len(events) - sessionStart |-> events[i + sessionStart]]
    BY SMT DEF SessionEvents, EventsTyped, NoEvents
  <2>2. Len(events) - sessionStart = 0
    BY DEF EventsTyped, NoEvents
  <2> QED
    BY <2>1, <2>2, SMT
<1>3. Accepts = {} /\ ~ AcceptedThisSession
  BY <1>1 DEF Accepts, AcceptedThisSession
<1> QED
  BY <1>1, <1>2, <1>3, TrailingByAccepts DEF Trailing, Due, NoVerdict

(* The same, after a step.                                                 *)
LEMMA FreshSessionNext == NoEvents' => NoVerdict'
BY FreshSession, PTL

\* The counters as TypeOK has them
CountersTyped ==
  /\ events \in Seq(Event) /\ Len(events) \in Nat /\ sessionStart \in Nat
  /\ noAccept \in Nat /\ exploitStall \in Nat /\ earlyStopAt \in Nat /\ k \in Nat
  /\ mode \in {"explore", "exploit"}

(* The types these proofs need.                                            *)
LEMMA Counters == TypeOK => CountersTyped
BY DEF TypeOK, StoreTypes, SessionTypes, HistoryTypes, CountersTyped, Event

(* The event of an iteration and the counters agree.                       *)
LEMMA FinishIterationKeepsMode ==
  ASSUME Inv, ModeInv, FinishIteration
  PROVE  ModeInv'
<1> DEFINE e == [iter |-> k, accepted |-> winner # NoEdit, limit |-> earlyStopAt # 0]
<1>1. /\ pc = "record" /\ events' = Append(events, e) /\ sessionStart' = sessionStart
      /\ winner' = NoEdit
      /\ pc' = (IF earlyStopAt' # 0 THEN "finish" ELSE "iterate")
  BY DEF FinishIteration, countVars
<1>2. CountersTyped /\ EventsTyped /\ InLoop /\ k > 0
  BY <1>1, Counters DEF Inv, ModeInv, CountersTyped, EventsTyped, InLoop, Active, CommitSteps,
     BaselineFirst
<1>3. e \in Event /\ (e.accepted <=> winner # NoEdit) /\ (e.limit <=> earlyStopAt # 0)
  BY <1>2 DEF Event, CountersTyped
<1> HIDE DEF e
<1>4. /\ Len(SessionEvents') = Len(SessionEvents) + 1 /\ EventsTyped'
      /\ SessionEvents'[Len(SessionEvents) + 1] = e
      /\ Len(SessionEvents) \in Nat
  BY <1>1, <1>2, <1>3, SessionGrows, SessionLength DEF SessionShape
<1>5. /\ e.accepted => TrailingFailures' = 0 /\ AcceptedThisSession'
      /\ ~ e.accepted => /\ TrailingFailures' = TrailingFailures + 1
                         /\ AcceptedThisSession' <=> AcceptedThisSession
  BY <1>1, <1>2, <1>3, TrailingStep
<1>6. ~ Won' /\ pc' \in {"iterate", "finish"}
  BY <1>1 DEF Won
<1>7. /\ noAccept' = TrailingFailures' /\ noAccept' \in Nat
      /\ noAccept' < StuckThreshold =>
           (mode' = "exploit" <=> AcceptedThisSession' /\ noAccept' < ExploitPatience)
      /\ mode' = "exploit" => exploitStall' = noAccept'
  <2>1. CASE winner = NoEdit
    <3>1. ~ Won /\ noAccept = TrailingFailures /\ CountFailure
      BY <1>2, <2>1 DEF Won, ModeInv, Counted, FinishIteration
    <3>2. /\ noAccept < StuckThreshold =>
               (mode = "exploit" <=> AcceptedThisSession /\ noAccept < ExploitPatience)
          /\ mode = "exploit" => exploitStall = noAccept
          /\ noAccept >= StuckThreshold => mode = "explore"
      BY <1>1, <1>2, <3>1 DEF ModeInv, ModeFollows
    <3>3. /\ noAccept' = noAccept + 1
          /\ mode' = (IF mode = "exploit" /\ exploitStall + 1 < ExploitPatience
                      THEN "exploit" ELSE "explore")
          /\ mode' = "exploit" => exploitStall' = exploitStall + 1
      BY <1>2, <3>1, LimitsAssumption DEF CountFailure, ExploitStalled, CountersTyped
    <3>4. TrailingFailures' = TrailingFailures + 1 /\ (AcceptedThisSession' <=> AcceptedThisSession)
      BY <1>3, <1>5, <2>1
    <3>5. noAccept \in Nat /\ ExploitPatience \in Nat /\ StuckThreshold \in Nat
      BY <1>2, LimitsAssumption DEF CountersTyped
    <3>6. noAccept' < StuckThreshold =>
             (mode' = "exploit" <=> AcceptedThisSession' /\ noAccept' < ExploitPatience)
      <4> SUFFICES ASSUME noAccept' < StuckThreshold
                   PROVE  mode' = "exploit" <=> AcceptedThisSession' /\ noAccept' < ExploitPatience
        OBVIOUS
      <4>1. noAccept < StuckThreshold
        BY <3>3, <3>5
      <4>2. CASE mode = "exploit"
        BY <3>2, <3>3, <3>4, <3>5, <4>1, <4>2
      <4>3. CASE mode # "exploit"
        <5>1. ~ AcceptedThisSession \/ ~ (noAccept < ExploitPatience)
          BY <3>2, <4>1, <4>3
        <5>2. noAccept' < ExploitPatience => noAccept < ExploitPatience
          BY <3>3, <3>5
        <5> QED
          BY <3>3, <3>4, <4>3, <5>1, <5>2
      <4> QED
        BY <4>2, <4>3
    <3>7. mode' = "exploit" => exploitStall' = noAccept'
      BY <3>2, <3>3
    <3> QED
      BY <3>1, <3>3, <3>4, <3>5, <3>6, <3>7
  <2>2. CASE winner # NoEdit
    <3>1. noAccept = 0 /\ mode = "exploit" /\ exploitStall = 0
      BY <1>1, <1>2, <2>2 DEF Won, ModeInv, Counted
    <3>2. noAccept' = noAccept /\ mode' = mode /\ exploitStall' = exploitStall
      BY <2>2 DEF FinishIteration, modeVars
    <3>3. TrailingFailures' = 0 /\ AcceptedThisSession'
      BY <1>3, <1>5, <2>2
    <3>4. 0 < ExploitPatience
      BY LimitsAssumption
    <3> QED
      BY <3>1, <3>2, <3>3, <3>4
  <2> QED
    BY <2>1, <2>2
<1>8. earlyStopAt' # 0 <=> e.limit \/ (Patience > 0 /\ noAccept' >= Patience)
  <2>1. earlyStopAt' = IF earlyStopAt = 0 /\ OutOfPatience(noAccept') THEN k ELSE earlyStopAt
    BY DEF FinishIteration
  <2> QED
    BY <1>2, <1>3, <2>1 DEF OutOfPatience, CountersTyped
<1>9. Due' <=> e.limit \/ (Patience > 0 /\ noAccept' >= Patience)
  <2>1. SessionEvents' # << >> /\ SessionEvents'[Len(SessionEvents')] = e
    BY <1>4
  <2> QED
    BY <1>7, <2>1 DEF Due
<1>10. StopsExactlyWhenDue'
  BY <1>1, <1>8, <1>9 DEF StopsExactlyWhenDue, Due
<1>11. Counted' /\ ModeFollows'
  BY <1>6, <1>7 DEF Counted, ModeFollows
<1>12. NothingYet' /\ NotStopped'
  BY <1>1 DEF NothingYet, NotStopped, CommitSteps
<1> QED
  BY <1>4, <1>10, <1>11, <1>12 DEF ModeInv, EventsTyped

(* Every step keeps the counters true to the session's events.             *)
LEMMA ModeKept ==
  ASSUME Inv, ModeInv, [Next]_vars
  PROVE  ModeInv'
<1>0. CountersTyped /\ EventsTyped
  BY Counters DEF Inv, ModeInv, CountersTyped, EventsTyped
<1>1. ASSUME UNCHANGED <<events, sessionStart>>
      PROVE  /\ TrailingFailures' = TrailingFailures
             /\ AcceptedThisSession' <=> AcceptedThisSession
             /\ sessionStart' <= Len(events')
             /\ pc' \notin {"finish", "iterate"} => StopsExactlyWhenDue'
             /\ StopsExactlyWhenDue /\ pc' = pc => StopsExactlyWhenDue'
  <2>1. SessionEvents' = SessionEvents
    BY <1>1 DEF SessionEvents
  <2>2. TrailingFailures' = TrailingFailures
    BY <2>1 DEF TrailingFailures
  <2>3. AcceptedThisSession' <=> AcceptedThisSession
    BY <2>1 DEF AcceptedThisSession
  <2>4. Due' <=> Due
    BY <2>1, <2>2 DEF Due
  <2>5. StopsExactlyWhenDue <=> (pc = "finish" => Due) /\ (pc = "iterate" => ~ Due)
    BY DEF StopsExactlyWhenDue, Due
  <2>6. StopsExactlyWhenDue' <=> (pc' = "finish" => Due') /\ (pc' = "iterate" => ~ Due')
    BY DEF StopsExactlyWhenDue, Due
  <2>7. sessionStart' <= Len(events')
    BY <1>0, <1>1 DEF EventsTyped
  <2> QED
    BY <2>2, <2>3, <2>4, <2>5, <2>6, <2>7
<1>2. CASE UNCHANGED vars
  <2>1. UNCHANGED <<events, sessionStart, pc, noAccept, mode, exploitStall, earlyStopAt, winner>>
    BY <1>2 DEF vars, ledgerVars, countVars, modeVars, candVars
  <2> QED
    BY <1>1, <2>1 DEF ModeInv, NothingYet, Counted, InLoop, Won, ModeFollows, NotStopped
<1>3. CASE Start \/ Resume
  <2>1. /\ pc' \in {"baseline", "iterate"} /\ events' = events /\ sessionStart' = Len(events)
        /\ noAccept' = 0 /\ mode' = "explore" /\ earlyStopAt' = 0 /\ winner' = NoEdit
    BY <1>3 DEF Start, Resume, NewSession, ledgerVars
  <2>2. NoEvents'
    BY <1>0, <2>1 DEF NoEvents, EventsTyped
  <2>3. TrailingFailures' = 0 /\ ~ AcceptedThisSession' /\ ~ Due'
    BY <2>2, FreshSessionNext DEF NoVerdict
  <2>4. NothingYet' /\ NotStopped' /\ sessionStart' <= Len(events')
    BY <1>0, <2>1 DEF NothingYet, NotStopped, CommitSteps, EventsTyped
  <2>5. Counted' /\ ModeFollows'
    BY <2>1, <2>3 DEF Counted, ModeFollows, Won
  <2>6. StopsExactlyWhenDue'
    BY <2>1, <2>3 DEF StopsExactlyWhenDue, Due
  <2> QED
    BY <2>4, <2>5, <2>6 DEF ModeInv
<1>4. CASE SetupBaseline
  <2>1. /\ pc = "baseline" /\ pc' = "iterate"
        /\ UNCHANGED <<events, sessionStart, noAccept, mode, exploitStall, earlyStopAt, winner>>
    BY <1>4 DEF SetupBaseline, countVars, modeVars, candVars
  <2>2. /\ sessionStart = Len(events) /\ noAccept = 0 /\ mode = "explore" /\ earlyStopAt = 0
        /\ winner = NoEdit
    BY <2>1 DEF ModeInv, NothingYet
  <2>3. NoEvents'
    BY <1>0, <2>1, <2>2 DEF NoEvents, EventsTyped
  <2>4. TrailingFailures' = 0 /\ ~ AcceptedThisSession' /\ ~ Due'
    BY <2>3, FreshSessionNext DEF NoVerdict
  <2>5. NothingYet' /\ NotStopped'
    BY <2>1, <2>2 DEF NothingYet, NotStopped, CommitSteps
  <2>6. Counted' /\ ModeFollows'
    BY <2>1, <2>2, <2>4 DEF Counted, ModeFollows, Won
  <2>7. StopsExactlyWhenDue'
    BY <2>1, <2>4 DEF StopsExactlyWhenDue, Due
  <2> QED
    BY <1>1, <2>1, <2>5, <2>6, <2>7 DEF ModeInv
<1>5. CASE SelectCandidates
  <2>1. /\ pc = "iterate" /\ pc' \in {"record", "confirm"} /\ mode' = PreparedMode
        /\ exploitStall' = (IF noAccept >= StuckThreshold THEN 0 ELSE exploitStall)
        /\ UNCHANGED <<events, sessionStart, noAccept, earlyStopAt, winner>>
    BY <1>5 DEF SelectCandidates, ledgerVars, countVars
  <2>2. /\ winner = NoEdit /\ earlyStopAt = 0 /\ InLoop /\ ~ Won
    BY <2>1 DEF ModeInv, NotStopped, InLoop, Active, CommitSteps, Won
  <2>3. NothingYet' /\ NotStopped' /\ ~ Won'
    BY <2>1, <2>2 DEF NothingYet, NotStopped, CommitSteps, Won
  <2>4. noAccept = TrailingFailures
    BY <2>2 DEF ModeInv, Counted
  <2>5. /\ noAccept < StuckThreshold =>
             (mode = "exploit" <=> AcceptedThisSession /\ noAccept < ExploitPatience)
        /\ mode = "exploit" => exploitStall = noAccept
    BY <2>2 DEF ModeInv, ModeFollows
  <2>6. /\ noAccept >= StuckThreshold => mode' = "explore"
        /\ noAccept < StuckThreshold => mode' = mode /\ exploitStall' = exploitStall
    <3>1. noAccept < StuckThreshold <=> ~ (noAccept >= StuckThreshold)
      BY <1>0, LimitsAssumption DEF CountersTyped
    <3> QED
      BY <2>1, <3>1 DEF PreparedMode
  <2>7. noAccept < StuckThreshold \/ noAccept >= StuckThreshold
    BY <1>0, LimitsAssumption DEF CountersTyped
  <2>8. Counted' /\ ModeFollows'
    BY <1>1, <2>1, <2>3, <2>4, <2>5, <2>6, <2>7 DEF Counted, ModeFollows
  <2> QED
    BY <1>1, <2>1, <2>3, <2>8 DEF ModeInv
<1>6. ASSUME InLoop, ~ Won, ~ Won', pc' \notin {"baseline", "iterate", "finish"},
             pc # "iterate", pc # "finish", NotStopped',
             UNCHANGED <<events, sessionStart, noAccept, mode, exploitStall>>
      PROVE  ModeInv'
  <2>1. Counted' /\ ModeFollows'
    BY <1>1, <1>6 DEF ModeInv, Counted, ModeFollows
  <2> QED
    BY <1>1, <1>6, <2>1 DEF ModeInv, NothingYet
<1>7. CASE RefusePeek \/ ConfirmRejects
  <2>1. /\ pc = "confirm" /\ pc' = "record"
        /\ UNCHANGED <<events, sessionStart, noAccept, mode, exploitStall, winner>>
    BY <1>7 DEF RefusePeek, ConfirmRejects, ledgerVars, countVars, modeVars, candVars
  <2>2. winner = NoEdit
    BY <2>1 DEF ModeInv, NotStopped
  <2> QED
    BY <1>6, <2>1, <2>2 DEF Won, InLoop, Active, CommitSteps, NotStopped
<1>8. CASE ConfirmAccepts \/ OptimizeWinner \/ WriteStrategy \/ WriteConfig \/ RecordWinner
           \/ GitAdd \/ GitCommit
  <2>1. /\ pc \in {"confirm", "optimize"} \cup CommitSteps
        /\ pc' \in {"optimize"} \cup CommitSteps
        /\ UNCHANGED <<events, sessionStart, noAccept, mode, exploitStall, earlyStopAt>>
    BY <1>8 DEF ConfirmAccepts, OptimizeWinner, WriteStrategy, WriteConfig, RecordWinner,
       GitAdd, GitCommit, ledgerVars, countVars, modeVars, CommitSteps
  <2>2. earlyStopAt = 0
    BY <2>1 DEF ModeInv, NotStopped
  <2> QED
    BY <1>6, <2>1, <2>2 DEF Won, InLoop, Active, CommitSteps, NotStopped
<1>9. CASE MarkCommitted
  <2>1. /\ pc = "mark_committed" /\ pc' = "record" /\ noAccept' = 0 /\ mode' = "exploit"
        /\ exploitStall' = 0
        /\ UNCHANGED <<events, sessionStart, earlyStopAt, winner>>
    BY <1>9, Zenon DEF MarkCommitted, countVars, candVars
  <2>2. earlyStopAt = 0 /\ winner \in Edits /\ winner # NoEdit
    BY <2>1, EditsAssumption DEF ModeInv, NotStopped, CommitSteps, Inv, CandidateAtHand
  <2>3. Won'
    BY <2>1, <2>2 DEF Won
  <2>4. Counted' /\ ModeFollows' /\ NotStopped' /\ NothingYet'
    BY <2>1, <2>2, <2>3 DEF Counted, ModeFollows, NotStopped, NothingYet, CommitSteps
  <2> QED
    BY <1>1, <2>1, <2>4 DEF ModeInv
<1>10. CASE RecordFinalist \/ RecordLoser
  <2>1. /\ pc = "record" /\ pc' = "record"
        /\ UNCHANGED <<events, sessionStart, noAccept, mode, exploitStall, earlyStopAt, winner>>
    BY <1>10 DEF RecordFinalist, RecordLoser, countVars, modeVars
  <2> QED
    BY <1>1, <2>1 DEF ModeInv, NothingYet, Counted, InLoop, Won, ModeFollows, NotStopped
<1>11. CASE FinishRun \/ CommitFails \/ Abort
  <2>1. pc' \in Stopped /\ UNCHANGED <<events, sessionStart>>
    BY <1>11 DEF FinishRun, CommitFails, Abort, Stopped, ledgerVars, countVars
  <2>2. pc' \notin Active
    BY <2>1 DEF Stopped, Active, CommitSteps
  <2>3. NothingYet' /\ Counted' /\ ModeFollows' /\ NotStopped' /\ StopsExactlyWhenDue'
    BY <1>1, <2>1, <2>2 DEF NothingYet, Counted, InLoop, ModeFollows, NotStopped, Active,
       CommitSteps
  <2> QED
    BY <1>1, <2>1, <2>3 DEF ModeInv
<1> QED
  BY <1>2, <1>3, <1>4, <1>5, <1>7, <1>8, <1>9, <1>10, <1>11, FinishIterationKeepsMode
  DEF Next, Program, Iterate, CommitWinner

-----------------------------------------------------------------------------
(* The theorems *)

(* The counters of the session follow its events.                          *)
THEOREM ModeInvariance == Spec => []ModeInv
<1>1. Init => ModeInv
  <2> SUFFICES ASSUME Init PROVE ModeInv
    OBVIOUS
  <2>1. pc = "idle" /\ sessionStart = 0 /\ events = << >>
    BY DEF Init
  <2>2. sessionStart <= Len(events)
    BY <2>1
  <2> QED
    BY <2>1, <2>2 DEF ModeInv, NothingYet, Counted, InLoop, ModeFollows, NotStopped,
       StopsExactlyWhenDue, Active, CommitSteps
<1>2. Inv /\ ModeInv /\ [Next]_vars => ModeInv'
  BY ModeKept
<1> QED
  BY <1>1, <1>2, Invariance, PTL DEF Spec

(* StopsExactlyWhenDue: the loop goes on exactly while no event refused a  *)
(* peek and the patience is not used up.                                   *)
THEOREM StopsWhenDue == Spec => []StopsExactlyWhenDue
<1>1. ModeInv => StopsExactlyWhenDue
  BY DEF ModeInv
<1> QED
  BY <1>1, ModeInvariance, PTL

(* ExploitAfterRecentWin: an iteration exploits exactly after a recent     *)
(* acceptance.                                                             *)
THEOREM ExploitsRecentWins == Spec => []ExploitAfterRecentWin
<1>1. Inv /\ ModeInv => ExploitAfterRecentWin
  <2> SUFFICES ASSUME Inv, ModeInv, pc = "iterate"
               PROVE  PreparedMode = "exploit" <=>
                        /\ AcceptedThisSession
                        /\ TrailingFailures < ExploitPatience
                        /\ TrailingFailures < StuckThreshold
    BY DEF ExploitAfterRecentWin
  <2>1. InLoop /\ ~ Won
    BY DEF InLoop, Won, Active, CommitSteps
  <2>2. /\ noAccept = TrailingFailures
        /\ noAccept < StuckThreshold =>
             (mode = "exploit" <=> AcceptedThisSession /\ noAccept < ExploitPatience)
    BY <2>1 DEF ModeInv, Counted, ModeFollows
  <2>3. noAccept < StuckThreshold <=> ~ (noAccept >= StuckThreshold)
    BY Counters, LimitsAssumption DEF Inv, CountersTyped
  <2> QED
    BY <2>2, <2>3 DEF PreparedMode
<1> QED
  BY <1>1, Invariance, ModeInvariance, PTL
-----------------------------------------------------------------------------
(* Repeated commits *)

LastWin == branch[Len(branch)].iter

\* While a first session exploits, it counts the iterations since its last win.
SinceWin ==
  /\ sessions = 1 /\ pc = "mark_committed" => branch # << >> /\ LastWin = k
  /\ sessions = 1 /\ InLoop /\ pc \notin {"mark_committed", "finish"} /\ mode = "exploit" =>
       branch # << >> /\ k = LastWin + (IF Won THEN 0 ELSE noAccept + 1)

\* The last win is as recent as exploit mode asks.
WinFresh ==
  branch # << >> /\ k - LastWin <= ExploitPatience /\ k - LastWin <= StuckThreshold

\* A candidate of the first session on its way to a commit changes the files,
\* unless its configuration is not recognised.
ChangesFiles ==
  sessions = 1 /\ ~ NumericOpt =>
    /\ pc = "confirm" =>
         Files(finalist) # HeadFiles \/ (finalist \notin Recognised /\ WinFresh)
    /\ pc \in CommitSteps \ {"mark_committed"} =>
         Files(winner) # HeadFiles \/ (winner \notin Recognised /\ WinFresh)

RepeatInv == SinceWin /\ ChangesFiles /\ RepeatsOnlyUnrecognised

(* The iteration of the newest commit is a number.                         *)
LEMMA LastWinTyped ==
  ASSUME StoresTyped, branch # << >>
  PROVE  LastWin \in Nat
<1> DEFINE R == [files : Tree, iter : Nat]
<1>1. branch \in Seq(R) /\ Len(branch) \in Nat
  BY DEF StoresTyped
<1> HIDE DEF R
<1>2. Len(branch) \in 1 .. Len(branch)
  BY <1>1
<1>3. branch[Len(branch)] \in R
  BY <1>1, <1>2
<1> QED
  BY <1>3 DEF R, LastWin

(* The counters of a session and the iterations of its commits agree.      *)
LEMMA SinceWinKept ==
  ASSUME Inv, Untouched, ModeInv, SinceWin, [Next]_vars
  PROVE  SinceWin'
<1>0. StoresTyped /\ CountersTyped
  BY Stores, Counters DEF Inv
<1>00. branch # << >> => LastWin \in Nat
  BY <1>0, LastWinTyped
<1>1. ASSUME sessions' = sessions, pc \in Active \ {"mark_committed"},
             UNCHANGED <<branch, k, mode, noAccept>>,
             InLoop' /\ pc' # "finish" => (InLoop /\ pc # "finish" /\ (Won' <=> Won)),
             pc' # "mark_committed"
      PROVE  SinceWin'
  <2>1. LastWin' = LastWin
    BY <1>1 DEF LastWin
  <2> QED
    BY <1>1, <2>1 DEF SinceWin
<1>2. CASE UNCHANGED vars
  <2>1. UNCHANGED <<sessions, pc, branch, k, mode, noAccept, winner>>
    BY <1>2 DEF vars, gitVars, modeVars, candVars, countVars
  <2> QED
    BY <2>1 DEF SinceWin, LastWin, InLoop, Won
<1>3. CASE Start \/ Resume \/ SetupBaseline
  <2>1. pc' \in {"baseline", "iterate"} /\ mode' = "explore"
    <3>1. Start \/ Resume => pc' \in {"baseline", "iterate"} /\ mode' = "explore"
      BY DEF Start, Resume, NewSession
    <3>2. SetupBaseline => pc' = "iterate" /\ mode' = "explore"
      BY DEF SetupBaseline, modeVars, ModeInv, NothingYet
    <3> QED
      BY <1>3, <3>1, <3>2
  <2> QED
    BY <2>1 DEF SinceWin
<1>4. CASE SelectCandidates
  <2>1. /\ pc = "iterate" /\ pc' \in {"record", "confirm"} /\ mode' = PreparedMode
        /\ UNCHANGED <<sessions, branch, k, noAccept, winner>>
    BY <1>4 DEF SelectCandidates, gitVars, countVars
  <2>2. winner = NoEdit /\ ~ Won /\ ~ Won' /\ LastWin' = LastWin /\ InLoop
    BY <2>1 DEF ModeInv, NotStopped, Won, LastWin, InLoop, Active, CommitSteps
  <2>3. mode' = "exploit" => mode = "exploit"
    BY <2>1 DEF PreparedMode
  <2> QED
    BY <2>1, <2>2, <2>3 DEF SinceWin
<1>5. CASE RefusePeek \/ ConfirmRejects
  <2>1. /\ pc = "confirm" /\ pc' = "record"
        /\ UNCHANGED <<sessions, branch, k, mode, noAccept, winner>>
    BY <1>5 DEF RefusePeek, ConfirmRejects, gitVars, countVars, modeVars, candVars
  <2>2. winner = NoEdit /\ ~ Won /\ ~ Won'
    BY <2>1 DEF ModeInv, NotStopped, Won
  <2> QED
    BY <1>1, <2>1, <2>2 DEF InLoop, Active, CommitSteps
<1>6. CASE ConfirmAccepts \/ OptimizeWinner \/ WriteStrategy \/ WriteConfig \/ RecordWinner
           \/ GitAdd
  <2>1. /\ pc \in {"confirm", "optimize"} \cup (CommitSteps \ {"mark_committed"})
        /\ pc' \in {"optimize"} \cup (CommitSteps \ {"mark_committed"})
        /\ UNCHANGED <<sessions, branch, k, mode, noAccept>>
    BY <1>6 DEF ConfirmAccepts, OptimizeWinner, WriteStrategy, WriteConfig, RecordWinner,
       GitAdd, gitVars, countVars, modeVars, CommitSteps
  <2> QED
    BY <1>1, <2>1 DEF Won, InLoop, Active, CommitSteps
<1>7. CASE GitCommit
  <2>1. pc' = "mark_committed" /\ k' = k /\ branch' = Append(branch, [files |-> index, iter |-> k])
    BY <1>7 DEF GitCommit
  <2>2. Len(branch') = Len(branch) + 1 /\ Len(branch) \in Nat
        /\ branch'[Len(branch) + 1] = [files |-> index, iter |-> k]
    BY <1>0, <2>1 DEF StoresTyped
  <2>3. branch' # << >> /\ LastWin' = k
    BY <2>2 DEF LastWin
  <2> QED
    BY <2>1, <2>3 DEF SinceWin
<1>8. CASE MarkCommitted
  <2>1. /\ pc = "mark_committed" /\ pc' = "record"
        /\ UNCHANGED <<sessions, branch, k, winner>>
    BY <1>8, Zenon DEF MarkCommitted, gitVars, countVars, candVars
  <2>2. winner # NoEdit
    BY <2>1, EditsAssumption DEF Inv, CandidateAtHand, CommitSteps
  <2>3. Won' /\ LastWin' = LastWin
    BY <2>1, <2>2 DEF Won, LastWin
  <2>4. k \in Nat
    BY <1>0 DEF CountersTyped
  <2> QED
    BY <2>1, <2>3, <2>4 DEF SinceWin
<1>9. CASE RecordFinalist \/ RecordLoser
  <2>1. /\ pc = "record" /\ pc' = "record"
        /\ UNCHANGED <<sessions, branch, k, mode, noAccept, winner>>
    BY <1>9 DEF RecordFinalist, RecordLoser, gitVars, countVars, modeVars
  <2> QED
    BY <1>1, <2>1 DEF Won, InLoop, Active
<1>10. CASE FinishIteration
  <2>1. /\ pc = "record" /\ UNCHANGED <<sessions, branch>> /\ LastWin' = LastWin
        /\ pc' = "finish" \/ (pc' = "iterate" /\ k' = k + 1)
        /\ winner' = NoEdit
    BY <1>10 DEF FinishIteration, gitVars, countVars, LastWin
  <2>2. CASE pc' = "finish"
    BY <2>2 DEF SinceWin
  <2>3. CASE pc' = "iterate" /\ winner # NoEdit
    <3>1. Won /\ mode = "exploit" /\ noAccept = 0 /\ UNCHANGED <<mode, noAccept>>
      BY <1>10, <2>1, <2>3 DEF Won, ModeInv, Counted, InLoop, Active, FinishIteration, modeVars
    <3>2. sessions = 1 => branch # << >> /\ k = LastWin + 0
      BY <2>1, <3>1 DEF SinceWin, InLoop, Active
    <3>3. ~ Won' /\ k \in Nat
      BY <1>0, <2>1 DEF Won, CountersTyped
    <3>4. sessions = 1 => LastWin = k
      <4>1. sessions = 1 => LastWin \in Nat
        BY <1>00, <3>2
      <4> QED
        BY <3>2, <4>1
    <3> QED
      BY <2>1, <2>3, <3>1, <3>2, <3>3, <3>4 DEF SinceWin
  <2>4. CASE pc' = "iterate" /\ winner = NoEdit
    <3>1. ~ Won /\ ~ Won' /\ CountFailure
      BY <1>10, <2>1, <2>4 DEF Won, FinishIteration
    <3>2. noAccept' = noAccept + 1 /\ (mode' = "exploit" => mode = "exploit")
      BY <3>1 DEF CountFailure
    <3>3. sessions = 1 /\ mode = "exploit" => branch # << >> /\ k = LastWin + noAccept + 1
      <4>1. sessions = 1 /\ mode = "exploit" => branch # << >> /\ k = LastWin + (noAccept + 1)
        BY <2>1, <3>1 DEF SinceWin, InLoop, Active
      <4>2. sessions = 1 /\ mode = "exploit" => LastWin \in Nat /\ noAccept \in Nat
        BY <1>0, <1>00, <4>1 DEF CountersTyped
      <4> QED
        BY <4>1, <4>2
    <3>4. sessions = 1 /\ mode = "exploit" => LastWin \in Nat /\ noAccept \in Nat
      BY <1>0, <1>00, <3>3 DEF CountersTyped
    <3> QED
      BY <2>1, <2>4, <3>1, <3>2, <3>3, <3>4 DEF SinceWin
  <2> QED
    BY <2>1, <2>2, <2>3, <2>4
<1>11. CASE FinishRun \/ CommitFails \/ Abort
  <2>1. pc' \in Stopped
    BY <1>11 DEF FinishRun, CommitFails, Abort, Stopped
  <2> QED
    BY <2>1 DEF SinceWin, InLoop, Stopped, Active, CommitSteps
<1> QED
  BY <1>2, <1>3, <1>4, <1>5, <1>6, <1>7, <1>8, <1>9, <1>10, <1>11
  DEF Next, Program, Iterate, CommitWinner

(* A candidate reaches the holdout from "iterate" only.                    *)
LEMMA ConfirmedSteps ==
  ASSUME [Next]_vars, pc' = "confirm"
  PROVE  SelectCandidates \/ (UNCHANGED <<pc, finalist, branch, sessions, k>>)
<1>1. CASE UNCHANGED vars
  BY <1>1 DEF vars, candVars, gitVars, countVars
<1>2. CASE Start \/ Resume \/ SetupBaseline \/ RefusePeek \/ ConfirmAccepts \/ ConfirmRejects
           \/ OptimizeWinner
  BY <1>2 DEF Start, Resume, SetupBaseline, RefusePeek, ConfirmAccepts, ConfirmRejects,
     OptimizeWinner
<1>3. CASE WriteStrategy \/ WriteConfig \/ RecordWinner \/ GitAdd \/ GitCommit
  BY <1>3 DEF WriteStrategy, WriteConfig, RecordWinner, GitAdd, GitCommit
<1>4. ~ MarkCommitted
  <2>1. MarkCommitted => pc' = "record"
    BY Zenon DEF MarkCommitted
  <2> QED
    BY <2>1
<1>5. CASE RecordFinalist \/ RecordLoser \/ FinishIteration \/ FinishRun \/ CommitFails \/ Abort
  BY <1>5 DEF RecordFinalist, RecordLoser, FinishIteration, FinishRun, CommitFails, Abort
<1> QED
  BY <1>1, <1>2, <1>3, <1>4, <1>5, StepKinds DEF Outside

(* The guards on unchanged candidates compare with what the branch holds.  *)
LEMMA ChangesFilesKept ==
  ASSUME Inv, Untouched, IncumbentNewest, TunesIfAsked, ModeInv, SinceWin, ChangesFiles,
         [Next]_vars
  PROVE  ChangesFiles'
<1>0. StoresTyped /\ CountersTyped
  BY Stores, Counters DEF Inv
<1>00. branch # << >> => LastWin \in Nat
  BY <1>0, LastWinTyped
<1> SUFFICES ASSUME sessions' = 1, ~ NumericOpt
             PROVE  /\ pc' = "confirm" =>
                         Files(finalist') # HeadFiles'
                           \/ (finalist' \notin Recognised /\ WinFresh')
                    /\ pc' \in CommitSteps \ {"mark_committed"} =>
                         Files(winner') # HeadFiles'
                           \/ (winner' \notin Recognised /\ WinFresh')
  BY DEF ChangesFiles, Files
<1>1. ASSUME UNCHANGED <<branch, k>>
      PROVE  HeadFiles' = HeadFiles /\ WinFresh' = WinFresh
  BY <1>1 DEF HeadFiles, WinFresh, LastWin, Files
<1>2. ASSUME pc' = "confirm"
      PROVE  Files(finalist') # HeadFiles' \/ (finalist' \notin Recognised /\ WinFresh')
  <2>1. CASE SelectCandidates
    <3>1. /\ pc = "iterate" /\ sessions = 1 /\ UNCHANGED <<branch, k>>
          /\ finalist' \in Selectable(PreparedMode) \cup {NoEdit}
          /\ finalist' # NoEdit
      BY <1>2, <2>1 DEF SelectCandidates, countVars, gitVars
    <3>2. work = Files(incumbent.edit) /\ HeadFiles = Files(incumbent.edit)
      BY <3>1 DEF IncumbentNewest, Settled, Active, CommitSteps
    <3>3. finalist' # incumbent.edit \/ (PreparedMode # "explore" /\ finalist' \notin Recognised)
      BY <3>1, <3>2 DEF Selectable, Evaluable, Files
    <3>4. ASSUME PreparedMode # "explore" PROVE WinFresh
      <4>1. noAccept < StuckThreshold /\ mode = "exploit" /\ winner = NoEdit /\ ~ Won /\ InLoop
        BY <1>0, <3>1, <3>4, LimitsAssumption
        DEF PreparedMode, CountersTyped, ModeInv, NotStopped, Won, InLoop, Active, CommitSteps
      <4>2. noAccept < ExploitPatience
        BY <4>1 DEF ModeInv, ModeFollows
      <4>3. branch # << >> /\ k = LastWin + (noAccept + 1)
        BY <3>1, <4>1 DEF SinceWin, CommitSteps
      <4>4. LastWin \in Nat
        BY <1>00, <4>3
      <4>5. noAccept \in Nat /\ ExploitPatience \in Nat /\ StuckThreshold \in Nat
        BY <1>0, LimitsAssumption DEF CountersTyped
      <4>6. k - LastWin = noAccept + 1
        BY <4>3, <4>4, <4>5
      <4> QED
        BY <4>1, <4>2, <4>3, <4>5, <4>6 DEF WinFresh
    <3> QED
      BY <1>1, <3>1, <3>2, <3>3, <3>4 DEF Files
  <2>2. CASE UNCHANGED <<pc, finalist, branch, sessions, k>>
    BY <1>1, <1>2, <2>2 DEF ChangesFiles
  <2> QED
    BY <1>2, <2>1, <2>2, ConfirmedSteps
<1>3. ASSUME pc' \in CommitSteps \ {"mark_committed"}
      PROVE  Files(winner') # HeadFiles' \/ (winner' \notin Recognised /\ WinFresh')
  <2>1. CASE UNCHANGED vars
    <3>1. UNCHANGED <<pc, winner, branch, sessions, k>>
      BY <2>1 DEF vars, candVars, gitVars, countVars
    <3> QED
      BY <1>1, <1>3, <3>1 DEF ChangesFiles
  <2>2. CASE WriteStrategy \/ WriteConfig \/ RecordWinner \/ GitAdd
    <3>1. /\ pc \in CommitSteps \ {"mark_committed"}
          /\ UNCHANGED <<winner, branch, sessions, k>>
      BY <2>2 DEF WriteStrategy, WriteConfig, RecordWinner, GitAdd, gitVars, candVars,
         countVars, CommitSteps
    <3> QED
      BY <1>1, <3>1 DEF ChangesFiles
  <2>3. CASE ConfirmAccepts
    <3>1. pc = "confirm" /\ winner' = finalist /\ UNCHANGED <<branch, sessions, k>>
      BY <2>3 DEF ConfirmAccepts, gitVars, countVars
    <3> QED
      BY <1>1, <3>1 DEF ChangesFiles
  <2>4. CASE OptimizeWinner
    BY <2>4 DEF OptimizeWinner, TunesIfAsked
  <2>5. CASE GitCommit
    BY <1>3, <2>5 DEF GitCommit
  <2>6. CASE Start \/ Resume \/ SetupBaseline \/ SelectCandidates \/ RefusePeek \/ ConfirmRejects
    BY <1>3, <2>6 DEF Start, Resume, SetupBaseline, SelectCandidates, RefusePeek,
       ConfirmRejects, CommitSteps
  <2>7. CASE RecordFinalist \/ RecordLoser \/ FinishIteration \/ FinishRun \/ CommitFails \/ Abort
    BY <1>3, <2>7 DEF RecordFinalist, RecordLoser, FinishIteration, FinishRun, CommitFails,
       Abort, CommitSteps
  <2>8. ~ MarkCommitted
    <3>1. MarkCommitted => pc' = "record"
      BY Zenon DEF MarkCommitted
    <3> QED
      BY <1>3, <3>1 DEF CommitSteps
  <2> QED
    BY <2>1, <2>2, <2>3, <2>4, <2>5, <2>6, <2>7, <2>8, StepKinds DEF Outside
<1> QED
  BY <1>2, <1>3

(* So a commit of a first session that changes nothing is such a one.      *)
LEMMA RepeatsKept ==
  ASSUME Inv, Staging, Untouched, ChangesFiles, RepeatsOnlyUnrecognised, [Next]_vars
  PROVE  RepeatsOnlyUnrecognised'
<1>0. StoresTyped
  BY Stores DEF Inv
<1>1. CASE GitCommit /\ Extends
  <2> SUFFICES ASSUME sessions = 1, ~ NumericOpt
               PROVE  /\ branch' # << >> => branch'[1].files # Files(Baseline)
                      /\ \A i \in 1 .. Len(branch') - 1 :
                           MayFollow(branch'[i], branch'[i + 1])
    <3>1. sessions' = sessions
      BY <1>1 DEF GitCommit, countVars
    <3> QED
      BY <3>1 DEF RepeatsOnlyUnrecognised, Files, MayFollow
  <2>1. /\ pc = "git_commit" /\ index = Files(winner)
        /\ Files(winner) # HeadFiles \/ (winner \notin Recognised /\ WinFresh)
    BY <1>1 DEF GitCommit, Staging, ChangesFiles, CommitSteps
  <2>2. /\ Len(branch') = Len(branch) + 1
        /\ branch'[Len(branch) + 1] = [files |-> Files(winner), iter |-> k]
        /\ \A b \in 1 .. Len(branch) : branch'[b] = branch[b]
    BY <1>0, <1>1, <2>1 DEF Extends, StoresTyped
  <2>3. CASE branch = << >>
    <3>1. HeadFiles = Files(Baseline) /\ Len(branch) = 0 /\ ~ WinFresh
      BY <2>3 DEF HeadFiles, WinFresh
    <3> QED
      BY <2>1, <2>2, <3>1
  <2>4. CASE branch # << >>
    <3>1. HeadFiles = branch[Len(branch)].files /\ Len(branch) > 0 /\ Len(branch) \in Nat
      BY <1>0, <2>4 DEF HeadFiles, StoresTyped
    <3>2. /\ branch[1].files # Files(Baseline)
          /\ \A i \in 1 .. Len(branch) - 1 : MayFollow(branch[i], branch[i + 1])
      BY <2>4 DEF RepeatsOnlyUnrecognised
    <3>3. branch'[1].files # Files(Baseline)
      BY <2>2, <3>1, <3>2
    <3>4. MayFollow(branch[Len(branch)], [files |-> Files(winner), iter |-> k])
      BY <2>1, <3>1 DEF MayFollow, WinFresh, LastWin, Files
    <3>5. ASSUME NEW i \in 1 .. Len(branch') - 1
          PROVE  MayFollow(branch'[i], branch'[i + 1])
      <4>1. CASE i = Len(branch)
        <5>1. branch'[i] = branch[Len(branch)]
          BY <2>2, <3>1, <4>1
        <5>2. branch'[i + 1] = [files |-> Files(winner), iter |-> k]
          BY <2>2, <4>1
        <5> QED
          BY <3>4, <5>1, <5>2
      <4>2. CASE i # Len(branch)
        <5>1. i \in 1 .. Len(branch) - 1 /\ i \in 1 .. Len(branch) /\ i + 1 \in 1 .. Len(branch)
          BY <2>2, <3>1, <4>2
        <5>2. branch'[i] = branch[i] /\ branch'[i + 1] = branch[i + 1]
          BY <2>2, <5>1
        <5> QED
          BY <3>2, <5>1, <5>2
      <4> QED
        BY <4>1, <4>2
    <3> QED
      BY <3>3, <3>5
  <2> QED
    BY <2>3, <2>4
<1>2. CASE ~ GitCommit /\ UNCHANGED branch
  <2>1. CASE sessions' = sessions
    BY <1>2, <2>1 DEF RepeatsOnlyUnrecognised, Files
  <2>2. CASE sessions' # sessions
    <3>1. Start \/ Resume
      <4>1. UNCHANGED vars \/ SetupBaseline \/ SelectCandidates \/ RefusePeek \/ ConfirmAccepts
              \/ ConfirmRejects \/ OptimizeWinner => sessions' = sessions
        BY DEF vars, SetupBaseline, SelectCandidates, RefusePeek, ConfirmAccepts,
           ConfirmRejects, OptimizeWinner, countVars
      <4>2. WriteStrategy \/ WriteConfig \/ RecordWinner \/ GitAdd => sessions' = sessions
        BY DEF WriteStrategy, WriteConfig, RecordWinner, GitAdd, countVars
      <4>3. MarkCommitted => sessions' = sessions
        BY Zenon DEF MarkCommitted, countVars
      <4>4. RecordFinalist \/ RecordLoser \/ FinishIteration \/ FinishRun \/ CommitFails \/ Abort
              => sessions' = sessions
        BY DEF RecordFinalist, RecordLoser, FinishIteration, FinishRun, CommitFails, Abort,
           countVars
      <4> QED
        BY <1>2, <2>2, <4>1, <4>2, <4>3, <4>4, StepKinds DEF Outside
    <3>2. CASE Start
      <4>1. pc = "idle" /\ sessions = 0
        BY <3>2 DEF Start, Untouched
      <4>2. branch = << >>
        BY <4>1 DEF Untouched
      <4> QED
        BY <1>2, <4>2 DEF RepeatsOnlyUnrecognised
    <3>3. CASE Resume
      <4>1. sessions # 0 /\ sessions' = sessions + 1
        BY <3>3 DEF Resume, NewSession, Untouched, Stopped
      <4>2. sessions' # 1
        BY <1>0, <4>1 DEF StoresTyped
      <4> QED
        BY <4>2 DEF RepeatsOnlyUnrecognised
    <3> QED
      BY <3>1, <3>2, <3>3
  <2> QED
    BY <2>1, <2>2
<1> QED
  BY <1>1, <1>2, BranchEffect

-----------------------------------------------------------------------------
(* The theorem *)

(* RepeatsOnlyUnrecognised: a first session commits what the branch holds  *)
(* already only with a configuration its similarity does not recognise,    *)
(* while it exploits its last win.                                         *)
THEOREM RepeatsExplained == Spec => []RepeatsOnlyUnrecognised
<1>1. Init => RepeatInv
  <2> SUFFICES ASSUME Init PROVE RepeatInv
    OBVIOUS
  <2>1. pc = "idle" /\ sessions = 0
    BY DEF Init
  <2> QED
    BY <2>1 DEF RepeatInv, SinceWin, ChangesFiles, RepeatsOnlyUnrecognised
<1>2. Inv /\ StoreInv /\ ModeInv /\ RepeatInv /\ [Next]_vars => RepeatInv'
  BY SinceWinKept, ChangesFilesKept, RepeatsKept DEF StoreInv, RepeatInv
<1>3. RepeatInv => RepeatsOnlyUnrecognised
  BY DEF RepeatInv
<1> QED
  BY <1>1, <1>2, <1>3, Invariance, StoresInvariance, ModeInvariance, PTL DEF Spec
=============================================================================
