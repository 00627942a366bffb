----------------------- MODULE OptimizationRunProofs -----------------------
(***************************************************************************)
(* Proofs, for every value of the constants, that the optimisation loop    *)
(* keeps its types, appends to its ledger in iteration order, accepts one  *)
(* candidate per iteration and implements RunHistory.                      *)
(*                                                                         *)
(* None of these is inductive as it stands.  What carries them across a    *)
(* crash and a resumed session is the order of the rows: the newest row    *)
(* has the highest iteration (RowsInOrder), a session starts above it      *)
(* (RowsBelowIteration), and no commit is younger than it (BranchInOrder). *)
(***************************************************************************)
EXTENDS RunProperties, TLAPS, WellFoundedInduction, SequenceTheorems

\* Before the current iteration has written a row.
Fresh == {"iterate", "confirm", "optimize",
          "write_strategy", "write_config", "record_winner"}

\* Between the winner's row and the ledger's acknowledgement of its commit.
Acknowledging == {"git_add", "git_commit", "mark_committed"}

\* The candidate an action is about to use is there.
CandidateAtHand ==
  /\ pc \in CommitSteps \cup {"optimize"} => winner \in Edits
  /\ pc = "confirm" => finalist \in Edits

\* The baseline is row 1, the only one of iteration 0, and it is accepted.
BaselineFirst ==
  /\ pc \in {"idle", "baseline"} => attempts = <<>>
  /\ pc \in Active \ {"baseline"} => attempts # <<>> /\ k > 0
  /\ attempts # <<>> => attempts[1].iter = 0 /\ attempts[1].accepted
  /\ \A i \in DOMAIN attempts : attempts[i].iter = 0 => i = 1

RowsInOrder ==
  \A i, j \in DOMAIN attempts : i <= j => attempts[i].iter <= attempts[j].iter

RowsBelowIteration ==
  /\ pc \in Fresh => \A i \in DOMAIN attempts : attempts[i].iter < k
  /\ pc \in Active => \A i \in DOMAIN attempts : attempts[i].iter <= k
  /\ pc \in Acknowledging =>
       /\ attempts[Len(attempts)].iter = k
       /\ attempts[Len(attempts)].accepted
       /\ ~ attempts[Len(attempts)].committed

BranchInOrder ==
  /\ attempts = <<>> => branch = <<>>
  /\ \A b \in DOMAIN branch : branch[b].iter <= attempts[Len(attempts)].iter
  /\ pc \in Fresh \cup {"git_add", "git_commit"} =>
       \A b \in DOMAIN branch : branch[b].iter < k
  /\ pc = "mark_committed" => branch # <<>> /\ branch[Len(branch)].iter = k

Inv ==
  /\ TypeOK
  /\ CandidateAtHand
  /\ BaselineFirst
  /\ RowsInOrder
  /\ RowsBelowIteration
  /\ OneWinnerPerIteration
  /\ BranchInOrder

-----------------------------------------------------------------------------
(* Lemmas about the operators of the model *)

(* A set of numbers that is not empty has a least element.                 *)
LEMMA LeastElement ==
  ASSUME NEW S \in SUBSET Nat, S # {}
  PROVE  \E m \in S : \A n \in S : m <= n
<1>1. PICK m \in S : \A n \in S : <<n, m>> \notin OpToRel(<, Nat)
  BY NatLessThanWellFounded, WFMin
<1>2. \A n \in S : ~ (n < m)
  BY <1>1 DEF OpToRel
<1> QED  BY <1>2, SMT

(* In an ordered ledger the highest iteration is that of the newest row.   *)
LEMMA LastIterationIsNewest ==
  ASSUME TypeOK, RowsInOrder, attempts # <<>>
  PROVE  LastIteration = attempts[Len(attempts)].iter /\ LastIteration \in Nat
<1> DEFINE n == Len(attempts)
<1>1. n \in DOMAIN attempts /\ \A i \in DOMAIN attempts : attempts[i] \in Row
  BY DEF TypeOK, StoreTypes
<1>2. \A i \in DOMAIN attempts : attempts[i].iter \in Nat /\ attempts[i].iter <= attempts[n].iter
  BY <1>1 DEF RowsInOrder, Row, TypeOK, StoreTypes
<1> DEFINE S == {attempts[i].iter : i \in DOMAIN attempts}
           Highest(m) == \A i \in DOMAIN attempts : attempts[i].iter <= m
<1>3. attempts[n].iter \in S /\ Highest(attempts[n].iter)
  BY <1>1, <1>2
<1>4. LastIteration \in S /\ Highest(LastIteration)
  BY <1>3, Zenon DEF LastIteration
<1>5. LastIteration \in Nat /\ attempts[n].iter <= LastIteration /\ LastIteration <= attempts[n].iter
  BY <1>1, <1>2, <1>4
<1> QED  BY <1>1, <1>2, <1>5

(* _resume_incumbent always finds rows to restore from.                    *)
LEMMA ResumedIncumbentType ==
  ASSUME TypeOK, BaselineFirst, attempts # <<>>
  PROVE  ResumedIncumbent \in [edit : Edits, returns : Edits, id : Nat]
<1> DEFINE n == Len(attempts)
<1>1. n \in DOMAIN attempts /\ \A i \in DOMAIN attempts : attempts[i] \in Row /\ i \in Nat
  BY DEF TypeOK, StoreTypes
<1>2. attempts[n].iter # 0 \/ attempts[n].accepted
  BY <1>1 DEF BaselineFirst
<1>3. ResumeRow \in DOMAIN attempts
  BY <1>1, <1>2, SMT DEF ResumeRow, TypeOK, StoreTypes
<1>4. ReturnsRow(ResumeRow) \in DOMAIN attempts
  <2> DEFINE r == ResumeRow
             S == {j \in DOMAIN attempts : attempts[j].iter = attempts[r].iter}
  <2>1. S \in SUBSET Nat /\ r \in S
    BY <1>1, <1>3
  <2>2. PICK m \in S : \A l \in S : m <= l
    BY <2>1, LeastElement
  <2>3. /\ m \in DOMAIN attempts
        /\ attempts[m].iter = attempts[r].iter
        /\ \A l \in DOMAIN attempts : attempts[l].iter = attempts[r].iter => m <= l
    BY <2>2
  <2> HIDE DEF r, S
  <2> QED  BY <2>3 DEF ReturnsRow, r
<1> QED  BY <1>1, <1>3, <1>4 DEF ResumedIncumbent, Row

(* The newest row of a non-empty ledger is one of its rows.                *)
LEMMA NewestRow ==
  ASSUME attempts \in Seq(Row), attempts # <<>>
  PROVE  /\ Len(attempts) \in DOMAIN attempts
         /\ attempts[Len(attempts)] \in Row
         /\ attempts[Len(attempts)].iter \in Nat
<1>1. Len(attempts) \in DOMAIN attempts
  OBVIOUS
<1>2. attempts[Len(attempts)] \in Row
  BY <1>1
<1> QED  BY <1>1, <1>2 DEF Row

(* The iterations of the rows are naturals.                                *)
LEMMA RowIterations ==
  ASSUME attempts \in Seq(Row)
  PROVE  /\ Len(attempts) \in Nat /\ DOMAIN attempts = 1 .. Len(attempts)
         /\ \A i \in DOMAIN attempts : attempts[i] \in Row /\ attempts[i].iter \in Nat
<1>1. \A i \in DOMAIN attempts : attempts[i] \in Row
  OBVIOUS
<1> QED  BY <1>1 DEF Row

(* The iterations of the commits are naturals.                             *)
LEMMA CommitIterations ==
  ASSUME branch \in Seq([files : Tree, iter : Nat])
  PROVE  /\ Len(branch) \in Nat /\ DOMAIN branch = 1 .. Len(branch)
         /\ \A b \in DOMAIN branch : branch[b].iter \in Nat
<1>1. \A b \in DOMAIN branch : branch[b] \in [files : Tree, iter : Nat]
  BY LenProperties, ElementOfSeq
<1>2. \A c \in [files : Tree, iter : Nat] : c.iter \in Nat
  OBVIOUS
<1>3. Len(branch) \in Nat /\ DOMAIN branch = 1 .. Len(branch)
  OBVIOUS
<1> QED  BY <1>1, <1>2, <1>3

(* record_attempt builds a row from values of its columns' types.          *)
LEMMA RowOfType ==
  ASSUME datasetHash \in Hashes, NEW it \in Nat, NEW e \in Edits, NEW acc \in BOOLEAN,
         NEW com \in BOOLEAN, NEW sha \in Nat, NEW pk \in BOOLEAN
  PROVE  RowOf(it, e, acc, com, sha, pk) \in Row
BY DEF RowOf, Row

(* What record_attempt does to the ledger.                                 *)
LEMMA AppendRow ==
  ASSUME attempts \in Seq(Row), NEW r \in Row, attempts' = Append(attempts, r)
  PROVE  /\ attempts' \in Seq(Row)
         /\ Len(attempts) \in Nat /\ Len(attempts') = Len(attempts) + 1
         /\ DOMAIN attempts = 1 .. Len(attempts)
         /\ DOMAIN attempts' = 1 .. Len(attempts) + 1
         /\ \A i \in DOMAIN attempts : attempts'[i] = attempts[i]
         /\ attempts'[Len(attempts) + 1] = r
OBVIOUS

(* What mark_committed does to the ledger.                                 *)
LEMMA MarkRow ==
  ASSUME attempts \in Seq(Row), NEW n \in DOMAIN attempts, NEW sha \in Nat,
         attempts' = [attempts EXCEPT ![n].committed = TRUE, ![n].sha = sha]
  PROVE  /\ attempts' \in Seq(Row)
         /\ Len(attempts') = Len(attempts)
         /\ DOMAIN attempts' = DOMAIN attempts
         /\ \A i \in DOMAIN attempts : i # n => attempts'[i] = attempts[i]
         /\ attempts'[n] = [attempts[n] EXCEPT !.committed = TRUE, !.sha = sha]
<1> DEFINE row == [attempts[n] EXCEPT !.committed = TRUE, !.sha = sha]
<1>1. attempts[n] \in Row
  OBVIOUS
<1>2. row \in Row
  <2> DEFINE old == attempts[n]
  <2>1. old \in Row
    BY <1>1
  <2> HIDE DEF old
  <2>2. [old EXCEPT !.committed = TRUE, !.sha = sha] \in Row
    BY <2>1 DEF Row
  <2> QED  BY <2>2 DEF old
<1>3. attempts' = [attempts EXCEPT ![n] = row]
  OBVIOUS
<1> HIDE DEF row
<1>4. /\ attempts' \in Seq(Row) /\ Len(attempts') = Len(attempts)
      /\ \A i \in 1 .. Len(attempts) :
           attempts'[i] = IF i = n THEN row ELSE attempts[i]
  <2>1. n \in 1 .. Len(attempts)
    BY LenProperties
  <2> DEFINE marked == [attempts EXCEPT ![n] = row]
  <2>2. /\ marked \in Seq(Row) /\ Len(marked) = Len(attempts)
        /\ \A i \in 1 .. Len(attempts) :
             marked[i] = IF i = n THEN row ELSE attempts[i]
    BY <1>2, <2>1, ExceptSeq
  <2> QED  BY <1>3, <2>2, Zenon
<1>5. DOMAIN attempts = 1 .. Len(attempts) /\ DOMAIN attempts' = 1 .. Len(attempts)
  BY <1>4, LenProperties
<1> QED  BY <1>4, <1>5 DEF row

(* A run starts with every variable in its type.                           *)
LEMMA InitTypes == Init => TypeOK
<1> SUFFICES ASSUME Init PROVE TypeOK
  OBVIOUS
<1>1. StoreTypes
  BY EditsAssumption DEF Init, StoreTypes, Files, Tree
<1>2. SessionTypes
  BY EditsAssumption DEF Init, SessionTypes
<1>3. IterationTypes
  BY EditsAssumption DEF Init, IterationTypes
<1>4. HistoryTypes
  BY EditsAssumption DEF Init, HistoryTypes
<1> QED  BY <1>1, <1>2, <1>3, <1>4 DEF TypeOK

-----------------------------------------------------------------------------
(* Types *)

\* The actions that touch neither store.
Unstored ==
  Start \/ Resume \/ SelectCandidates \/ RefusePeek \/ ConfirmAccepts
  \/ ConfirmRejects \/ OptimizeWinner \/ FinishRun \/ Abort

(* The steps that only decide write neither ledger nor repository.         *)
LEMMA UnstoredKeepsStores ==
  ASSUME Unstored
  PROVE  UNCHANGED <<attempts, events, branch, index, work>>
BY DEF Unstored, Start, Resume, SelectCandidates, RefusePeek, ConfirmAccepts,
       ConfirmRejects, OptimizeWinner, FinishRun, Abort, ledgerVars, gitVars

(* Every step keeps the types of the ledger, the event log and the files.  *)
LEMMA StoreTypesKept ==
  ASSUME TypeOK, CandidateAtHand, BaselineFirst, [Next]_vars
  PROVE  StoreTypes'
<1> USE DEF TypeOK, StoreTypes, SessionTypes, IterationTypes
<1>1. CASE UNCHANGED vars
  BY <1>1 DEF vars, ledgerVars, gitVars
<1>2. CASE Unstored
  BY <1>2, UnstoredKeepsStores
<1>3. CASE SetupBaseline
  <2>1. RowOf(0, work.code, TRUE, TRUE, Len(branch), TRUE) \in Row
    <3>1. Len(branch) \in Nat /\ work.code \in Edits
      BY DEF Tree
    <3> QED  BY <3>1, RowOfType
  <2>2. attempts' \in Seq(Row)
    BY <1>3, <2>1, AppendRow DEF SetupBaseline
  <2> QED  BY <1>3, <2>2 DEF SetupBaseline, gitVars
<1>4. CASE WriteStrategy
  BY <1>4 DEF WriteStrategy, ledgerVars, CandidateAtHand, CommitSteps, Tree
<1>5. CASE WriteConfig
  BY <1>5 DEF WriteConfig, ledgerVars, CandidateAtHand, CommitSteps, Tree
<1>6. CASE RecordWinner
  <2>1. RowOf(k, winner, TRUE, FALSE, 0, TRUE) \in Row
    BY <1>6, RowOfType DEF RecordWinner, CandidateAtHand, CommitSteps
  <2>2. attempts' \in Seq(Row)
    BY <1>6, <2>1, AppendRow DEF RecordWinner
  <2> QED  BY <1>6, <2>2 DEF RecordWinner, gitVars
<1>7. CASE GitAdd
  BY <1>7 DEF GitAdd, Staged, ledgerVars
<1>8. CASE GitCommit
  BY <1>8 DEF GitCommit, ledgerVars
<1>9. CASE MarkCommitted
  <2>1. /\ attempts' = [attempts EXCEPT ![AttemptId].committed = TRUE,
                                       ![AttemptId].sha = Len(branch)]
        /\ Len(branch) \in Nat
        /\ pc = "mark_committed"
    BY <1>9 DEF MarkCommitted
  <2>a. AttemptId \in DOMAIN attempts
    BY <2>1 DEF AttemptId, BaselineFirst, Active, CommitSteps
  <2>2. attempts' \in Seq(Row)
    BY <2>1, <2>a, MarkRow
  <2> QED  BY <1>9, <2>2 DEF MarkCommitted, gitVars
<1>10. CASE CommitFails
  BY <1>10 DEF CommitFails, ledgerVars
<1>11. CASE RecordFinalist
  <2>1. RowOf(k, finalist, FALSE, FALSE, 0, peeked) \in Row
    BY <1>11, RowOfType DEF RecordFinalist
  <2>2. attempts' \in Seq(Row)
    BY <1>11, <2>1, AppendRow DEF RecordFinalist
  <2> QED  BY <1>11, <2>2 DEF RecordFinalist, gitVars
<1>12. CASE RecordLoser
  <2>1. PICK e \in losers : attempts' = Append(attempts, RowOf(k, e, FALSE, FALSE, 0, FALSE))
    BY <1>12 DEF RecordLoser
  <2>2. RowOf(k, e, FALSE, FALSE, 0, FALSE) \in Row
    BY RowOfType
  <2>3. attempts' \in Seq(Row)
    BY <2>1, <2>2, AppendRow
  <2> QED  BY <1>12, <2>3 DEF RecordLoser, gitVars
<1>13. CASE FinishIteration
  <2>1. [iter |-> k, accepted |-> winner # NoEdit, limit |-> earlyStopAt # 0]
          \in [iter : Nat, accepted : BOOLEAN, limit : BOOLEAN]
    OBVIOUS
  <2> QED  BY <1>13, <2>1 DEF FinishIteration, gitVars
<1> QED
  BY <1>1, <1>2, <1>3, <1>4, <1>5, <1>6, <1>7, <1>8, <1>9, <1>10, <1>11, <1>12, <1>13
  DEF Next, Program, Iterate, CommitWinner, Unstored

(* Every step keeps the types of the loop variables.                       *)
LEMMA SessionTypesKept ==
  ASSUME TypeOK, CandidateAtHand, BaselineFirst, RowsInOrder, [Next]_vars
  PROVE  SessionTypes'
<1> USE EditsAssumption, LimitsAssumption
<1> USE DEF TypeOK, SessionTypes, IterationTypes, Active, CommitSteps, Stopped,
            sessionVars, modeVars, commitVars
<1>1. CASE UNCHANGED vars
  BY <1>1 DEF vars
<1>2. CASE NewSession /\ (Start \/ Resume)
  <2>1. /\ iterations' \in Nat /\ datasetHash' \in Hashes
        /\ mode' = "explore" /\ exploitStall' = 0 /\ noAccept' = 0
        /\ nCommitted' = 0 /\ llmOk' = FALSE /\ earlyStopAt' = 0
    BY <1>2 DEF NewSession, StoreTypes, Tree
  <2>2. CASE UNCHANGED <<incumbent, k>> /\ pc' = "baseline"
    BY <2>1, <2>2
  <2>3. CASE BaselineRecorded /\ Resume
    <3>1. attempts # <<>>
      BY <2>3 DEF BaselineRecorded, StoreTypes
    <3>2. incumbent' \in [edit : Edits, returns : Edits, id : Nat]
      BY <2>3, <3>1, ResumedIncumbentType DEF Resume
    <3>3. k' \in Nat /\ pc' = "iterate"
      BY <2>3, <3>1, LastIterationIsNewest DEF Resume, NextIteration
    <3> QED  BY <2>1, <3>2, <3>3
  <2> QED  BY <1>2, <2>2, <2>3 DEF Start, Resume
<1>3. CASE SetupBaseline
  BY <1>3 DEF SetupBaseline, StoreTypes, Tree
<1>4. CASE SelectCandidates
  BY <1>4 DEF SelectCandidates, PreparedMode
<1>5. CASE RefusePeek \/ ConfirmAccepts \/ ConfirmRejects \/ OptimizeWinner
  BY <1>5 DEF RefusePeek, ConfirmAccepts, ConfirmRejects, OptimizeWinner
<1>6. CASE WriteStrategy \/ WriteConfig \/ RecordWinner \/ GitAdd \/ GitCommit
  BY <1>6 DEF WriteStrategy, WriteConfig, RecordWinner, GitAdd, GitCommit
<1>7. CASE MarkCommitted
  <2>1. incumbent' \in [edit : Edits, returns : Edits, id : Nat]
    BY <1>7 DEF MarkCommitted, WinnerIncumbent, AttemptId, CandidateAtHand, StoreTypes
  <2>2. /\ nCommitted' = nCommitted + 1 /\ mode' = "exploit"
        /\ exploitStall' = 0 /\ noAccept' = 0 /\ pc' = "record"
        /\ UNCHANGED <<k, sessionVars, earlyStopAt>>
    BY <1>7, Zenon DEF MarkCommitted
  <2> QED  BY <2>1, <2>2
<1>8. CASE RecordFinalist \/ RecordLoser \/ FinishRun \/ CommitFails \/ Abort
  BY <1>8 DEF RecordFinalist, RecordLoser, FinishRun, CommitFails, Abort
<1>9. CASE FinishIteration
  BY <1>9 DEF FinishIteration, CountFailure, ExploitStalled
<1> QED
  BY <1>1, <1>2, <1>3, <1>4, <1>5, <1>6, <1>7, <1>8, <1>9
  DEF Next, Program, Iterate, CommitWinner, Start, Resume

(* Every step keeps the types of what an iteration has at hand.            *)
LEMMA IterationTypesKept ==
  ASSUME TypeOK, [Next]_vars
  PROVE  IterationTypes'
<1> USE EditsAssumption
<1> USE DEF TypeOK, IterationTypes, candVars
<1>1. CASE UNCHANGED vars
  BY <1>1 DEF vars
<1>2. CASE Start \/ Resume
  BY <1>2 DEF Start, Resume, NewSession
<1>3. CASE SelectCandidates
  BY <1>3 DEF SelectCandidates, Selectable, Evaluable
<1>4. CASE ConfirmAccepts \/ ConfirmRejects \/ OptimizeWinner
  BY <1>4 DEF ConfirmAccepts, ConfirmRejects, OptimizeWinner
<1>5. CASE RecordFinalist \/ RecordLoser \/ FinishIteration
  BY <1>5 DEF RecordFinalist, RecordLoser, FinishIteration
<1>6. CASE SetupBaseline \/ RefusePeek \/ CommitWinner \/ CommitFails \/ FinishRun \/ Abort
  BY <1>6 DEF SetupBaseline, RefusePeek, CommitWinner, WriteStrategy, WriteConfig,
    RecordWinner, GitAdd, GitCommit, MarkCommitted, CommitFails, FinishRun, Abort
<1> QED
  BY <1>1, <1>2, <1>3, <1>4, <1>5, <1>6 DEF Next, Program, Iterate

(* Every step keeps the types of the counters that no action reads.        *)
LEMMA HistoryTypesKept ==
  ASSUME TypeOK, CandidateAtHand, [Next]_vars
  PROVE  HistoryTypes'
<1> USE EditsAssumption
<1> USE DEF TypeOK, HistoryTypes, countVars
<1>1. CASE UNCHANGED vars
  BY <1>1 DEF vars
<1>2. CASE Start \/ Resume
  BY <1>2 DEF Start, Resume, NewSession, StoreTypes
<1>3. CASE ConfirmAccepts \/ ConfirmRejects
  BY <1>3 DEF ConfirmAccepts, ConfirmRejects, Peek, CandidateAtHand
<1>4. CASE OptimizeWinner
  BY <1>4 DEF OptimizeWinner, CandidateAtHand
<1>5. CASE CommitFails \/ Abort
  BY <1>5 DEF CommitFails, Abort
<1>6. CASE SetupBaseline \/ SelectCandidates \/ RefusePeek \/ CommitWinner
  BY <1>6 DEF SetupBaseline, SelectCandidates, RefusePeek, CommitWinner, WriteStrategy,
    WriteConfig, RecordWinner, GitAdd, GitCommit, MarkCommitted
<1>7. CASE RecordFinalist \/ RecordLoser \/ FinishIteration \/ FinishRun
  BY <1>7 DEF RecordFinalist, RecordLoser, FinishIteration, FinishRun
<1> QED
  BY <1>1, <1>2, <1>3, <1>4, <1>5, <1>6, <1>7 DEF Next, Program, Iterate

(* Every step keeps all types.                                             *)
LEMMA TypeKept ==
  ASSUME TypeOK, CandidateAtHand, BaselineFirst, RowsInOrder, [Next]_vars
  PROVE  TypeOK'
BY StoreTypesKept, SessionTypesKept, IterationTypesKept, HistoryTypesKept DEF TypeOK

(* Steps that need a finalist or a winner are reached only with one.       *)
LEMMA CandidateAtHandKept ==
  ASSUME TypeOK, CandidateAtHand, [Next]_vars
  PROVE  CandidateAtHand'
<1> USE EditsAssumption
<1> USE DEF CandidateAtHand, TypeOK, IterationTypes, CommitSteps, candVars
<1>1. CASE UNCHANGED vars
  BY <1>1 DEF vars
<1>2. CASE Start \/ Resume \/ SetupBaseline
  BY <1>2 DEF Start, Resume, SetupBaseline
<1>3. CASE SelectCandidates
  BY <1>3 DEF SelectCandidates, Selectable, Evaluable
<1>4. CASE RefusePeek \/ ConfirmAccepts \/ ConfirmRejects \/ OptimizeWinner
  BY <1>4 DEF RefusePeek, ConfirmAccepts, ConfirmRejects, OptimizeWinner
<1>5. CASE CommitWinner \/ CommitFails
  BY <1>5 DEF CommitWinner, WriteStrategy, WriteConfig, RecordWinner, GitAdd,
    GitCommit, MarkCommitted, CommitFails
<1>6. CASE RecordFinalist \/ RecordLoser \/ FinishIteration \/ FinishRun \/ Abort
  BY <1>6 DEF RecordFinalist, RecordLoser, FinishIteration, FinishRun, Abort
<1> QED
  BY <1>1, <1>2, <1>3, <1>4, <1>5, <1>6 DEF Next, Program, Iterate

-----------------------------------------------------------------------------
(* What a step does to the ledger *)

\* Some row that satisfies one of the three descriptions is appended.
RecordsBaseline(r) ==
  /\ pc = "baseline" /\ pc' = "iterate" /\ k' = 1
  /\ r.iter = 0 /\ r.accepted /\ r.committed
  /\ UNCHANGED branch

RecordsWinner(r) ==
  /\ pc = "record_winner" /\ pc' = "git_add" /\ k' = k
  /\ r.iter = k /\ r.accepted /\ ~ r.committed
  /\ UNCHANGED branch

RecordsReject(r) ==
  /\ pc = "record" /\ pc' = "record" /\ k' = k
  /\ r.iter = k /\ ~ r.accepted /\ ~ r.committed
  /\ UNCHANGED branch

RecordsRow ==
  \E r \in Row :
    /\ attempts' = Append(attempts, r)
    /\ RecordsBaseline(r) \/ RecordsWinner(r) \/ RecordsReject(r)

(* A step that adds a row adds the baseline, a winner or a reject.         *)
LEMMA RecordingSteps ==
  ASSUME TypeOK, CandidateAtHand,
         SetupBaseline \/ RecordWinner \/ RecordFinalist \/ RecordLoser
  PROVE  RecordsRow
<1> USE DEF TypeOK, SessionTypes, IterationTypes, gitVars
<1>1. CASE SetupBaseline
  <2> DEFINE r == RowOf(0, work.code, TRUE, TRUE, Len(branch), TRUE)
  <2>1. work.code \in Edits /\ Len(branch) \in Nat
    BY DEF StoreTypes, Tree
  <2>2. r \in Row
    BY <2>1, RowOfType
  <2>3. RecordsBaseline(r)
    BY <1>1 DEF RecordsBaseline, SetupBaseline, RowOf
  <2> QED  BY <1>1, <2>2, <2>3 DEF RecordsRow, SetupBaseline
<1>2. CASE RecordWinner
  <2> DEFINE r == RowOf(k, winner, TRUE, FALSE, 0, TRUE)
  <2>1. r \in Row
    BY <1>2, RowOfType DEF RecordWinner, CandidateAtHand, CommitSteps
  <2>2. RecordsWinner(r)
    BY <1>2 DEF RecordsWinner, RecordWinner, RowOf
  <2> QED  BY <1>2, <2>1, <2>2 DEF RecordsRow, RecordWinner
<1>3. CASE RecordFinalist
  <2> DEFINE r == RowOf(k, finalist, FALSE, FALSE, 0, peeked)
  <2>1. r \in Row
    BY <1>3, RowOfType DEF RecordFinalist
  <2>2. RecordsReject(r)
    BY <1>3 DEF RecordsReject, RecordFinalist, RowOf
  <2> QED  BY <1>3, <2>1, <2>2 DEF RecordsRow, RecordFinalist
<1>4. CASE RecordLoser
  <2>1. PICK e \in losers : attempts' = Append(attempts, RowOf(k, e, FALSE, FALSE, 0, FALSE))
    BY <1>4 DEF RecordLoser
  <2> DEFINE r == RowOf(k, e, FALSE, FALSE, 0, FALSE)
  <2>2. r \in Row
    BY RowOfType
  <2>3. RecordsReject(r)
    BY <1>4 DEF RecordsReject, RecordLoser, RowOf
  <2> QED  BY <2>1, <2>2, <2>3 DEF RecordsRow
<1> QED  BY <1>1, <1>2, <1>3, <1>4

\* Iteration and verdict of every row stay, and so does their number.
KeepsVerdicts ==
  /\ DOMAIN attempts' = DOMAIN attempts /\ Len(attempts') = Len(attempts)
  /\ (attempts' = <<>>) = (attempts = <<>>)
  /\ \A i \in DOMAIN attempts :
       attempts'[i].iter = attempts[i].iter /\ attempts'[i].accepted = attempts[i].accepted

(* mark_committed changes no row's iteration or verdict.                   *)
LEMMA MarkingKeepsVerdicts ==
  ASSUME TypeOK, BaselineFirst, MarkCommitted
  PROVE  KeepsVerdicts
<1> USE DEF TypeOK, StoreTypes
<1>1. /\ attempts' = [attempts EXCEPT ![AttemptId].committed = TRUE,
                                     ![AttemptId].sha = Len(branch)]
      /\ pc = "mark_committed"
  BY DEF MarkCommitted
<1>2. AttemptId \in DOMAIN attempts /\ Len(branch) \in Nat /\ attempts # <<>>
  BY <1>1 DEF AttemptId, BaselineFirst, Active, CommitSteps
<1>3. /\ DOMAIN attempts' = DOMAIN attempts /\ Len(attempts') = Len(attempts)
      /\ \A i \in DOMAIN attempts : i # AttemptId => attempts'[i] = attempts[i]
      /\ attempts'[AttemptId] = [attempts[AttemptId] EXCEPT !.committed = TRUE,
                                                           !.sha = Len(branch)]
      /\ attempts' \in Seq(Row)
  BY <1>1, <1>2, MarkRow
<1>4. attempts[AttemptId] \in Row
  BY <1>2
<1>5. /\ attempts'[AttemptId].iter = attempts[AttemptId].iter
      /\ attempts'[AttemptId].accepted = attempts[AttemptId].accepted
  BY <1>3, <1>4 DEF Row
<1>6. attempts' # <<>>
  BY <1>2, <1>3
<1> QED  BY <1>2, <1>3, <1>5, <1>6 DEF KeepsVerdicts

\* A step that records nothing: the control moves on.
Moves ==
  \/ UNCHANGED <<pc, k, branch>>
  \/ pc \in {"idle"} \cup Stopped /\ attempts = <<>> /\ pc' = "baseline" /\ UNCHANGED branch
  \/ pc \in Stopped /\ attempts # <<>> /\ pc' = "iterate"
       /\ k' = attempts[Len(attempts)].iter + 1 /\ UNCHANGED branch
  \/ pc \in Fresh /\ pc' \in (Fresh \ {"iterate"}) \cup {"record"} /\ UNCHANGED <<k, branch>>
  \/ pc = "git_add" /\ pc' = "git_commit" /\ UNCHANGED <<k, branch>>
  \/ pc = "git_commit" /\ pc' = "mark_committed" /\ k' = k
       /\ \E files \in Tree : branch' = Append(branch, [files |-> files, iter |-> k])
  \/ pc = "mark_committed" /\ pc' = "record" /\ UNCHANGED <<k, branch>>
  \/ pc = "record" /\ pc' = "iterate" /\ k' = k + 1 /\ UNCHANGED branch
  \/ pc = "record" /\ pc' = "finish" /\ UNCHANGED <<k, branch>>
  \/ pc \in Active /\ pc' \in Stopped /\ UNCHANGED <<k, branch>>

(* Where a step leaves the control, the iteration counter and the branch.  *)
LEMMA StepShape ==
  ASSUME TypeOK, CandidateAtHand, BaselineFirst, RowsInOrder, [Next]_vars
  PROVE  RecordsRow \/ (KeepsVerdicts /\ Moves)
<1> USE DEF TypeOK, SessionTypes, ledgerVars, gitVars
<1>0. UNCHANGED attempts => KeepsVerdicts
  BY DEF KeepsVerdicts
<1>1. CASE UNCHANGED vars
  BY <1>0, <1>1 DEF vars, Moves
<1>2. CASE Start
  BY <1>0, <1>2 DEF Start, Moves, BaselineFirst
<1>3. CASE Resume
  <2>1. UNCHANGED <<attempts, branch>> /\ pc \in Stopped
    BY <1>3 DEF Resume
  <2>2. CASE attempts = <<>>
    <3>1. ~ BaselineRecorded
      BY <2>2 DEF BaselineRecorded
    <3> QED  BY <1>0, <1>3, <2>1, <2>2, <3>1 DEF Resume, Moves
  <2>3. CASE attempts # <<>>
    <3>1. 1 \in DOMAIN attempts /\ attempts[1].iter = 0
      BY <2>3 DEF BaselineFirst, StoreTypes
    <3>2. BaselineRecorded
      BY <3>1 DEF BaselineRecorded
    <3>3. NextIteration = attempts[Len(attempts)].iter + 1
      BY <2>3, LastIterationIsNewest DEF NextIteration
    <3> QED  BY <1>0, <1>3, <2>1, <2>3, <3>2, <3>3 DEF Resume, Moves
  <2> QED  BY <2>2, <2>3
<1>4. CASE SetupBaseline \/ RecordWinner \/ RecordFinalist \/ RecordLoser
  BY <1>4, RecordingSteps
<1>5. CASE SelectCandidates \/ RefusePeek \/ ConfirmAccepts \/ ConfirmRejects \/ OptimizeWinner
  BY <1>0, <1>5 DEF SelectCandidates, RefusePeek, ConfirmAccepts, ConfirmRejects,
    OptimizeWinner, Moves, Fresh
<1>6. CASE WriteStrategy \/ WriteConfig \/ GitAdd
  BY <1>0, <1>6 DEF WriteStrategy, WriteConfig, GitAdd, Moves, Fresh
<1>7. CASE GitCommit
  <2>1. index \in Tree
    BY DEF StoreTypes
  <2> QED  BY <1>0, <1>7, <2>1 DEF GitCommit, Moves
<1>8. CASE MarkCommitted
  <2>1. pc = "mark_committed" /\ pc' = "record" /\ UNCHANGED <<k, branch>>
    BY <1>8, Zenon DEF MarkCommitted
  <2> QED  BY <1>8, <2>1, MarkingKeepsVerdicts DEF Moves
<1>9. CASE FinishIteration
  BY <1>0, <1>9 DEF FinishIteration, Moves
<1>10. CASE FinishRun \/ CommitFails \/ Abort
  BY <1>0, <1>10 DEF FinishRun, LoopOver, CommitFails, Abort, Moves, Active, Stopped, CommitSteps
<1> QED
  BY <1>1, <1>2, <1>3, <1>4, <1>5, <1>6, <1>7, <1>8, <1>9, <1>10
  DEF Next, Program, Iterate, CommitWinner

(* Every step appends one row, keeps all verdicts, or leaves the ledger.   *)
LEMMA AttemptsSteps ==
  ASSUME TypeOK, CandidateAtHand, [Next]_vars
  PROVE  UNCHANGED attempts \/ RecordsRow \/ MarkCommitted
<1>1. CASE UNCHANGED vars \/ Unstored
  BY <1>1, UnstoredKeepsStores DEF vars, ledgerVars
<1>2. CASE SetupBaseline \/ RecordWinner \/ RecordFinalist \/ RecordLoser
  BY <1>2, RecordingSteps
<1>3. CASE WriteStrategy \/ WriteConfig \/ GitAdd \/ GitCommit \/ CommitFails \/ FinishIteration
  BY <1>3 DEF WriteStrategy, WriteConfig, GitAdd, GitCommit, CommitFails, FinishIteration, ledgerVars
<1> QED  BY <1>1, <1>2, <1>3 DEF Next, Program, Iterate, CommitWinner, Unstored

-----------------------------------------------------------------------------
(* The invariant *)

(* The first row stays the baseline, and no other row is iteration 0.      *)
LEMMA BaselineFirstKept ==
  ASSUME TypeOK, BaselineFirst, RowsBelowIteration, TypeOK',
         RecordsRow \/ (KeepsVerdicts /\ Moves)
  PROVE  BaselineFirst'
<1>0. attempts \in Seq(Row) /\ k \in Nat /\ k' \in Nat /\ Len(attempts) \in Nat
  BY DEF TypeOK, StoreTypes, SessionTypes
<1>1. ASSUME NEW r \in Row, attempts' = Append(attempts, r),
             RecordsBaseline(r) \/ RecordsWinner(r) \/ RecordsReject(r)
      PROVE  BaselineFirst'
  <2>1. /\ Len(attempts') = Len(attempts) + 1
        /\ DOMAIN attempts = 1 .. Len(attempts)
        /\ DOMAIN attempts' = 1 .. Len(attempts) + 1
        /\ \A i \in DOMAIN attempts : attempts'[i] = attempts[i]
        /\ attempts'[Len(attempts) + 1] = r
        /\ attempts' # <<>>
    BY <1>0, <1>1, AppendRow
  <2>2. CASE RecordsBaseline(r)
    BY <1>0, <2>1, <2>2 DEF RecordsBaseline, BaselineFirst, Active, CommitSteps
  <2>3. CASE RecordsWinner(r) \/ RecordsReject(r)
    <3>1. attempts # <<>> /\ k > 0 /\ 1 \in DOMAIN attempts /\ r.iter = k /\ k' = k
      BY <1>0, <2>1, <2>3 DEF RecordsWinner, RecordsReject, BaselineFirst, Active, CommitSteps
    <3>2. pc' \in {"git_add", "record"}
      BY <2>3 DEF RecordsWinner, RecordsReject
    <3> QED  BY <1>0, <2>1, <3>1, <3>2 DEF BaselineFirst
  <2> QED  BY <1>1, <2>2, <2>3
<1>2. CASE KeepsVerdicts /\ Moves
  <2>1. \A i \in DOMAIN attempts' : attempts'[i].iter = 0 => i = 1
    BY <1>2 DEF KeepsVerdicts, BaselineFirst
  <2>2. attempts' # <<>> => attempts'[1].iter = 0 /\ attempts'[1].accepted
    BY <1>0, <1>2 DEF KeepsVerdicts, BaselineFirst
  <2>3. attempts # <<>> => attempts[Len(attempts)].iter \in Nat
    BY <1>0, NewestRow
  <2>4. /\ pc' \in {"idle", "baseline"} => attempts' = <<>>
        /\ pc' \in Active \ {"baseline"} => attempts' # <<>> /\ k' > 0
    BY <1>0, <1>2, <2>3 DEF KeepsVerdicts, BaselineFirst, Moves, Fresh, Active, Stopped, CommitSteps
  <2> QED  BY <2>1, <2>2, <2>4 DEF BaselineFirst
<1> QED  BY <1>1, <1>2 DEF RecordsRow

(* Rows stay in iteration order.                                           *)
LEMMA RowsInOrderKept ==
  ASSUME TypeOK, BaselineFirst, RowsInOrder, RowsBelowIteration, TypeOK',
         RecordsRow \/ (KeepsVerdicts /\ Moves)
  PROVE  RowsInOrder'
<1>0. attempts \in Seq(Row) /\ k \in Nat /\ Len(attempts) \in Nat
  BY DEF TypeOK, StoreTypes, SessionTypes
<1>1. ASSUME NEW r \in Row, attempts' = Append(attempts, r),
             RecordsBaseline(r) \/ RecordsWinner(r) \/ RecordsReject(r)
      PROVE  RowsInOrder'
  <2>1. /\ DOMAIN attempts = 1 .. Len(attempts)
        /\ DOMAIN attempts' = 1 .. Len(attempts) + 1
        /\ \A i \in DOMAIN attempts : attempts'[i] = attempts[i]
        /\ attempts'[Len(attempts) + 1] = r
    BY <1>0, <1>1, AppendRow
  <2>2. \A i \in DOMAIN attempts : attempts[i].iter <= r.iter
    BY <1>0, <1>1 DEF RecordsBaseline, RecordsWinner, RecordsReject, BaselineFirst,
      RowsBelowIteration, Active, CommitSteps
  <2>3. r.iter <= r.iter
    BY DEF Row
  <2> QED  BY <1>0, <2>1, <2>2, <2>3 DEF RowsInOrder
<1>2. CASE KeepsVerdicts
  BY <1>2 DEF KeepsVerdicts, RowsInOrder
<1> QED  BY <1>1, <1>2 DEF RecordsRow

(* No row gets ahead of the loop, and a fresh iteration has none.          *)
LEMMA RowsBelowIterationKept ==
  ASSUME TypeOK, CandidateAtHand, BaselineFirst, RowsInOrder, RowsBelowIteration,
         TypeOK', [Next]_vars, RecordsRow \/ (KeepsVerdicts /\ Moves)
  PROVE  RowsBelowIteration'
<1>0. attempts \in Seq(Row) /\ k \in Nat /\ k' \in Nat /\ Len(attempts) \in Nat
  BY DEF TypeOK, StoreTypes, SessionTypes
<1>1. ASSUME NEW r \in Row, attempts' = Append(attempts, r),
             RecordsBaseline(r) \/ RecordsWinner(r) \/ RecordsReject(r)
      PROVE  RowsBelowIteration'
  <2>1. /\ Len(attempts') = Len(attempts) + 1
        /\ DOMAIN attempts = 1 .. Len(attempts)
        /\ DOMAIN attempts' = 1 .. Len(attempts) + 1
        /\ \A i \in DOMAIN attempts : attempts'[i] = attempts[i] /\ attempts[i].iter \in Nat
        /\ attempts'[Len(attempts) + 1] = r /\ r.iter \in Nat
    <3>1. r.iter \in Nat
      BY DEF Row
    <3> QED  BY <1>0, <1>1, <3>1, AppendRow, RowIterations
  <2>2. CASE RecordsBaseline(r)
    BY <1>0, <2>1, <2>2 DEF RecordsBaseline, BaselineFirst, RowsBelowIteration, Acknowledging
  <2>3. CASE RecordsWinner(r) \/ RecordsReject(r)
    <3>1. /\ k' = k /\ pc' \in {"git_add", "record"}
          /\ r.iter = k /\ (pc' = "git_add" => r.accepted /\ ~ r.committed)
          /\ \A i \in DOMAIN attempts : attempts[i].iter <= k
      BY <2>3 DEF RecordsWinner, RecordsReject, RowsBelowIteration, Active, CommitSteps
    <3> QED  BY <1>0, <2>1, <3>1 DEF RowsBelowIteration, Fresh, Acknowledging
  <2> QED  BY <1>1, <2>2, <2>3
<1>2. CASE KeepsVerdicts /\ Moves
  <2>1. \A i \in DOMAIN attempts :
          attempts[i].iter \in Nat /\ attempts[i].iter <= attempts[Len(attempts)].iter
    BY <1>0, RowIterations DEF RowsInOrder
  <2>2. pc' \in Fresh => \A i \in DOMAIN attempts : attempts[i].iter < k'
    BY <1>0, <1>2, <2>1 DEF Moves, RowsBelowIteration, Fresh, Active, Stopped, CommitSteps
  <2>3. pc' \in Active => \A i \in DOMAIN attempts : attempts[i].iter <= k'
    BY <1>0, <1>2, <2>1 DEF Moves, RowsBelowIteration, BaselineFirst, Fresh, Active, Stopped, CommitSteps
  <2>4. pc' \in Acknowledging => pc \in Acknowledging /\ k' = k /\ UNCHANGED attempts
    <3>1. pc' \in Acknowledging => pc \in Acknowledging /\ k' = k
      BY <1>2 DEF Moves, Fresh, Stopped, Acknowledging
    <3>2. pc' \in Acknowledging => ~ MarkCommitted
      BY DEF MarkCommitted, Acknowledging
    <3>3. UNCHANGED attempts \/ RecordsRow \/ MarkCommitted
      BY AttemptsSteps
    <3>4. ~ RecordsRow
      <4>1. SUFFICES ASSUME NEW r \in Row, attempts' = Append(attempts, r) PROVE FALSE
        BY DEF RecordsRow
      <4>2. Len(attempts') = Len(attempts) + 1
        BY <1>0, <4>1, AppendRow
      <4> QED  BY <1>0, <1>2, <4>2 DEF KeepsVerdicts
    <3> QED  BY <3>1, <3>2, <3>3, <3>4
  <2>5. attempts' # <<>> => Len(attempts) \in DOMAIN attempts
    BY <1>0, <1>2 DEF KeepsVerdicts
  <2> QED  BY <1>2, <2>2, <2>3, <2>4, <2>5 DEF KeepsVerdicts, RowsBelowIteration
<1> QED  BY <1>1, <1>2 DEF RecordsRow

(* A second accepted row never joins an iteration.                         *)
LEMMA OneWinnerKept ==
  ASSUME TypeOK, BaselineFirst, RowsBelowIteration, OneWinnerPerIteration,
         RecordsRow \/ (KeepsVerdicts /\ Moves)
  PROVE  OneWinnerPerIteration'
<1>0. attempts \in Seq(Row) /\ k \in Nat /\ Len(attempts) \in Nat
  BY DEF TypeOK, StoreTypes, SessionTypes
<1>1. ASSUME NEW r \in Row, attempts' = Append(attempts, r),
             RecordsBaseline(r) \/ RecordsWinner(r) \/ RecordsReject(r)
      PROVE  OneWinnerPerIteration'
  <2>1. /\ DOMAIN attempts = 1 .. Len(attempts)
        /\ DOMAIN attempts' = 1 .. Len(attempts) + 1
        /\ \A i \in DOMAIN attempts : attempts'[i] = attempts[i] /\ attempts[i].iter \in Nat
        /\ attempts'[Len(attempts) + 1] = r /\ r.iter \in Nat
    <3>1. r.iter \in Nat
      BY DEF Row
    <3> QED  BY <1>0, <1>1, <3>1, AppendRow, RowIterations
  <2>2. r.accepted => \A i \in DOMAIN attempts : attempts[i].iter # r.iter
    BY <1>0, <1>1, <2>1 DEF RecordsBaseline, RecordsWinner, RecordsReject, BaselineFirst,
      RowsBelowIteration, Fresh
  <2> QED  BY <1>0, <2>1, <2>2 DEF OneWinnerPerIteration
<1>2. CASE KeepsVerdicts
  BY <1>2 DEF KeepsVerdicts, OneWinnerPerIteration
<1> QED  BY <1>1, <1>2 DEF RecordsRow

(* Commits stay in iteration order, behind the rows they come from.        *)
LEMMA BranchInOrderKept ==
  ASSUME TypeOK, BaselineFirst, RowsBelowIteration, BranchInOrder, RowsInOrder,
         RecordsRow \/ (KeepsVerdicts /\ Moves)
  PROVE  BranchInOrder'
<1>0. /\ attempts \in Seq(Row) /\ k \in Nat /\ Len(attempts) \in Nat
      /\ branch \in Seq([files : Tree, iter : Nat])
      /\ Len(branch) \in Nat /\ DOMAIN branch = 1 .. Len(branch)
      /\ \A b \in DOMAIN branch : branch[b].iter \in Nat
  <2>1. attempts \in Seq(Row) /\ branch \in Seq([files : Tree, iter : Nat]) /\ k \in Nat
    BY DEF TypeOK, StoreTypes, SessionTypes
  <2> QED  BY <2>1, RowIterations, CommitIterations
<1>1. ASSUME NEW r \in Row, attempts' = Append(attempts, r),
             RecordsBaseline(r) \/ RecordsWinner(r) \/ RecordsReject(r)
      PROVE  BranchInOrder'
  <2>1. /\ Len(attempts') = Len(attempts) + 1
        /\ attempts'[Len(attempts) + 1] = r
        /\ attempts' # <<>> /\ r.iter \in Nat
    BY <1>0, <1>1, AppendRow DEF Row
  <2>2. CASE RecordsBaseline(r)
    <3>1. attempts = <<>> /\ branch = <<>> /\ branch' = <<>>
      BY <2>2 DEF RecordsBaseline, BaselineFirst, BranchInOrder
    <3> QED  BY <2>1, <2>2, <3>1 DEF RecordsBaseline, BranchInOrder
  <2>3. CASE RecordsWinner(r) \/ RecordsReject(r)
    <3>1. /\ k' = k /\ branch' = branch /\ r.iter = k
          /\ pc' = "git_add" => pc = "record_winner"
          /\ pc' \in {"git_add", "record"}
          /\ pc \in Active \ {"baseline"}
      BY <2>3 DEF RecordsWinner, RecordsReject, Active, CommitSteps
    <3>2. attempts # <<>> /\ attempts[Len(attempts)].iter \in Nat
          /\ Len(attempts) \in DOMAIN attempts
      BY <1>0, <3>1, NewestRow DEF BaselineFirst
    <3>3. attempts[Len(attempts)].iter <= k
      BY <3>1, <3>2 DEF RowsBelowIteration
    <3>4. \A b \in DOMAIN branch : branch[b].iter <= k
      BY <1>0, <3>2, <3>3 DEF BranchInOrder
    <3> QED  BY <1>0, <2>1, <3>1, <3>4 DEF BranchInOrder, Fresh
  <2> QED  BY <1>1, <2>2, <2>3
<1>2. CASE KeepsVerdicts /\ Moves
  <2>1. CASE pc = "git_commit" /\ pc' = "mark_committed"
    <3>1. PICK files \in Tree : branch' = Append(branch, [files |-> files, iter |-> k])
      BY <1>2, <2>1 DEF Moves, Fresh, Stopped
    <3>2. k' = k
      BY <1>2, <2>1 DEF Moves, Fresh, Stopped
    <3>3. /\ Len(branch') = Len(branch) + 1 /\ branch' # <<>>
          /\ DOMAIN branch' = 1 .. Len(branch) + 1
          /\ \A b \in DOMAIN branch : branch'[b] = branch[b]
          /\ branch'[Len(branch) + 1].iter = k
      BY <1>0, <3>1
    <3>4. attempts # <<>> /\ attempts[Len(attempts)].iter = k
      BY <2>1 DEF RowsBelowIteration, Acknowledging, BaselineFirst, Active, CommitSteps
    <3>5. attempts' # <<>> /\ attempts'[Len(attempts')].iter = k
      BY <1>0, <1>2, <3>4, NewestRow DEF KeepsVerdicts
    <3>6. \A b \in DOMAIN branch : branch[b].iter < k
      BY <2>1 DEF BranchInOrder
    <3> QED  BY <1>0, <2>1, <3>2, <3>3, <3>5, <3>6 DEF BranchInOrder, Fresh
  <2>2. CASE ~ (pc = "git_commit" /\ pc' = "mark_committed")
    <3>1. branch' = branch
      BY <1>2, <2>2 DEF Moves
    <3>2. attempts # <<>> => attempts'[Len(attempts')].iter = attempts[Len(attempts)].iter
      BY <1>0, <1>2, NewestRow DEF KeepsVerdicts
    <3>3. pc' \in Fresh \cup {"git_add", "git_commit"} => \A b \in DOMAIN branch : branch[b].iter < k'
      <4>1. CASE attempts = <<>>
        BY <1>0, <4>1 DEF BranchInOrder
      <4>2. CASE attempts # <<>>
        <5>1. attempts[Len(attempts)].iter \in Nat /\ Len(attempts) \in DOMAIN attempts
          BY <1>0, <4>2, NewestRow
        <5>2. pc \in Active => attempts[Len(attempts)].iter <= k
          BY <5>1 DEF RowsBelowIteration
        <5> QED  BY <1>0, <1>2, <4>2, <5>1, <5>2 DEF Moves, BranchInOrder, Fresh, Active,
                   CommitSteps, Stopped
      <4> QED  BY <4>1, <4>2
    <3>4. pc' = "mark_committed" => pc = "mark_committed" /\ k' = k
      BY <1>2, <2>2 DEF Moves, Fresh, Stopped
    <3> QED  BY <1>2, <3>1, <3>2, <3>3, <3>4 DEF BranchInOrder, KeepsVerdicts
  <2> QED  BY <2>1, <2>2
<1> QED  BY <1>1, <1>2 DEF RecordsRow

(* The inductive invariant holds at the start.                             *)
LEMMA InitInv == Init => Inv
<1> SUFFICES ASSUME Init PROVE Inv
  OBVIOUS
<1>1. TypeOK
  BY InitTypes
<1>2. attempts = <<>> /\ branch = <<>> /\ pc = "idle"
  BY DEF Init
<1> QED
  BY <1>1, <1>2 DEF Inv, CandidateAtHand, BaselineFirst, RowsInOrder, RowsBelowIteration,
    OneWinnerPerIteration, BranchInOrder, Fresh, Acknowledging, Active, CommitSteps

(* Every step keeps the inductive invariant.                               *)
LEMMA InvKept == Inv /\ [Next]_vars => Inv'
<1> SUFFICES ASSUME Inv, [Next]_vars PROVE Inv'
  OBVIOUS
<1> USE DEF Inv
<1>1. TypeOK'
  BY TypeKept
<1>2. CandidateAtHand'
  BY CandidateAtHandKept
<1>3. RecordsRow \/ (KeepsVerdicts /\ Moves)
  BY StepShape
<1>4. BaselineFirst'
  BY <1>1, <1>3, BaselineFirstKept
<1>5. RowsInOrder'
  BY <1>1, <1>3, RowsInOrderKept
<1>6. RowsBelowIteration'
  BY <1>1, <1>3, RowsBelowIterationKept
<1>7. OneWinnerPerIteration'
  BY <1>3, OneWinnerKept
<1>8. BranchInOrder'
  BY <1>3, BranchInOrderKept
<1> QED  BY <1>1, <1>2, <1>4, <1>5, <1>6, <1>7, <1>8

(* The inductive invariant from which the other results follow: types,     *)
(* rows in iteration order behind the loop, one baseline, one winner per   *)
(* iteration, and commits in iteration order.                              *)
THEOREM Invariance == Spec => []Inv
BY InitInv, InvKept, PTL DEF Spec

(* Every variable keeps its type, whatever crashes, resumes and candidates *)
(* a run sees.                                                             *)
THEOREM TypeCorrect == Spec => []TypeOK
<1>1. Inv => TypeOK
  BY DEF Inv
<1> QED  BY <1>1, Invariance, PTL

(* A run accepts at most one candidate per iteration, however often it is  *)
(* interrupted and resumed.                                                *)
THEOREM OneWinner == Spec => []OneWinnerPerIteration
<1>1. Inv => OneWinnerPerIteration
  BY DEF Inv
<1> QED  BY <1>1, Invariance, PTL

-----------------------------------------------------------------------------
(* The ledger only grows *)

\* mark_committed changes the newest row, which is the winner's.
LEMMA MarkedRow ==
  ASSUME Inv, MarkCommitted
  PROVE  LET n == Len(attempts) IN
         /\ n \in DOMAIN attempts /\ attempts[n].accepted /\ ~ attempts[n].committed
         /\ attempts[n].iter = k /\ k > 0
         /\ branch # <<>> /\ branch[Len(branch)].iter = k
         /\ attempts' \in Seq(Row) /\ Len(attempts') = n /\ DOMAIN attempts' = DOMAIN attempts
         /\ \A i \in DOMAIN attempts : i # n => attempts'[i] = attempts[i]
         /\ attempts'[n] = [attempts[n] EXCEPT !.committed = TRUE, !.sha = Len(branch)]
         /\ UNCHANGED branch
<1>1. /\ pc = "mark_committed" /\ UNCHANGED branch
      /\ attempts' = [attempts EXCEPT ![Len(attempts)].committed = TRUE,
                                      ![Len(attempts)].sha = Len(branch)]
  BY Zenon DEF MarkCommitted, AttemptId, gitVars
<1>2. attempts \in Seq(Row) /\ Len(branch) \in Nat
  BY DEF Inv, TypeOK, StoreTypes
<1>3. attempts # <<>> /\ k > 0
  BY <1>1 DEF Inv, BaselineFirst, Active, CommitSteps
<1>4. Len(attempts) \in DOMAIN attempts
  BY <1>2, <1>3
<1>5. /\ attempts[Len(attempts)].accepted /\ ~ attempts[Len(attempts)].committed
      /\ attempts[Len(attempts)].iter = k
      /\ branch # <<>> /\ branch[Len(branch)].iter = k
  BY <1>1 DEF Inv, RowsBelowIteration, BranchInOrder, Acknowledging
<1> QED  BY <1>1, <1>2, <1>3, <1>4, <1>5, MarkRow

(* Across crashes and resumed sessions the ledger is only appended to, in  *)
(* iteration order, but for the one mark of a committed winner.            *)
THEOREM LedgerGrows == Spec => LedgerOnlyGrows
<1> DEFINE Grows ==
      /\ Len(attempts') >= Len(attempts)
      /\ \A i \in DOMAIN attempts :
           \/ attempts'[i] = attempts[i]
           \/ /\ attempts[i].accepted /\ ~ attempts[i].committed
              /\ attempts'[i] = [attempts[i] EXCEPT !.committed = TRUE,
                                                    !.sha = Len(branch)]
      /\ \A i \in DOMAIN attempts, j \in DOMAIN attempts' :
           j > Len(attempts) => attempts[i].iter <= attempts'[j].iter
<1>1. ASSUME Inv, Inv', [Next]_vars, attempts' # attempts
      PROVE  Grows
  <2>0. attempts \in Seq(Row)
    BY <1>1 DEF Inv, TypeOK, StoreTypes
  <2>1. CASE RecordsRow
    <3>1. PICK row \in Row : attempts' = Append(attempts, row)
      BY <2>1 DEF RecordsRow
    <3>2. /\ Len(attempts) \in Nat /\ Len(attempts') = Len(attempts) + 1
          /\ DOMAIN attempts = 1 .. Len(attempts)
          /\ DOMAIN attempts' = 1 .. Len(attempts) + 1
          /\ \A i \in DOMAIN attempts : attempts'[i] = attempts[i]
      BY <2>0, <3>1, AppendRow
    <3>3. ASSUME NEW i \in DOMAIN attempts, NEW j \in DOMAIN attempts', j > Len(attempts)
          PROVE  attempts[i].iter <= attempts'[j].iter
      <4>1. attempts'[i].iter <= attempts'[j].iter
        BY <1>1, <3>2, <3>3 DEF Inv, RowsInOrder
      <4> QED  BY <3>2, <4>1
    <3>4. Len(attempts') >= Len(attempts)
      BY <3>2
    <3> QED  BY <3>2, <3>3, <3>4, Zenon
  <2>2. CASE MarkCommitted
    <3>1. DOMAIN attempts' = 1 .. Len(attempts) /\ Len(attempts) \in Nat
      BY <1>1, <2>0, <2>2, MarkedRow, RowIterations
    <3>2. /\ Len(attempts') = Len(attempts) /\ DOMAIN attempts = 1 .. Len(attempts)
          /\ attempts[Len(attempts)].accepted /\ ~ attempts[Len(attempts)].committed
          /\ \A i \in DOMAIN attempts : i # Len(attempts) => attempts'[i] = attempts[i]
          /\ attempts'[Len(attempts)] =
               [attempts[Len(attempts)] EXCEPT !.committed = TRUE, !.sha = Len(branch)]
      BY <1>1, <2>0, <2>2, MarkedRow, RowIterations
    <3>3. Len(attempts') >= Len(attempts)
      BY <3>1, <3>2
    <3>4. \A i \in DOMAIN attempts, j \in DOMAIN attempts' : ~ (j > Len(attempts))
      BY <3>1
    <3>5. \A i \in DOMAIN attempts :
           \/ attempts'[i] = attempts[i]
           \/ /\ attempts[i].accepted /\ ~ attempts[i].committed
              /\ attempts'[i] = [attempts[i] EXCEPT !.committed = TRUE,
                                                    !.sha = Len(branch)]
      BY <3>2, Zenon
    <3> QED  BY <3>3, <3>4, <3>5, Zenon
  <2> QED  BY <1>1, <2>1, <2>2, AttemptsSteps DEF Inv
<1>2. Inv /\ Inv' /\ [Next]_vars => [Grows]_attempts
  BY <1>1
<1> HIDE DEF Grows
<1>3. Spec => [][Grows]_attempts
  BY <1>2, Invariance, PTL DEF Spec
<1> QED  BY <1>3 DEF LedgerOnlyGrows, Grows

-----------------------------------------------------------------------------
(* Refinement of RunHistory *)

Reached   == IF attempts = <<>> THEN 0 ELSE LastIteration
Wins      == [i \in DOMAIN branch |-> branch[i].iter]
Certified == {attempts[i].iter : i \in CommittedRows}

ReachedNewest ==
  /\ Reached = (IF attempts = <<>> THEN 0 ELSE attempts[Len(attempts)].iter)
  /\ Reached \in Nat

(* The abstract "reached" is the iteration of the newest row.              *)
LEMMA ReachedIsNewest == Inv => ReachedNewest
BY LastIterationIsNewest DEF Inv, Reached, ReachedNewest

(* The same, after a step.                                                 *)
LEMMA ReachedIsNewestNext == Inv' => ReachedNewest'
BY ReachedIsNewest, PTL

(* A function on 1 .. n into the naturals is a sequence of length n.       *)
LEMMA NatSequence ==
  ASSUME NEW n \in Nat, NEW f \in [1 .. n -> Nat]
  PROVE  f \in Seq(Nat) /\ Len(f) = n
OBVIOUS

(* The abstract "wins" is the sequence of the commits' iterations.         *)
LEMMA WinsFacts ==
  ASSUME branch \in Seq([files : Tree, iter : Nat])
  PROVE  /\ Wins \in Seq(Nat) /\ Len(Wins) = Len(branch)
         /\ (Wins = <<>>) = (branch = <<>>)
         /\ branch # <<>> => Wins[Len(Wins)] = branch[Len(branch)].iter
<1>1. /\ Len(branch) \in Nat /\ DOMAIN branch = 1 .. Len(branch)
      /\ \A b \in DOMAIN branch : branch[b].iter \in Nat
  BY CommitIterations
<1>2. Wins \in [1 .. Len(branch) -> Nat]
  BY <1>1 DEF Wins
<1>3. Wins \in Seq(Nat) /\ Len(Wins) = Len(branch)
  <2>1. Len(branch) \in Nat
    BY <1>1
  <2> QED  BY <1>2, <2>1, NatSequence
<1>4. branch # <<>> => Wins[Len(branch)] = branch[Len(branch)].iter
  BY <1>1 DEF Wins
<1> QED  BY <1>1, <1>3, <1>4

\* RunHistory's next-state relation on the ledger and the branch.
Advance ==
  /\ Reached' \in Nat /\ Reached' > Reached
  /\ Wins' = Wins /\ Certified' = Certified
Win ==
  /\ (IF Wins = <<>> THEN 0 ELSE Wins[Len(Wins)]) < Reached
  /\ Wins' = Append(Wins, Reached)
  /\ Reached' = Reached /\ Certified' = Certified
Certify ==
  /\ (IF Wins = <<>> THEN 0 ELSE Wins[Len(Wins)]) = Reached /\ Reached > 0
  /\ Certified' = Certified \cup {Reached}
  /\ Reached' = Reached /\ Wins' = Wins
Stutter == Reached' = Reached /\ Wins' = Wins /\ Certified' = Certified

(* A step that leaves ledger and branch alone is a stutter of RunHistory.  *)
LEMMA SameStores ==
  ASSUME UNCHANGED <<attempts, branch>>
  PROVE  Stutter
BY DEF Stutter, Reached, LastIteration, Wins, Certified, CommittedRows

(* Only git_commit changes the branch, and only mark_committed a row.      *)
LEMMA BranchSteps ==
  ASSUME [Next]_vars
  PROVE  UNCHANGED branch \/ GitCommit
<1> USE DEF gitVars
<1>1. CASE UNCHANGED vars \/ Unstored
  BY <1>1, UnstoredKeepsStores DEF vars
<1>2. CASE CommitWinner \/ CommitFails
  BY <1>2 DEF CommitWinner, WriteStrategy, WriteConfig, RecordWinner, GitAdd,
    MarkCommitted, CommitFails
<1>3. CASE SetupBaseline \/ RecordFinalist \/ RecordLoser \/ FinishIteration
  BY <1>3 DEF SetupBaseline, RecordFinalist, RecordLoser, FinishIteration
<1> QED  BY <1>1, <1>2, <1>3 DEF Next, Program, Iterate, Unstored

(* A row recorded is an Advance, or a stutter within its iteration.        *)
LEMMA RecordingRefines ==
  ASSUME Inv, Inv', RecordsRow
  PROVE  Advance \/ Stutter
<1>0. attempts \in Seq(Row) /\ k \in Nat
  BY DEF Inv, TypeOK, StoreTypes, SessionTypes
<1>1. PICK r \in Row :
        /\ attempts' = Append(attempts, r)
        /\ RecordsBaseline(r) \/ RecordsWinner(r) \/ RecordsReject(r)
  BY DEF RecordsRow
<1>2. /\ Len(attempts) \in Nat /\ Len(attempts') = Len(attempts) + 1
      /\ DOMAIN attempts = 1 .. Len(attempts)
      /\ DOMAIN attempts' = 1 .. Len(attempts) + 1
      /\ \A i \in DOMAIN attempts : attempts'[i] = attempts[i]
      /\ attempts'[Len(attempts) + 1] = r
      /\ attempts' # <<>>
  BY <1>0, <1>1, AppendRow
<1>3. branch' = branch /\ (r.committed => r.iter = 0)
  BY <1>1 DEF RecordsBaseline, RecordsWinner, RecordsReject
<1>4. Wins' = Wins
  BY <1>3 DEF Wins
<1>5. CommittedRows' = CommittedRows
  <2>1. \A i \in DOMAIN attempts : i \in DOMAIN attempts'
    BY <1>2
  <2>2. \A i \in DOMAIN attempts' : i \in DOMAIN attempts \/ attempts'[i] = r
    BY <1>2
  <2>3. ~ (r.committed /\ r.iter > 0)
    BY <1>3
  <2> QED  BY <1>2, <2>1, <2>2, <2>3, Zenon DEF CommittedRows
<1>6. Certified' = Certified
  <2>1. \A i \in CommittedRows : attempts'[i] = attempts[i]
    BY <1>2 DEF CommittedRows
  <2> QED  BY <1>5, <2>1, Zenon DEF Certified
<1>7. Reached' = r.iter /\ r.iter \in Nat
  <2>1. Reached' = (IF attempts' = <<>> THEN 0 ELSE attempts'[Len(attempts')].iter)
        /\ Reached' \in Nat
    BY ReachedIsNewestNext DEF ReachedNewest
  <2> QED  BY <1>2, <2>1
<1>8. Reached <= r.iter /\ Reached \in Nat
  <2>1. Reached = (IF attempts = <<>> THEN 0 ELSE attempts[Len(attempts)].iter)
        /\ Reached \in Nat
    BY ReachedIsNewest DEF ReachedNewest
  <2>2. attempts # <<>> => attempts[Len(attempts)].iter <= r.iter
    <3>1. SUFFICES ASSUME attempts # <<>> PROVE attempts[Len(attempts)].iter <= r.iter
      OBVIOUS
    <3>2. Len(attempts) \in DOMAIN attempts
      BY <1>0, <3>1, NewestRow
    <3> QED
      BY <1>1, <3>1, <3>2 DEF RecordsBaseline, RecordsWinner, RecordsReject, Inv,
        BaselineFirst, RowsBelowIteration, Active, CommitSteps
  <2> QED  BY <1>7, <2>1, <2>2
<1> QED  BY <1>4, <1>6, <1>7, <1>8 DEF Advance, Stutter

(* `git commit` is a Win.                                                  *)
LEMMA CommitRefines ==
  ASSUME Inv, GitCommit
  PROVE  Win
<1>0. branch \in Seq([files : Tree, iter : Nat]) /\ k \in Nat /\ k > 0 /\ index \in Tree
      /\ attempts # <<>>
  BY DEF Inv, TypeOK, StoreTypes, SessionTypes, GitCommit, BaselineFirst, Active, CommitSteps
<1>1. Reached = k
  <2>1. attempts[Len(attempts)].iter = k
    BY DEF Inv, RowsBelowIteration, GitCommit, Acknowledging
  <2> QED  BY <1>0, <2>1, ReachedIsNewest DEF ReachedNewest
<1>2. Reached' = Reached /\ Certified' = Certified
  BY DEF GitCommit, ledgerVars, Reached, LastIteration, Certified, CommittedRows
<1>3. (IF Wins = <<>> THEN 0 ELSE Wins[Len(Wins)]) < k
  <2>1. branch # <<>> => Len(branch) \in DOMAIN branch
    BY <1>0
  <2>2. branch # <<>> => branch[Len(branch)].iter < k
    BY <2>1 DEF Inv, BranchInOrder, GitCommit
  <2> QED  BY <1>0, <2>2, WinsFacts
<1>4. Wins' = Append(Wins, k)
  <2> DEFINE c == [files |-> index, iter |-> k]
  <2>1. branch' = Append(branch, c) /\ c \in [files : Tree, iter : Nat] /\ c.iter = k
    BY <1>0 DEF GitCommit
  <2> HIDE DEF c
  <2>2. /\ Len(branch) \in Nat /\ DOMAIN branch = 1 .. Len(branch)
        /\ DOMAIN branch' = 1 .. Len(branch) + 1
        /\ \A b \in DOMAIN branch : branch'[b] = branch[b]
        /\ branch'[Len(branch) + 1] = c
        /\ branch' \in Seq([files : Tree, iter : Nat])
    BY <1>0, <2>1
  <2>3. Wins \in Seq(Nat) /\ Len(Wins) = Len(branch)
    BY <1>0, WinsFacts
  <2>4. Wins' = [b \in 1 .. Len(branch) + 1 |-> branch'[b].iter]
    BY <2>2 DEF Wins
  <2>5. \A b \in 1 .. Len(branch) : Wins[b] = branch[b].iter /\ branch[b].iter \in Nat
    BY <1>0, <2>2, CommitIterations DEF Wins
  <2>6. \A b \in 1 .. Len(branch) + 1 :
          branch'[b].iter = (IF b = Len(branch) + 1 THEN k ELSE Wins[b])
          /\ branch'[b].iter \in Nat
    BY <1>0, <2>1, <2>2, <2>5
  <2>7. Wins' \in Seq(Nat) /\ Len(Wins') = Len(branch) + 1
    BY <2>2, <2>4, <2>6, NatSequence
  <2> DEFINE t == Append(Wins, k)
  <2>8. /\ t \in Seq(Nat) /\ Len(t) = Len(branch) + 1
        /\ \A b \in 1 .. Len(branch) : t[b] = Wins[b]
        /\ t[Len(branch) + 1] = k
    BY <1>0, <2>3, AppendProperties
  <2> HIDE DEF t
  <2>9. \A b \in 1 .. Len(branch) + 1 : Wins'[b] = t[b]
    <3>1. \A b \in 1 .. Len(branch) + 1 : Wins'[b] = branch'[b].iter
      BY <2>4
    <3>2. \A b \in 1 .. Len(branch) + 1 : b # Len(branch) + 1 => b \in 1 .. Len(branch)
      BY <2>2
    <3> QED  BY <2>6, <2>8, <3>1, <3>2, Zenon
  <2>10. Wins' = t
    BY <2>7, <2>8, <2>9, SeqEqual
  <2> QED  BY <2>10 DEF t
<1> QED  BY <1>1, <1>2, <1>3, <1>4 DEF Win

(* mark_committed is a Certify.                                            *)
LEMMA MarkRefines ==
  ASSUME Inv, Inv', MarkCommitted
  PROVE  Certify
<1> DEFINE n == Len(attempts)
<1>0. /\ n \in DOMAIN attempts /\ attempts[n].iter = k /\ k > 0
      /\ branch # <<>> /\ branch[Len(branch)].iter = k /\ branch' = branch
      /\ Len(attempts') = n /\ DOMAIN attempts' = DOMAIN attempts
      /\ \A i \in DOMAIN attempts : i # n => attempts'[i] = attempts[i]
      /\ attempts'[n] = [attempts[n] EXCEPT !.committed = TRUE, !.sha = Len(branch)]
  BY MarkedRow
<1>1. attempts \in Seq(Row) /\ branch \in Seq([files : Tree, iter : Nat])
  BY DEF Inv, TypeOK, StoreTypes
<1>2. attempts'[n].iter = k /\ attempts'[n].committed
  <2>1. attempts[n] \in Row
    BY <1>0, <1>1
  <2> QED  BY <1>0, <2>1 DEF Row
<1>3. attempts # <<>> /\ attempts' # <<>>
  BY <1>0, <1>1
<1>4. Reached = k /\ Reached' = k
  BY <1>0, <1>2, <1>3, ReachedIsNewest, ReachedIsNewestNext DEF ReachedNewest
<1>5. Wins' = Wins /\ (IF Wins = <<>> THEN 0 ELSE Wins[Len(Wins)]) = k
  BY <1>0, <1>1, WinsFacts DEF Wins
<1>6. Certified' = Certified \cup {k}
  <2>1. CommittedRows' = CommittedRows \cup {n}
    BY <1>0, <1>2 DEF CommittedRows
  <2>2. \A i \in DOMAIN attempts : attempts'[i].iter = attempts[i].iter
    BY <1>0, <1>2
  <2>3. CommittedRows \subseteq DOMAIN attempts
    BY DEF CommittedRows
  <2> QED  BY <1>0, <2>1, <2>2, <2>3 DEF Certified
<1> QED  BY <1>0, <1>4, <1>5, <1>6 DEF Certify

(* The branch and the ledger of every run, with all its crashes and        *)
(* resumed sessions, behave as RunHistory says.                            *)
THEOREM Refinement == Spec => ImplementsHistory
<1>1. Init => History!Init
  BY DEF Init, History!Init, CommittedRows
<1>2. ASSUME Inv, Inv', [Next]_vars
      PROVE  Advance \/ Win \/ Certify \/ Stutter
  <2>1. CASE RecordsRow
    BY <1>2, <2>1, RecordingRefines
  <2>2. CASE MarkCommitted
    BY <1>2, <2>2, MarkRefines
  <2>3. CASE GitCommit
    BY <1>2, <2>3, CommitRefines
  <2>4. CASE UNCHANGED attempts /\ ~ GitCommit /\ ~ RecordsRow /\ ~ MarkCommitted
    <3>1. UNCHANGED branch
      BY <1>2, <2>4, BranchSteps
    <3> QED  BY <2>4, <3>1, SameStores
  <2> QED  BY <1>2, <2>1, <2>2, <2>3, <2>4, AttemptsSteps DEF Inv
<1>3. Inv /\ Inv' /\ [Next]_vars => [History!Next]_History!vars
  <2>1. (Advance \/ Win \/ Certify \/ Stutter) => [History!Next]_History!vars
    BY DEF Advance, Win, Certify, Stutter, Reached, Wins, Certified, History!Next,
      History!Advance, History!Win, History!Certify, History!LastWin, History!vars
  <2> QED  BY <1>2, <2>1
<1> QED
  BY <1>1, <1>3, Invariance, PTL DEF Spec, ImplementsHistory, History!Spec
=============================================================================
