--------------------------- MODULE RunProperties ---------------------------
(***************************************************************************)
(* What the optimisation loop must guarantee, stated over OptimizationRun. *)
(***************************************************************************)
EXTENDS OptimizationRun

HeadFiles == IF branch = <<>> THEN Files(Baseline) ELSE branch[Len(branch)].files

SessionEvents == SubSeq(events, sessionStart + 1, Len(events))

\* The failures of this session since its last acceptance.
TrailingFailures ==
  LET ev == SessionEvents
      accepts == {i \in DOMAIN ev : ev[i].accepted}
  IN  IF accepts = {} THEN Len(ev)
      ELSE Len(ev) - (CHOOSE i \in accepts : \A j \in accepts : j <= i)

AcceptedThisSession == \E i \in DOMAIN SessionEvents : SessionEvents[i].accepted

CommittedRows == {i \in DOMAIN attempts : attempts[i].committed /\ attempts[i].iter > 0}

BetweenCommits == pc \in Active \ (CommitSteps \cup {"baseline"})

-----------------------------------------------------------------------------
(* Ledger and branch *)

(* A row the ledger calls committed names a commit that is on the branch   *)
(* and holds that row's edit, and a commit the ledger does not acknowledge *)
(* costs a fault between `git commit` and mark_committed.                  *)
LedgerMatchesBranch ==
  /\ \A i \in CommittedRows :
       /\ attempts[i].sha \in DOMAIN branch
       /\ branch[attempts[i].sha] = [files |-> Files(attempts[i].edit),
                                         iter |-> attempts[i].iter]
  /\ Len(branch) <= Cardinality(CommittedRows) + faults
                      + (IF pc = "mark_committed" THEN 1 ELSE 0)

(* No iteration has two accepted rows, whichever sessions wrote them: a    *)
(* resumed session starts after every iteration the ledger has seen.       *)
OneWinnerPerIteration ==
  \A i, j \in DOMAIN attempts :
    attempts[i].accepted /\ attempts[j].accepted /\ attempts[i].iter = attempts[j].iter
      => i = j

(* Rows are appended in iteration order and never changed, except that an  *)
(* accepted row is marked committed once.                                  *)
LedgerOnlyGrows ==
  [][ /\ Len(attempts') >= Len(attempts)
      /\ \A i \in DOMAIN attempts :
           \/ attempts'[i] = attempts[i]
           \/ /\ attempts[i].accepted /\ ~ attempts[i].committed
              /\ attempts'[i] = [attempts[i] EXCEPT !.committed = TRUE,
                                                    !.sha = Len(branch)]
      /\ \A i \in DOMAIN attempts, j \in DOMAIN attempts' :
           j > Len(attempts) => attempts[i].iter <= attempts'[j].iter
    ]_attempts

(* Between two commits of a first session, or once a resumed session has   *)
(* committed, the last commit, the index, both files on disk and the       *)
(* in-memory incumbent are the same edit, and the incumbent's row is the   *)
(* newest committed one: what candidates are diffed against, what they are *)
(* compared with and what the branch holds cannot drift apart.             *)
StoresAgree ==
  BetweenCommits /\ (sessions = 1 \/ nCommitted > 0) =>
    /\ index = HeadFiles /\ work = HeadFiles
    /\ HeadFiles = Files(incumbent.edit) /\ incumbent.returns = incumbent.edit
    /\ attempts[incumbent.id].edit = incumbent.edit
    /\ \A i \in CommittedRows : i <= incumbent.id

\* Commit d after commit c holds other files, or an unrecognised config whose
\* win was soon after c's.
MayFollow(c, d) ==
  d.files = c.files =>
    /\ d.files.config \notin Recognised
    /\ d.iter - c.iter <= ExploitPatience /\ d.iter - c.iter <= StuckThreshold

(* `git commit` is called with --allow-empty, so only the guards on        *)
(* unchanged candidates keep a first session from committing what the      *)
(* branch holds already.  They leave one gap: while the session still      *)
(* exploits its last win, a configuration the similarity does not          *)
(* recognise may be committed again.                                       *)
RepeatsOnlyUnrecognised ==
  sessions = 1 /\ ~ NumericOpt =>
    /\ branch # <<>> => branch[1].files # Files(Baseline)
    /\ \A i \in 1 .. Len(branch) - 1 : MayFollow(branch[i], branch[i + 1])

History == INSTANCE RunHistory WITH
  reached   <- IF attempts = <<>> THEN 0 ELSE LastIteration,
  wins      <- [i \in DOMAIN branch |-> branch[i].iter],
  certified <- {attempts[i].iter : i \in CommittedRows}

(* The branch and the ledger of any run, with its faults and its resumed   *)
(* sessions, are a behaviour of RunHistory.                                *)
ImplementsHistory == History!Spec

-----------------------------------------------------------------------------
(* Holdout budget *)

(* With one asset universe and no numeric optimisation, the calls of       *)
(* confirm(), with the baseline's and earlier runs' holdout rows, stay     *)
(* within holdout_peek_limit, but for one lost row per fault that struck   *)
(* between the call and the row that records it.  (Earlier rows alone may  *)
(* already exceed the limit: then no call is made.)                        *)
PeekBudgetKept ==
  ~ NumericOpt /\ attempts # <<>> =>
    \A h \in Hashes :
      peeks[h] > 0 => PriorPeeks[h] + 1 + peeks[h] <= PeekLimit + faults

-----------------------------------------------------------------------------
(* Mode and early stop *)

(* The loop goes on exactly while no event of the session refused a peek   *)
(* and its last `Patience` events are not all failures.                    *)
StopsExactlyWhenDue ==
  LET ev == SessionEvents
      due == /\ ev # <<>>
             /\ \/ ev[Len(ev)].limit
                \/ Patience > 0 /\ TrailingFailures >= Patience
  IN  /\ pc = "finish" => due
      /\ pc = "iterate" => ~ due

(* An iteration is generated in exploit mode exactly when the session has  *)
(* accepted a candidate and failed fewer times since than both the exploit *)
(* patience and the stuck threshold allow.                                 *)
ExploitAfterRecentWin ==
  pc = "iterate" =>
    (PreparedMode = "exploit" <=>
       /\ AcceptedThisSession
       /\ TrailingFailures < ExploitPatience
       /\ TrailingFailures < StuckThreshold)

(* A session that is started ends, whatever its candidates do: by its last *)
(* iteration, by early stop or by a fault.                                 *)
SessionsEnd == pc \in Active ~> pc \in Stopped

-----------------------------------------------------------------------------
(* Statements of the repository that the code does not keep *)

(* _resume_incumbent: "Queries the ledger for the latest accepted attempt".*)
ResumedIncumbentAccepted ==
  pc = "iterate" => attempts[incumbent.id].accepted

(* rollback_strategy: "Restore strategies/{name}.py, configs/{name}.yaml   *)
(* to HEAD."                                                               *)
RollbackRestoresHead ==
  [][(pc \in CommitSteps /\ pc' = "raised") => (work' = HeadFiles)]_vars

(* "Max holdout evaluations before early termination": the calls of        *)
(* confirm() never exceed the limit in a run without faults.               *)
PeekLimitHolds ==
  \A h \in Hashes : peeks[h] <= PeekLimit
=============================================================================
