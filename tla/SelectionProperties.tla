------------------------ MODULE SelectionProperties ------------------------
(***************************************************************************)
(* What the selection of a run promises, told from the ledger, the         *)
(* incumbent and the batch together.                                       *)
(***************************************************************************)
EXTENDS Selection

GateNames ==
  {"max_drawdown", "regimes", "turnover", "pbo", "metric_floor",
   "target_metric_improvement", "min_return_ratio", "dsr_non_degradation",
   "holdout_dsr_non_degradation"}

Reasons ==
  [stage : {"gate", "diversity_returns", "holdout_peek_limit", "all_candidates_failed"},
   phase : {"select", "confirm", "budget", "none"}, gate : GateNames \cup {"none"}]

ASSUME ReasonsAssumption == None \notin Reasons

CandidateType ==
  [edit : Edits, report : Report, reason : Reasons \cup {None}, corr : 0 .. 100,
   confirmed : BOOLEAN, tuned : BOOLEAN]

RowType ==
  [iter : Nat, edit : Edits, hash : {Hash[e] : e \in Edits}, report : Report,
   accepted : BOOLEAN, peeked : BOOLEAN, reason : Reasons \cup {None},
   explore : BOOLEAN, tuned : BOOLEAN]

(* The types; the incumbent names a row of the ledger as soon as there is  *)
(* one, so that its own row can be left out when it is deflated anew.      *)
TypeOK ==
  /\ \A i \in DOMAIN attempts : attempts[i] \in RowType
  /\ incumbent \in [edit : Edits, id : {0} \cup DOMAIN attempts, report : Report]
  /\ incumbent.id = 0 => pc = "baseline"
  /\ mode \in {"explore", "exploit"} /\ k \in 0 .. MaxIterations
  /\ pc \in {"baseline", "generate", "select", "tune", "commit", "record", "stopped"}
  /\ \A i \in DOMAIN batch : batch[i] \in CandidateType
  /\ at \in Nat /\ winner \in {0} \cup DOMAIN batch
  /\ lastAttempt \in Reasons \cup {None}
  /\ \A i \in DOMAIN lastFailures : lastFailures[i] \in Reasons

-----------------------------------------------------------------------------
Fresh(e) == DeflateHoldout(DeflateSelection(Outcome[e], e, 0), e, 0)

WithinHardLimits(r, c) == Passes(HardChecks(r, c)) /\ ~ Exceeds(r.hdd, c.dd)
                            /\ ~ Exceeds(r.hturnover, c.turnover)

(* The incumbent is only ever replaced by an edit whose own backtest,      *)
(* deflated by the trials on record when it is committed, respects its     *)
(* limits and does not degrade the deflated Sharpe ratio of the incumbent  *)
(* deflated by the same trials, in sample (unless its configuration waives *)
(* that) and on the holdout.  This holds for a tuned configuration too.    *)
NeverWorseThanIncumbent ==
  [][incumbent.id # 0 /\ incumbent'.id # incumbent.id =>
       LET e   == incumbent'.edit
           c   == EditLimits[e]
           old == RenewedHoldout([incumbent EXCEPT !.report = Renewed(incumbent)])
       IN  /\ incumbent'.report = Fresh(e)
           /\ WithinHardLimits(Fresh(e), c)
           /\ c.requireDsr => ~ Degrades(Fresh(e).dsr, old.dsr, c.epsilon)
           /\ ~ Degrades(Fresh(e).hdsr, old.hdsr, c.epsilon + c.holdoutTolerance)
    ]_vars

-----------------------------------------------------------------------------
\* Candidate a, as deflated by the select phase, is at least as good as b in
\* everything select() and the ranking look at, and better in the deflated
\* Sharpe ratio and the target metric.
Dominates(a, b) ==
  LET r == a.report
      s == b.report
  IN  /\ EditLimits[a.edit] = EditLimits[b.edit]
      /\ {r.ret, s.ret, r[Target], s[Target]} \subseteq Int
      /\ r.dsr > s.dsr /\ r[Target] > s[Target] /\ r.ret >= s.ret
      /\ ~ Exceeds(r.dd, s.dd) /\ ~ Exceeds(r.turnover, s.turnover)
      /\ s.regime => r.regime
      /\ r.pbo = None \/ (s.pbo # None /\ ~ Exceeds(r.pbo, s.pbo))
      /\ a.corr <= b.corr

(* The holdout is never spent on a candidate when the same batch holds one *)
(* that dominates it and is no duplicate of a recorded attempt: neither    *)
(* the gates, the tradeoff of return against deflated ratio nor the        *)
(* ranking with its penalty turn such a pair around.                       *)
NoDominatedChoice ==
  \A i, j \in DOMAIN batch :
    /\ batch[j].confirmed /\ ~ batch[j].tuned
    /\ batch[i].reason = None \/ batch[i].reason.stage # "diversity_returns"
    => ~ Dominates(batch[i], batch[j])

-----------------------------------------------------------------------------
\* two reports are of one backtest, whatever trials deflated them
SameBacktest(r, s) ==
  [r EXCEPT !.dsr = 0, !.hdsr = 0, !.pbo = None] = [s EXCEPT !.dsr = 0, !.hdsr = 0, !.pbo = None]

(* A row's configuration, report and holdout series come from one          *)
(* backtest, also when numeric optimisation replaced the winner; a row     *)
(* holds a holdout series exactly when the holdout decided about it; and   *)
(* the incumbent is what its row says, its deflated ratios aside.          *)
RowsHoldOneBacktest ==
  /\ \A i \in DOMAIN attempts :
       /\ SameBacktest(attempts[i].report, Outcome[attempts[i].edit])
       /\ attempts[i].peeked <=>
            \/ attempts[i].accepted
            \/ attempts[i].reason # None /\ attempts[i].reason.phase = "confirm"
  /\ incumbent.id # 0 =>
       /\ attempts[incumbent.id].accepted
       /\ attempts[incumbent.id].edit = incumbent.edit
       /\ SameBacktest(attempts[incumbent.id].report, incumbent.report)
       /\ \A i \in DOMAIN attempts : attempts[i].accepted => i <= incumbent.id

(* While a run explores, the holdout is never consulted for a return       *)
(* series that an earlier iteration already has on record, accepted or     *)
(* not, and that compares with it; only numeric optimisation can lead back *)
(* to one.                                                                 *)
DuplicatesTakeNoPeek ==
  \A i, j \in DOMAIN attempts :
    /\ attempts[i].iter < attempts[j].iter
    /\ attempts[j].explore /\ attempts[j].peeked /\ ~ attempts[j].tuned
    => \/ Series[attempts[i].edit] # Series[attempts[j].edit]
       \/ <<attempts[j].edit, attempts[i].edit>> \in Incomparable

\* The rows of an iteration that say why they failed
FailedRows(n) ==
  {i \in DOMAIN attempts : attempts[i].iter = n /\ ~ attempts[i].accepted
                             /\ attempts[i].reason # None}

(* After a commit the next prompt's failure section is empty, otherwise it *)
(* holds the failures of exactly the rows the last iteration left with a   *)
(* reason, the main one among them.  What the prompt tells of the holdout, *)
(* its history table included, some recorded peek has paid for.            *)
FeedbackIsCurrent ==
  pc = "generate" /\ k > 0 =>
    LET failed == Picked(attempts, FailedRows(k))
        told   == [i \in DOMAIN failed |-> failed[i].reason]
    IN  /\ IF \E i \in DOMAIN attempts : attempts[i].iter = k /\ attempts[i].accepted
             THEN lastAttempt = None /\ lastFailures = << >>
             ELSE /\ lastFailures = told
                  /\ lastAttempt \in {told[i] : i \in DOMAIN told}
                       \/ (told = << >> /\ lastAttempt = Unexplained)
        /\ \A r \in Told : r.phase = "confirm" =>
             \E i \in DOMAIN attempts : attempts[i].peeked /\ attempts[i].reason = r
=============================================================================
