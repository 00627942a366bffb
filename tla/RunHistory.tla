----------------------------- MODULE RunHistory -----------------------------
(***************************************************************************)
(* What an optimisation run promises to whoever reads its branch and its   *)
(* ledger afterwards, however many sessions it took and wherever they were *)
(* cut short: iterations are used once and in order, an iteration wins at  *)
(* most one commit, the commits stand in the order of their iterations and *)
(* are never rewritten, and the ledger certifies a commit only while that  *)
(* commit is the latest thing the run did.                                 *)
(***************************************************************************)
EXTENDS Naturals, Sequences

VARIABLES
  reached,    \* the highest iteration with a row in the ledger
  wins,       \* the iterations whose winner was committed, oldest first
  certified   \* the iterations whose commit the ledger acknowledges

vars == <<reached, wins, certified>>

LastWin == IF wins = <<>> THEN 0 ELSE wins[Len(wins)]

Init == reached = 0 /\ wins = <<>> /\ certified = {}

(* A new iteration leaves its first row.                                   *)
Advance ==
  /\ reached' \in Nat /\ reached' > reached
  /\ UNCHANGED <<wins, certified>>

(* The iteration reached commits its winner; it has not won before.        *)
Win ==
  /\ LastWin < reached
  /\ wins' = Append(wins, reached)
  /\ UNCHANGED <<reached, certified>>

(* The ledger acknowledges the commit of the iteration reached.            *)
Certify ==
  /\ LastWin = reached /\ reached > 0
  /\ certified' = certified \cup {reached}
  /\ UNCHANGED <<reached, wins>>

Next == Advance \/ Win \/ Certify

Spec == Init /\ [][Next]_vars
=============================================================================
