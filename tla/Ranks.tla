-------------------------------- MODULE Ranks --------------------------------
(***************************************************************************)
(* What a loop in ascending order meets: the elements of a finite set of   *)
(* integers by their rank, and those of a sequence at a set of positions.  *)
(***************************************************************************)
EXTENDS Integers, FiniteSets

\* The i-th smallest element
Nth(S, i) == CHOOSE s \in S : Cardinality({t \in S : t < s}) = i - 1

\* The elements of a sequence at the given positions, in their order
Picked(s, positions) ==
  [n \in 1 .. Cardinality(positions) |-> s[Nth(positions, n)]]
=============================================================================
