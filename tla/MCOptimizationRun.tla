------------------------- MODULE MCOptimizationRun -------------------------
(***************************************************************************)
(* Constants of the TLC runs of OptimizationRun.                           *)
(***************************************************************************)
EXTENDS RunProperties

CONSTANTS base, e1, e2, h1, h2

OneUniverse  == [e \in Edits |-> h1]
TwoUniverses == [e \in Edits |-> IF e = base THEN h1 ELSE h2]
OnePrior     == [h \in Hashes |-> 1]
NoPrior      == [h \in Hashes |-> 0]
=============================================================================
