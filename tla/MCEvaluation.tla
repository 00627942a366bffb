---------------------------- MODULE MCEvaluation ----------------------------
(***************************************************************************)
(* The instance TLC checks: years of four numbers whose second is          *)
(* 29 February, every other year a leap year; two years of training, one   *)
(* of testing and one of holdout; tables that begin on 28 or 29 February   *)
(* or 1 March, end in the first, fifth, sixth or seventh year, and miss    *)
(* one day.                                                                *)
(***************************************************************************)
EXTENDS EvaluationProperties

MCLeapYears == {0, 2, 4, 6}

Days(first, last) == {d \in first .. last : d % 4 = 1 => d \div 4 \in MCLeapYears}

MCCalendars ==
  {Days(first, last) \ {hole} : first \in 0 .. 2, last \in {3, 19, 22, 26}, hole \in {12, 14, 18, 30}}

Style(honest, memory, every, last) ==
  [honest |-> honest, adaptive |-> last, memory |-> memory,
   rebalances |-> {d \in 0 .. 26 : d % every = 0}, last |-> last]

MCStrategies ==
  {Style(TRUE, m, e, l) : m \in {0, 30}, e \in {1, 5}, l \in BOOLEAN}
    \cup {Style(FALSE, 0, e, l) : e \in {1, 5}, l \in BOOLEAN}

MCRegimes == {[from |-> 1, to |-> 2], [from |-> 24, to |-> 25]}
=============================================================================
