---------------------------- MODULE MCSelection ----------------------------
(***************************************************************************)
(* The edits of the TLC runs of Selection.  Ratios are in hundredths,      *)
(* returns and drawdowns in per cent.                                      *)
(***************************************************************************)
EXTENDS SelectionProperties

CONSTANTS base, good, better, twin, overfit, loose, foreign, odd, slack, tuned, overtuned

Plain == [dd |-> 20, turnover |-> 20, pbo |-> None, minImprovement |-> 0,
          minReturn |-> 50, requireDsr |-> TRUE, tradeoff |-> 0, floor |-> None,
          compare |-> "deflated", tolerance |-> 4, epsilon |-> 0,
          holdoutTolerance |-> 0]

MCLimits == [e \in Edits |->
  CASE e = loose -> [Plain EXCEPT !.dd = 40, !.requireDsr = FALSE, !.compare = "raw"]
    [] e \in {good, better} -> [Plain EXCEPT !.tradeoff = 10, !.pbo = 40]
    [] e = odd   -> [Plain EXCEPT !.compare = "raw", !.pbo = 50]
    [] OTHER     -> Plain]

Backtest(sharpe, ret, dd) ==
  [sharpe |-> sharpe, sortino |-> sharpe, information_ratio |-> None,
   observed |-> sharpe, ret |-> ret, dd |-> dd, turnover |-> 10, regime |-> TRUE,
   pbo |-> None, dsr |-> 0, hdd |-> dd, hturnover |-> 10, hdsr |-> 0]

MCOutcome == [e \in Edits |->
  CASE e = base      -> Backtest(50, 10, 15)
    [] e = good      -> Backtest(80, 12, 12)
    [] e = better    -> Backtest(100, 16, 12)
    [] e = twin      -> [Backtest(80, 12, 12) EXCEPT !.turnover = 8]
    [] e = overfit   -> Backtest(120, 20, 10)
    [] e = loose     -> Backtest(60, 30, 35)
    [] e = slack     -> Backtest(49, 11, 12)
    [] e = foreign   -> Backtest(70, 9, 10)
    [] e = odd       -> Backtest(90, NaN, 10)
    [] e = tuned     -> Backtest(110, 16, 11)
    [] e = overtuned -> Backtest(130, 18, 10)]

MCHoldoutSharpe == [e \in Edits |->
  CASE e = base -> 40 [] e = good -> 60 [] e = better -> 70 [] e = twin -> 60
    [] e = overfit -> 10 [] e = loose -> 55 [] e = foreign -> 65 [] e = slack -> 45 [] e = odd -> None
    [] e = tuned -> 75 [] e = overtuned -> 20]

\* A series with a fat tail or few days measures its Sharpe ratio worse.
MCPrecision == [e \in Edits |->
  CASE e = odd -> 3 [] e = overtuned -> 7 [] e = overfit -> 10 [] OTHER -> 14]

MCHoldoutPrecision == [e \in Edits |-> 10]

\* An overfitted edit is good in one half and bad in the other.
Halves == [e \in Edits |->
  CASE e = overfit -> <<200, 20>> [] e = overtuned -> <<220, 30>>
    [] OTHER -> <<MCOutcome[e].observed + 10, MCOutcome[e].observed - 10>>]

MCHalfSharpe == [e \in Edits |-> << Halves[e], <<Halves[e][2], Halves[e][1]>> >>]

\* norm.cdf from two deviations below zero to two above
MCPhi == [t \in -20 .. 20 |->
  << 2, 3, 4, 4, 5, 7, 8, 10, 12, 14, 16, 18, 21, 24, 27, 31, 34, 38, 42, 46, 50,
     54, 58, 62, 66, 69, 73, 76, 79, 82, 84, 86, 88, 90, 92, 93, 95, 96, 96, 97, 98 >>[t + 21]]

MCExpectedZ == <<0, 52, 85, 103>>

\* the history of odd's universe is shorter than 60 days
MCIncomparable == ({odd} \X Edits) \cup (Edits \X {odd})

MCHash    == [e \in Edits |-> IF e = foreign THEN "other" ELSE "home"]
MCSeries  == [e \in Edits |-> IF e = twin THEN good ELSE e]
MCFamily  == [e \in Edits |->
  CASE e \in {good, better, twin, tuned} -> "trend"
    [] e \in {overfit, overtuned} -> "overfit" [] e = foreign -> "abroad"
    [] OTHER -> "plain"]
MCTunings == [e \in Edits |-> CASE e \in {good, better} -> {tuned, overtuned}
                                [] e = loose -> {overtuned} [] OTHER -> {}]

MCProposals ==
  { << >>, <<good>>, <<twin>>, <<loose>>, <<foreign>>, <<odd>>, <<good, better>>,
    <<better, good>>, <<twin, better>>, <<overfit, good>>, <<overfit, loose>>,
    <<foreign, good>>, <<odd, better>>, <<tuned, better>>, <<better, better>>,
    <<good, twin>>, <<loose, foreign, overfit>>, <<overtuned, tuned>>, <<better, loose>>,
    <<odd, foreign>>, <<slack, base>>, <<better, twin, good>> }
=============================================================================
