------------------------------ MODULE Deflation ------------------------------
(***************************************************************************)
(* The statistics that deflated_sharpe.py and cscv.py compute from the     *)
(* trials on record and one more: the number of independent trials, the    *)
(* Sharpe ratio the best of so many would show by luck, the deflated       *)
(* Sharpe ratio, and the probability of backtest overfitting.              *)
(*                                                                         *)
(* The trials are a function from column numbers to edits, the series on   *)
(* record first and the new one last.  Sharpe ratios are annual ones in    *)
(* hundredths.  What the code computes from a return series itself is data *)
(* of its edit: its cluster, how precisely its days measure its Sharpe     *)
(* ratio, and its Sharpe ratios on the halves of each split.               *)
(***************************************************************************)
EXTENDS Gate, FiniteSets, FiniteSetsExt, Functions

CONSTANTS
  Edits,
  Family,      \* the cluster of correlated series an edit's belongs to
  Splits,      \* the splits into halves; none when the days are too few
  HalfSharpe,  \* an edit's Sharpe ratios inside and outside of a split
  ExpectedZ,   \* expected maximum of 1, 2, ... standard normal trials, in hundredths
  Reach, Phi   \* norm.cdf in hundredths, by tenths of a deviation up to Reach

ASSUME DeflationAssumption ==
  /\ IsFiniteSet(Splits)
  /\ HalfSharpe \in [Edits -> [Splits -> Int \X Int]]
  /\ ExpectedZ \in Seq(Nat) /\ ExpectedZ # << >>
  /\ Reach \in Nat /\ Phi \in [(- Reach) .. Reach -> 0 .. 100]

-----------------------------------------------------------------------------
\* calculate_effective_trials
EffectiveTrials(trials) == Cardinality({Family[trials[i]] : i \in DOMAIN trials})

Square(x) == x * x

\* the whole part of a square root
Root(v) == CHOOSE s \in 0 .. v : Square(s) <= v /\ v < Square(s + 1)

\* the standard deviation of a sample: deviations from the mean are taken times
\* the sample's size
Deviation(sample) ==
  LET m     == Cardinality(DOMAIN sample)
      total == SumFunction(sample)
      sum   == SumFunction([i \in DOMAIN sample |-> Square(m * sample[i] - total)])
  IN  Root(sum \div (m * m * (m - 1)))

ExpectedMaximumOf(n) == ExpectedZ[IF n < Len(ExpectedZ) THEN n ELSE Len(ExpectedZ)]

\* sr0: what the best of n trials without skill would show
ExpectedMaximum(n, sharpes) ==
  IF n > 1 /\ Cardinality(DOMAIN sharpes) > 1
    THEN (Deviation(sharpes) * ExpectedMaximumOf(n)) \div 100 ELSE 0

NormalCdf(t) == Phi[IF t < - Reach THEN - Reach ELSE IF t > Reach THEN Reach ELSE t]

\* calculate_psr_dsr.  The precision is one over the deviation of the Sharpe
\* ratio's estimate, from the number of days, skew and kurtosis: in thousandths
\* of a deviation to a hundredth of Sharpe ratio; 0 for a series without two
\* days or without variance.
DeflatedRatio(sharpe, precision, n, sharpes) ==
  IF precision = 0 THEN 0
  ELSE NormalCdf(((sharpe - ExpectedMaximum(n, sharpes)) * precision) \div 100)

\* the first trial with the greatest Sharpe ratio inside of split s
BestInside(trials, s) ==
  CHOOSE i \in DOMAIN trials : \A j \in DOMAIN trials :
    LET x == HalfSharpe[trials[i]][s][1]
        y == HalfSharpe[trials[j]][s][1]
    IN  x > y \/ (x = y /\ i <= j)

\* its rank outside is below the middle: more trials are better than are worse
Overfitted(trials, s) ==
  LET outside(i) == HalfSharpe[trials[i]][s][2]
      best == outside(BestInside(trials, s))
  IN  Cardinality({i \in DOMAIN trials : outside(i) < best})
        < Cardinality({i \in DOMAIN trials : outside(i) > best})

\* calculate_pbo, in per cent
Overfitting(trials) ==
  IF Cardinality(DOMAIN trials) <= 1 \/ Splits = {} THEN None
  ELSE (100 * Cardinality({s \in Splits : Overfitted(trials, s)})) \div Cardinality(Splits)
=============================================================================
