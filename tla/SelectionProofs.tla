--------------------------- MODULE SelectionProofs ---------------------------
(***************************************************************************)
(* Proofs about Selection, for every table of outcomes, limits, series and *)
(* hashes, every holdout budget and every number of iterations.            *)
(*                                                                         *)
(* The reports have their type because deflation keeps it (Deflation...).  *)
(* A candidate the select phase let through was judged against the         *)
(* incumbent as deflated in this iteration (JudgedFairly), and the winner  *)
(* has earned its place against it on the holdout too (WinnerEarned).      *)
(***************************************************************************)
EXTENDS SelectionProperties, SequenceTheorems, Extrema

-----------------------------------------------------------------------------
(* Deflation *)

(* The values of a function over a finite set are finitely many.           *)
LEMMA FiniteImage ==
  ASSUME NEW S, IsFiniteSet(S), NEW f
  PROVE  IsFiniteSet({f[x] : x \in S})
<1> DEFINE T == {f[x] : x \in S}
           g == [x \in S |-> f[x]]
<1>1. g \in Surjection(S, T)
  BY DEF Surjection
<1> QED
  BY <1>1, FS_Surjection

\* f adds the values of a function up, subset by subset of its domain
Adds(fun, f) ==
  f = [s \in SUBSET DOMAIN fun |->
         IF s = {} THEN 0
         ELSE fun[CHOOSE x \in s : TRUE] + f[s \ {CHOOSE x \in s : TRUE}]]

(* A finite sum of integers is an integer, and of naturals a natural.      *)
LEMMA SumTyped ==
  ASSUME NEW X \in {Nat, Int}, NEW fun, IsFiniteSet(DOMAIN fun),
         \A i \in DOMAIN fun : fun[i] \in X
  PROVE  SumFunction(fun) \in X
<1> DEFINE D == DOMAIN fun
           ch == [s \in SUBSET D |-> CHOOSE x \in s : TRUE]
           step == [p \in (SUBSET D) \X X |->
                      IF p[1] = {} THEN 0 ELSE fun[CHOOSE x \in p[1] : TRUE] + p[2]]
<1>1. \A s \in SUBSET D : s # {} => (CHOOSE x \in s : TRUE) \in s
  OBVIOUS
<1>2. \A y, z \in X : y + z \in X
  OBVIOUS
<1>3. \A s \in SUBSET D : s # {} => fun[CHOOSE x \in s : TRUE] \in X
  BY <1>1
<1>4. \A p \in (SUBSET D) \X X : p[1] # {} => fun[CHOOSE x \in p[1] : TRUE] + p[2] \in X
  BY <1>2, <1>3
<1>5. step \in [(SUBSET D) \X X -> X] /\ 0 \in X
  BY <1>4
<1>6. \A s \in SUBSET D : s # {} => ch[s] \in s
  BY <1>1
<1>7. \A s \in SUBSET D : ch[s] = (CHOOSE x \in s : TRUE)
  OBVIOUS
<1>8. \A s \in SUBSET D, x \in X :
        s # {} => step[<<s, x>>] = fun[CHOOSE y \in s : TRUE] + x
  OBVIOUS
<1>9. IsFiniteSet(D)
  OBVIOUS
<1> HIDE DEF D, ch, step
<1>10. PICK f \in [SUBSET D -> X] : IsFold(f, D, 0, ch, step)
  BY <1>5, <1>6, <1>9, FoldExists
<1>11. \A s \in SUBSET D :
         f[s] = IF s = {} THEN 0
                ELSE fun[CHOOSE x \in s : TRUE] + f[s \ {CHOOSE x \in s : TRUE}]
  <2> SUFFICES ASSUME NEW s \in SUBSET D
               PROVE  f[s] = IF s = {} THEN 0
                             ELSE fun[CHOOSE x \in s : TRUE] + f[s \ {CHOOSE x \in s : TRUE}]
    OBVIOUS
  <2>1. f[s \ {ch[s]}] \in X
    OBVIOUS
  <2>2. f[s] = IF s = {} THEN 0 ELSE step[<<s, f[s \ {ch[s]}]>>]
    BY <1>10 DEF IsFold
  <2>3. s # {} => step[<<s, f[s \ {ch[s]}]>>] = fun[CHOOSE x \in s : TRUE] + f[s \ {ch[s]}]
    BY <1>8, <2>1
  <2> QED
    BY <1>7, <2>2, <2>3
<1>12. Adds(fun, f)
  BY <1>10, <1>11 DEF Adds, D
<1>13. Adds(fun, CHOOSE g : Adds(fun, g))
  BY <1>12
<1>14. SumFunction(fun) = (CHOOSE g : Adds(fun, g))[DOMAIN fun]
  BY DEF SumFunction, SumFunctionOnSet, FoldFunctionOnSet, MapThenFoldSet, Adds
<1>15. PICK h : Adds(fun, h) /\ SumFunction(fun) = h[DOMAIN fun]
  BY <1>13, <1>14
<1> DEFINE T == {n \in Nat : \A s \in SUBSET D : Cardinality(s) = n => h[s] \in X}
<1>16. \A s \in SUBSET D : IsFiniteSet(s) /\ Cardinality(s) \in Nat
  BY <1>9, FS_Subset, FS_CardinalityType
<1>17. 0 \in T
  <2>1. \A s \in SUBSET D : Cardinality(s) = 0 => s = {}
    BY <1>16, FS_EmptySet
  <2>2. h[{}] = 0
    BY <1>15 DEF Adds
  <2> QED
    BY <1>5, <2>1, <2>2
<1>18. ASSUME NEW n \in Nat, n \in T PROVE n + 1 \in T
  <2> SUFFICES ASSUME NEW s \in SUBSET D, Cardinality(s) = n + 1 PROVE h[s] \in X
    OBVIOUS
  <2> DEFINE x == CHOOSE y \in s : TRUE
  <2>0. Cardinality({}) = 0 /\ n + 1 # 0
    BY FS_EmptySet
  <2>1. s # {}
    BY <2>0
  <2>2. x \in s /\ fun[x] \in X
    BY <2>1, <1>1, <1>3 DEF D
  <2>3. h[s] = fun[x] + h[s \ {x}]
    BY <1>15, <2>1 DEF Adds, D
  <2> HIDE DEF x
  <2>4. Cardinality(s \ {x}) = n
    BY <1>16, <2>2, FS_RemoveElement
  <2>5. h[s \ {x}] \in X
    BY <1>18, <2>4
  <2> QED
    BY <1>2, <2>2, <2>3, <2>5
<1>19. Cardinality(D) \in T
  <2> HIDE DEF T
  <2> QED
    BY <1>16, <1>17, <1>18, ReachesAll
<1> QED
  BY <1>15, <1>19 DEF D

(* The root of a natural number is one.                                    *)
LEMMA RootTyped ==
  ASSUME NEW v \in Nat
  PROVE  Root(v) \in Nat
<1> DEFINE S == {s \in 0 .. v : v < Square(s + 1)}
<1>1. S # {}
  <2>1. v < (v + 1) * (v + 1)
    <3>1. (v + 1) * (v + 1) = v * v + 2 * v + 1 /\ v * v >= 0
      OBVIOUS
    <3> QED
      BY <3>1
  <2>2. v \in S
    BY <2>1 DEF Square
  <2> QED
    BY <2>2
<1>2. S \in SUBSET Nat
  OBVIOUS
<1>3. PICK m \in S : \A s \in S : m <= s
  <2> HIDE DEF S
  <2> QED
    BY <1>1, <1>2, LeastExists
<1>4. Square(m) <= v
  <2>1. CASE m = 0
    BY <2>1 DEF Square
  <2>2. CASE m # 0
    <3>1. m - 1 \in 0 .. v /\ m - 1 \notin S /\ (m - 1) + 1 = m
      BY <1>3, <2>2
    <3>2. ~ (v < Square(m))
      BY <3>1
    <3>3. Square(m) \in Int
      BY DEF Square
    <3> QED
      BY <3>2, <3>3
  <2> QED
    BY <2>1, <2>2
<1>5. \E s \in 0 .. v : Square(s) <= v /\ v < Square(s + 1)
  BY <1>4
<1> QED
  BY <1>5 DEF Root

IsSample(sample) == IsFiniteSet(DOMAIN sample) /\ \A i \in DOMAIN sample : sample[i] \in Int

(* The deviation of a sample of at least two is a natural number.          *)
LEMMA DeviationTyped ==
  ASSUME NEW sample, IsSample(sample), Cardinality(DOMAIN sample) > 1
  PROVE  Deviation(sample) \in Nat
<1> DEFINE m == Cardinality(DOMAIN sample)
           total == SumFunction(sample)
           squares == [i \in DOMAIN sample |-> Square(m * sample[i] - total)]
           d == m * m * (m - 1)
<1>1. m \in Nat /\ m > 1
  BY FS_CardinalityType DEF IsSample
<1>2. total \in Int
  BY SumTyped DEF IsSample
<1> HIDE DEF m, total
<1>3. \A x \in Int : Square(x) \in Nat
  <2> SUFFICES ASSUME NEW x \in Int PROVE x * x \in Nat
    BY DEF Square
  <2>1. x * x \in Int /\ x * x >= 0
    OBVIOUS
  <2> QED
    BY <2>1
<1>4. \A i \in DOMAIN sample : m * sample[i] - total \in Int
  <2> SUFFICES ASSUME NEW i \in DOMAIN sample PROVE m * sample[i] - total \in Int
    OBVIOUS
  <2>1. sample[i] \in Int
    BY DEF IsSample
  <2> QED
    BY <1>1, <1>2, <2>1
<1>5. DOMAIN squares = DOMAIN sample /\ \A i \in DOMAIN squares : squares[i] \in Nat
  BY <1>3, <1>4
<1> HIDE DEF squares
<1>6. SumFunction(squares) \in Nat
  BY <1>5, SumTyped DEF IsSample
<1>7. d \in Nat /\ d > 0
  <2>1. m * m \in Nat /\ m * m > 0
    BY <1>1
  <2>2. \A x, y \in Nat : x > 0 /\ y > 0 => x * y \in Nat /\ x * y > 0
    OBVIOUS
  <2>3. m - 1 \in Nat /\ m - 1 > 0
    BY <1>1
  <2> QED
    BY <2>1, <2>2, <2>3
<1> HIDE DEF d
<1>8. \A x \in Nat : x \div d \in Nat
  BY <1>7
<1>9. Root(SumFunction(squares) \div d) \in Nat
  BY <1>6, <1>8, RootTyped
<1> QED
  BY <1>9 DEF Deviation, m, total, squares, d

(* sr0 is a number.                                                        *)
LEMMA ExpectedMaximumTyped ==
  ASSUME NEW n \in Nat, NEW sharpes, IsSample(sharpes)
  PROVE  ExpectedMaximum(n, sharpes) \in Int
<1>1. CASE n > 1 /\ Cardinality(DOMAIN sharpes) > 1
  <2>1. ExpectedMaximumOf(n) \in Nat
    <3>1. Len(ExpectedZ) \in Nat /\ Len(ExpectedZ) > 0
          /\ \A i \in 1 .. Len(ExpectedZ) : ExpectedZ[i] \in Nat
      BY DeflationAssumption
    <3> QED
      BY <1>1, <3>1 DEF ExpectedMaximumOf
  <2>2. Deviation(sharpes) \in Nat
    BY <1>1, DeviationTyped
  <2>3. \A x, y \in Nat : (x * y) \div 100 \in Int
    OBVIOUS
  <2> QED
    BY <1>1, <2>1, <2>2, <2>3 DEF ExpectedMaximum
<1> QED
  BY <1>1 DEF ExpectedMaximum

\* a ratio or correlation in hundredths
Percentage == 0 .. 100

(* The deflated ratio is a probability, whatever the trials.               *)
LEMMA DeflatedRatioTyped ==
  ASSUME NEW sharpe \in Int, NEW precision \in Nat, NEW n \in Nat, NEW sharpes,
         IsSample(sharpes)
  PROVE  DeflatedRatio(sharpe, precision, n, sharpes) \in Percentage
<1>1. \A t \in Int : NormalCdf(t) \in Percentage
  <2> SUFFICES ASSUME NEW t \in Int PROVE NormalCdf(t) \in Percentage
    OBVIOUS
  <2> DEFINE u == IF t < - Reach THEN - Reach ELSE IF t > Reach THEN Reach ELSE t
             D == (- Reach) .. Reach
  <2>1. u \in D
    BY DeflationAssumption
  <2>2. Phi \in [D -> Percentage]
    BY DeflationAssumption DEF Percentage
  <2> HIDE DEF u, D
  <2>3. Phi[u] \in Percentage
    BY <2>1, <2>2
  <2> QED
    BY <2>3 DEF NormalCdf, u
<1>2. ExpectedMaximum(n, sharpes) \in Int
  BY ExpectedMaximumTyped
<1>3. \A x, y \in Int : (x * y) \div 100 \in Int
  OBVIOUS
<1>4. ((sharpe - ExpectedMaximum(n, sharpes)) * precision) \div 100 \in Int
  <2>1. PICK z \in Int : z = sharpe - ExpectedMaximum(n, sharpes)
    BY <1>2
  <2> QED
    BY <1>3, <2>1
<1> QED
  BY <1>1, <1>4 DEF DeflatedRatio, Percentage

(* The number of effective trials is one.                                  *)
LEMMA EffectiveTrialsTyped ==
  ASSUME NEW trials, IsFiniteSet(DOMAIN trials)
  PROVE  EffectiveTrials(trials) \in Nat
<1> DEFINE f == [i \in DOMAIN trials |-> Family[trials[i]]]
<1>1. {Family[trials[i]] : i \in DOMAIN trials} = {f[i] : i \in DOMAIN trials}
  OBVIOUS
<1> HIDE DEF f
<1>2. IsFiniteSet({f[i] : i \in DOMAIN trials})
  BY FiniteImage
<1> QED
  BY <1>1, <1>2, FS_CardinalityType DEF EffectiveTrials

(* The probability of overfitting is one, or none is computed.             *)
LEMMA OverfittingTyped ==
  ASSUME NEW trials
  PROVE  Overfitting(trials) \in Nat \cup {None}
<1> DEFINE bad == {s \in Splits : Overfitted(trials, s)}
           n == Cardinality(bad)
           m == Cardinality(Splits)
<1>1. IsFiniteSet(Splits) /\ IsFiniteSet(bad)
  BY DeflationAssumption, FS_Subset
<1> HIDE DEF bad
<1>2. n \in Nat /\ m \in Nat /\ (Splits # {} => m # 0)
  BY <1>1, FS_CardinalityType, FS_EmptySet
<1> HIDE DEF n, m
<1>3. m # 0 => (100 * n) \div m \in Nat
  BY <1>2
<1> QED
  BY <1>2, <1>3 DEF Overfitting, bad, n, m

Rowed == attempts \in Seq(RowType)

(* Every row of the ledger is a row.                                       *)
LEMMA RowTyped ==
  ASSUME Rowed
  PROVE  \A i \in DOMAIN attempts : attempts[i] \in RowType
<1> QED
  BY ElementOfSeq DEF Rowed

(* The rows a deflation reads are finitely many rows of the ledger.        *)
LEMMA RowsFinite ==
  ASSUME Rowed, NEW h, NEW x
  PROVE  /\ IsFiniteSet(Rows(h, x)) /\ Rows(h, x) \subseteq DOMAIN attempts
         /\ IsFiniteSet(PeekedRows(h, x)) /\ PeekedRows(h, x) \subseteq DOMAIN attempts
<1>1. IsFiniteSet(DOMAIN attempts)
  BY FS_Interval DEF Rowed
<1>2. Rows(h, x) \subseteq DOMAIN attempts /\ PeekedRows(h, x) \subseteq DOMAIN attempts
  BY DEF Rows, PeekedRows
<1> QED
  BY <1>1, <1>2, FS_Subset

(* A column more makes finitely many columns of the same kind.             *)
LEMMA JoinedTyped ==
  ASSUME NEW X, NEW h, IsFiniteSet(DOMAIN h), \A i \in DOMAIN h : h[i] \in X, NEW own \in X
  PROVE  /\ IsFiniteSet(DOMAIN Joined(h, own))
         /\ \A i \in DOMAIN Joined(h, own) : Joined(h, own)[i] \in X
<1>1. DOMAIN Joined(h, own) = DOMAIN h \cup {Len(attempts) + 1}
  BY DEF Joined
<1>2. IsFiniteSet(DOMAIN h \cup {Len(attempts) + 1})
  BY FS_AddElement
<1>3. \A i \in DOMAIN h \cup {Len(attempts) + 1} : Joined(h, own)[i] \in X
  BY DEF Joined
<1> QED
  BY <1>1, <1>2, <1>3

(* A deflated Sharpe ratio by the trials on record is a probability.       *)
LEMMA RatioTyped ==
  ASSUME Rowed, NEW ids \in SUBSET DOMAIN attempts, NEW e, NEW p \in Nat,
         NEW f, \A i \in ids : f[i] \in Int, DOMAIN f = ids, NEW own \in Int
  PROVE  DeflatedRatio(own, p, EffectiveTrials(Joined([i \in ids |-> attempts[i].edit], e)),
                       Joined(f, own)) \in Percentage
<1> DEFINE g == [i \in ids |-> attempts[i].edit]
<1>1. IsFiniteSet(ids) /\ DOMAIN g = ids
  BY FS_Interval, FS_Subset DEF Rowed
<1>2. IsSample(Joined(f, own))
  BY <1>1, JoinedTyped DEF IsSample
<1> HIDE DEF g
<1>3. IsFiniteSet(DOMAIN Joined(g, e))
  <2>1. DOMAIN Joined(g, e) = ids \cup {Len(attempts) + 1}
    BY <1>1 DEF Joined
  <2> QED
    BY <1>1, <2>1, FS_AddElement
<1>4. EffectiveTrials(Joined(g, e)) \in Nat
  BY <1>3, EffectiveTrialsTyped
<1> QED
  BY <1>2, <1>4, DeflatedRatioTyped DEF g

(* Deflating a report changes its deflated ratio and its probability of    *)
(* overfitting and nothing else; the ratio is a probability.               *)
LEMMA DeflateSelectionTyped ==
  ASSUME Rowed, NEW r \in Report, NEW e \in Edits, NEW x
  PROVE  /\ DeflateSelection(r, e, x) \in Report
         /\ DeflateSelection(r, e, x).dsr \in Percentage
         /\ DeflateSelection(r, e, x).pbo \in Nat \cup {None}
<1> DEFINE ids == Rows(Hash[e], x)
           f == [i \in ids |-> attempts[i].report.observed]
           trials == Joined([i \in ids |-> attempts[i].edit], e)
           v == DeflatedRatio(r.observed, Precision[e], EffectiveTrials(trials),
                              Joined(f, r.observed))
           p == Overfitting(trials)
<1>1. ids \in SUBSET DOMAIN attempts
  BY RowsFinite
<1>2. \A i \in DOMAIN attempts : attempts[i].report \in Report
  BY RowTyped DEF RowType
<1>3. \A i \in ids : f[i] \in Int
  BY <1>1, <1>2 DEF Report
<1>4. r.observed \in Int /\ Precision[e] \in Nat /\ DOMAIN f = ids
  BY RunAssumption DEF Report
<1> HIDE DEF f, ids
<1>5. v \in Percentage
  BY <1>1, <1>3, <1>4, RatioTyped
<1>6. p \in Nat \cup {None}
  BY OverfittingTyped
<1>7. DeflateSelection(r, e, x) = [r EXCEPT !.dsr = v, !.pbo = p]
  BY DEF DeflateSelection, ids, f
<1> HIDE DEF v, p
<1>8. /\ [r EXCEPT !.dsr = v, !.pbo = p] \in Report
      /\ [r EXCEPT !.dsr = v, !.pbo = p].dsr = v /\ [r EXCEPT !.dsr = v, !.pbo = p].pbo = p
  <2>1. v \in Metric /\ p \in Metric \cup {None}
    BY <1>5, <1>6 DEF Metric, Percentage
  <2> QED
    BY <2>1 DEF Report
<1> QED
  BY <1>5, <1>6, <1>7, <1>8

(* So does deflating its holdout.                                          *)
LEMMA DeflateHoldoutTyped ==
  ASSUME Rowed, NEW r \in Report, NEW e \in Edits, NEW x
  PROVE  DeflateHoldout(r, e, x) \in Report
<1> DEFINE ids == PeekedRows(Hash[e], x)
           f == [i \in ids |-> HoldoutSharpe[attempts[i].edit]]
           own == HoldoutSharpe[e]
           v == DeflatedRatio(own, HoldoutPrecision[e],
                              EffectiveTrials(Joined([i \in ids |-> attempts[i].edit], e)),
                              Joined(f, own))
<1>1. ids \in SUBSET DOMAIN attempts
  BY RowsFinite
<1>2. \A i \in DOMAIN attempts : attempts[i].edit \in Edits
  BY RowTyped DEF RowType
<1>3. \A i \in ids : f[i] \in Int
  BY <1>1, <1>2, RunAssumption DEF PeekedRows
<1>4. HoldoutPrecision[e] \in Nat /\ DOMAIN f = ids
  BY RunAssumption
<1>5. CASE HoldoutSharpe[e] = None
  BY <1>5 DEF DeflateHoldout
<1>6. CASE HoldoutSharpe[e] # None
  <2>1. own \in Int
    BY <1>6, RunAssumption
  <2>2. DeflateHoldout(r, e, x) = [r EXCEPT !.hdsr = v]
    BY <1>6 DEF DeflateHoldout
  <2> HIDE DEF f, ids, own
  <2>3. v \in Percentage
    BY <1>1, <1>3, <1>4, <2>1, RatioTyped
  <2> HIDE DEF v
  <2>4. [r EXCEPT !.hdsr = v] \in Report
    BY <2>3 DEF Report, Metric, Percentage
  <2> QED
    BY <2>2, <2>4
<1> QED
  BY <1>5, <1>6

(* A second deflation by the same trials changes nothing, and the two      *)
(* deflations do not disturb each other.                                   *)
LEMMA DeflationsIndependent ==
  ASSUME NEW r \in Report, NEW e, NEW x
  PROVE  /\ DeflateSelection(DeflateSelection(r, e, x), e, x) = DeflateSelection(r, e, x)
         /\ DeflateHoldout(DeflateHoldout(r, e, x), e, x) = DeflateHoldout(r, e, x)
         /\ DeflateSelection(DeflateHoldout(DeflateSelection(r, e, x), e, x), e, x)
              = DeflateHoldout(DeflateSelection(r, e, x), e, x)
<1> DEFINE v == DeflateSelection(r, e, x).dsr
           p == DeflateSelection(r, e, x).pbo
           w == DeflateHoldout(r, e, x).hdsr
           s == [r EXCEPT !.dsr = v, !.pbo = p]
           t == [s EXCEPT !.hdsr = w]
           u == [r EXCEPT !.hdsr = w]
<1>1. \A y : y.observed = r.observed =>
        DeflateSelection(y, e, x) = [y EXCEPT !.dsr = v, !.pbo = p]
  <2> DEFINE ids == Rows(Hash[e], x)
             trials == Joined([i \in ids |-> attempts[i].edit], e)
             q == DeflatedRatio(r.observed, Precision[e], EffectiveTrials(trials),
                    Joined([i \in ids |-> attempts[i].report.observed], r.observed))
             o == Overfitting(trials)
  <2>1. \A y : y.observed = r.observed => DeflateSelection(y, e, x) = [y EXCEPT !.dsr = q, !.pbo = o]
    BY DEF DeflateSelection
  <2> HIDE DEF q, o
  <2>2. [r EXCEPT !.dsr = q, !.pbo = o].dsr = q /\ [r EXCEPT !.dsr = q, !.pbo = o].pbo = o
    BY DEF Report
  <2>3. v = q /\ p = o
    BY <2>1, <2>2
  <2> QED
    BY <2>1, <2>3
<1>2. \A y : DeflateHoldout(y, e, x) = IF HoldoutSharpe[e] = None THEN y
                                       ELSE [y EXCEPT !.hdsr = w]
  <2> DEFINE ids == PeekedRows(Hash[e], x)
             trials == Joined([i \in ids |-> attempts[i].edit], e)
             q == DeflatedRatio(HoldoutSharpe[e], HoldoutPrecision[e], EffectiveTrials(trials),
                    Joined([i \in ids |-> HoldoutSharpe[attempts[i].edit]], HoldoutSharpe[e]))
  <2>1. \A y : DeflateHoldout(y, e, x) = IF HoldoutSharpe[e] = None THEN y
                                         ELSE [y EXCEPT !.hdsr = q]
    BY DEF DeflateHoldout
  <2> HIDE DEF q
  <2>2. [r EXCEPT !.hdsr = q].hdsr = q
    BY DEF Report
  <2> QED
    BY <2>1, <2>2
<1> HIDE DEF v, p, w
<1>3. /\ s.observed = r.observed /\ t.observed = r.observed
      /\ [s EXCEPT !.dsr = v, !.pbo = p] = s /\ [t EXCEPT !.dsr = v, !.pbo = p] = t
      /\ [t EXCEPT !.hdsr = w] = t /\ [u EXCEPT !.hdsr = w] = u
  BY DEF Report
<1> HIDE DEF s, t, u
<1>4. DeflateSelection(r, e, x) = s /\ DeflateSelection(s, e, x) = s
  BY <1>1, <1>3 DEF s
<1>5. DeflateHoldout(DeflateHoldout(r, e, x), e, x) = DeflateHoldout(r, e, x)
  BY <1>2, <1>3 DEF u
<1>6. DeflateSelection(DeflateHoldout(s, e, x), e, x) = DeflateHoldout(s, e, x)
  BY <1>1, <1>2, <1>3, <1>4 DEF t
<1> QED
  BY <1>4, <1>5, <1>6

-----------------------------------------------------------------------------
(* Deflation as an operator of the rows, for steps that leave them alone   *)

JoinedTo(rows, history, own) ==
  [i \in DOMAIN history \cup {Len(rows) + 1} |->
     IF i \in DOMAIN history THEN history[i] ELSE own]

Deflated(rows, r, e, x) ==
  LET ids     == {i \in DOMAIN rows : rows[i].hash = Hash[e] /\ i # x}
      trials  == JoinedTo(rows, [i \in ids |-> rows[i].edit], e)
      sharpes == JoinedTo(rows, [i \in ids |-> rows[i].report.observed], r.observed)
  IN  [r EXCEPT !.dsr = DeflatedRatio(r.observed, Precision[e],
                                      EffectiveTrials(trials), sharpes),
                !.pbo = Overfitting(trials)]

DeflatedOnHoldout(rows, r, e, x) ==
  LET ids     == {i \in {j \in DOMAIN rows : rows[j].hash = Hash[e] /\ j # x} :
                    rows[i].peeked /\ HoldoutSharpe[rows[i].edit] # None}
      trials  == JoinedTo(rows, [i \in ids |-> rows[i].edit], e)
      sharpes == JoinedTo(rows, [i \in ids |-> HoldoutSharpe[rows[i].edit]], HoldoutSharpe[e])
  IN  IF HoldoutSharpe[e] = None THEN r
      ELSE [r EXCEPT !.hdsr = DeflatedRatio(HoldoutSharpe[e], HoldoutPrecision[e],
                                            EffectiveTrials(trials), sharpes)]

FreshBy(rows, e) == DeflatedOnHoldout(rows, Deflated(rows, Outcome[e], e, 0), e, 0)

RenewedBy(rows, inc) == Deflated(rows, inc.report, inc.edit, inc.id)

RenewedHoldoutBy(rows, inc) == DeflatedOnHoldout(rows, inc.report, inc.edit, inc.id)

FullyRenewedBy(rows, inc) ==
  RenewedHoldoutBy(rows, [inc EXCEPT !.report = RenewedBy(rows, inc)])

(* Each deflation of the model is the one by the rows on record.           *)
LEMMA DeflationByRows ==
  /\ \A r, e, x : /\ DeflateSelection(r, e, x) = Deflated(attempts, r, e, x)
                  /\ DeflateHoldout(r, e, x) = DeflatedOnHoldout(attempts, r, e, x)
  /\ \A e : Fresh(e) = FreshBy(attempts, e)
  /\ \A inc : /\ Renewed(inc) = RenewedBy(attempts, inc)
              /\ RenewedHoldout(inc) = RenewedHoldoutBy(attempts, inc)
<1>1. \A r, e, x : /\ DeflateSelection(r, e, x) = Deflated(attempts, r, e, x)
                   /\ DeflateHoldout(r, e, x) = DeflatedOnHoldout(attempts, r, e, x)
  BY DEF DeflateSelection, DeflateHoldout, Deflated, DeflatedOnHoldout, Joined, JoinedTo,
         Rows, PeekedRows
<1>2. \A e : Fresh(e) = FreshBy(attempts, e)
  BY <1>1 DEF Fresh, FreshBy
<1>3. \A inc : /\ Renewed(inc) = RenewedBy(attempts, inc)
               /\ RenewedHoldout(inc) = RenewedHoldoutBy(attempts, inc)
  BY <1>1 DEF Renewed, RenewedHoldout, RenewedBy, RenewedHoldoutBy
<1> QED
  BY <1>1, <1>2, <1>3

-----------------------------------------------------------------------------
(* The gates *)

CheckType == [gate : GateNames, failed : BOOLEAN]

(* Each phase makes a fixed number of checks, each under the name of its   *)
(* gate.                                                                   *)
LEMMA ChecksTyped ==
  ASSUME NEW r, NEW base, NEW c
  PROVE  /\ HardChecks(r, c) \in Seq(CheckType) /\ Len(HardChecks(r, c)) = 4
         /\ SoftChecks(r, base, c) \in Seq(CheckType) /\ Len(SoftChecks(r, base, c)) = 4
         /\ SelectChecks(r, base, c) \in Seq(CheckType)
         /\ ConfirmChecks(r, base, c) \in Seq(CheckType)
<1>1. {"max_drawdown", "regimes", "turnover", "pbo", "metric_floor",
       "target_metric_improvement", "min_return_ratio", "dsr_non_degradation",
       "holdout_dsr_non_degradation"} \subseteq GateNames
  BY DEF GateNames
<1>2. \A u, v, x, y \in CheckType : /\ <<u, v, x, y>> \in Seq(CheckType)
                                    /\ Len(<<u, v, x, y>>) = 4
  OBVIOUS
<1>3. \A u, v, x \in CheckType : <<u, v, x>> \in Seq(CheckType)
  OBVIOUS
<1>4. /\ HardChecks(r, c) \in Seq(CheckType) /\ Len(HardChecks(r, c)) = 4
  <2>1. /\ Check("max_drawdown", Exceeds(r.dd, c.dd)) \in CheckType
        /\ Check("turnover", Exceeds(r.turnover, c.turnover)) \in CheckType
    BY <1>1 DEF Exceeds, Check, CheckType
  <2>2. Check("regimes", ~ r.regime) \in CheckType
    BY <1>1 DEF Check, CheckType
  <2>3. Check("pbo", c.pbo # None /\ r.pbo # None /\ Exceeds(r.pbo, c.pbo)) \in CheckType
    BY <1>1 DEF Check, CheckType
  <2> QED
    BY <1>2, <2>1, <2>2, <2>3 DEF HardChecks
<1>5. /\ SoftChecks(r, base, c) \in Seq(CheckType) /\ Len(SoftChecks(r, base, c)) = 4
  <2>1. Check("metric_floor", c.floor # None /\ InSampleMetric(r) <= c.floor) \in CheckType
    BY <1>1 DEF Check, CheckType
  <2>2. Check("target_metric_improvement", base # None /\ NoImprovement(r, base, c))
          \in CheckType
    BY <1>1 DEF Check, CheckType
  <2>3. Check("min_return_ratio", base # None /\ ReturnTooLow(r, base, c)) \in CheckType
    BY <1>1 DEF Check, CheckType
  <2>4. Check("dsr_non_degradation",
              c.requireDsr /\ base # None /\ Degrades(r.dsr, base.dsr, c.epsilon))
          \in CheckType
    BY <1>1 DEF Check, CheckType
  <2> QED
    BY <1>2, <2>1, <2>2, <2>3, <2>4 DEF SoftChecks
<1>6. ConfirmChecks(r, base, c) \in Seq(CheckType)
  <2>1. /\ Check("max_drawdown", Exceeds(r.hdd, c.dd)) \in CheckType
        /\ Check("turnover", Exceeds(r.hturnover, c.turnover)) \in CheckType
    BY <1>1 DEF Exceeds, Check, CheckType
  <2>2. Check("holdout_dsr_non_degradation",
              \/ r.hdsr = NaN
              \/ base # None /\ Degrades(r.hdsr, base.hdsr,
                                         c.epsilon + c.holdoutTolerance)) \in CheckType
    BY <1>1 DEF Check, CheckType
  <2> QED
    BY <1>3, <2>1, <2>2 DEF ConfirmChecks
<1> QED
  BY <1>4, <1>5, <1>6 DEF SelectChecks

(* A sequence of checks that is not passed names the gate that failed.     *)
LEMMA FailedGateTyped ==
  ASSUME NEW checks \in Seq(CheckType), ~ Passes(checks)
  PROVE  FailedGate(checks) \in GateNames
<1>1. Failing(checks) \in SUBSET Nat /\ Failing(checks) # {}
  BY DEF Passes, Failing
<1>2. \E i \in Failing(checks) : \A j \in Failing(checks) : i <= j
  BY <1>1, LeastExists
<1> DEFINE first == CHOOSE i \in Failing(checks) : \A j \in Failing(checks) : i <= j
<1>3. first \in DOMAIN checks
  BY <1>2 DEF Failing
<1>4. checks[first] \in CheckType
  BY <1>3, ElementOfSeq
<1> QED
  BY <1>4 DEF FailedGate, CheckType

(* Passing select() means passing every hard gate and, unless the limits   *)
(* waive it, not degrading the incumbent's deflated Sharpe ratio.          *)
LEMMA SelectMeans ==
  ASSUME NEW r, NEW base, base # None, NEW c, Select(r, base, c)
  PROVE  /\ Passes(HardChecks(r, c))
         /\ c.requireDsr => ~ Degrades(r.dsr, base.dsr, c.epsilon)
<1> DEFINE H == HardChecks(r, c)
           S == SoftChecks(r, base, c)
<1>1. H \in Seq(CheckType) /\ Len(H) = 4 /\ S \in Seq(CheckType) /\ Len(S) = 4
  BY ChecksTyped
<1>2. \A i \in DOMAIN (H \o S) : ~ (H \o S)[i].failed
  BY DEF Select, SelectChecks, Passes, Failing
<1> HIDE DEF H, S
<1>3. DOMAIN (H \o S) = 1 .. 8 /\ DOMAIN H = 1 .. 4
  <2>1. H \o S \in Seq(CheckType) /\ Len(H \o S) = Len(H) + Len(S)
    BY <1>1, ConcatProperties
  <2>2. DOMAIN (H \o S) = 1 .. Len(H \o S) /\ DOMAIN H = 1 .. Len(H)
    BY <1>1, <2>1, LenProperties
  <2>3. Len(H) + Len(S) = 8
    BY <1>1
  <2> QED
    BY <1>1, <2>1, <2>2, <2>3
<1>4. \A i \in 1 .. 4 : (H \o S)[i] = H[i] /\ (H \o S)[i + 4] = S[i]
  <2> DEFINE HS == H \o S
  <2>1. \A j \in 1 .. Len(H) + Len(S) :
          (H \o S)[j] = IF j <= Len(H) THEN H[j] ELSE S[j - Len(H)]
    BY <1>1, ConcatProperties
  <2>2. \A j \in 1 .. Len(H) + Len(S) :
          HS[j] = IF j <= Len(H) THEN H[j] ELSE S[j - Len(H)]
    BY <2>1
  <2> HIDE DEF HS
  <2>3. ASSUME NEW i \in 1 .. 4 PROVE HS[i] = H[i] /\ HS[i + 4] = S[i]
    <3>1. i \in 1 .. Len(H) + Len(S) /\ i + 4 \in 1 .. Len(H) + Len(S)
      BY <1>1
    <3>2. HS[i] = H[i]
      BY <1>1, <2>2, <3>1
    <3>3. HS[i + 4] = S[i + 4 - Len(H)]
      BY <1>1, <2>2, <3>1
    <3> QED
      BY <1>1, <3>2, <3>3
  <2> QED
    BY <2>3 DEF HS
<1>5. \A i \in 1 .. 4 : ~ H[i].failed /\ ~ S[i].failed
  <2>1. TAKE i \in 1 .. 4
  <2>2. i \in 1 .. 8 /\ i + 4 \in 1 .. 8
    OBVIOUS
  <2> QED
    BY <1>2, <1>3, <1>4, <2>2
<1>6. Passes(H)
  BY <1>3, <1>5 DEF Passes, Failing
<1>7. S[4].failed <=> (c.requireDsr /\ base # None /\ Degrades(r.dsr, base.dsr, c.epsilon))
  BY DEF S, SoftChecks, Check
<1>8. ~ S[4].failed
  BY <1>5
<1> QED
  BY <1>6, <1>7, <1>8 DEF H

(* Passing confirm() means respecting the limits on the holdout and not    *)
(* degrading the incumbent's deflated holdout Sharpe ratio.                *)
LEMMA ConfirmMeans ==
  ASSUME NEW r, NEW base, base # None, NEW c, Confirm(r, base, c)
  PROVE  /\ ~ Exceeds(r.hdd, c.dd) /\ ~ Exceeds(r.hturnover, c.turnover)
         /\ ~ Degrades(r.hdsr, base.hdsr, c.epsilon + c.holdoutTolerance)
<1> DEFINE C == ConfirmChecks(r, base, c)
<1>1. \A i \in DOMAIN C : ~ C[i].failed
  BY DEF Confirm, Passes, Failing
<1>2. DOMAIN C = 1 .. 3
  BY DEF ConfirmChecks
<1>3. ~ C[1].failed /\ ~ C[2].failed /\ ~ C[3].failed
  BY <1>1, <1>2
<1> QED
  BY <1>3 DEF ConfirmChecks, Check

(* The hard gates do not look at a deflated ratio.                         *)
LEMMA HardChecksIgnoreDeflation ==
  ASSUME Rowed, NEW r \in Report, NEW e \in Edits, NEW x, NEW c
  PROVE  /\ HardChecks(DeflateHoldout(r, e, x), c) = HardChecks(r, c)
         /\ DeflateHoldout(r, e, x).dsr = r.dsr
<1>1. \A v : LET s == [r EXCEPT !.hdsr = v]
             IN  /\ s.dd = r.dd /\ s.regime = r.regime /\ s.turnover = r.turnover
                 /\ s.pbo = r.pbo /\ s.dsr = r.dsr
  BY DEF Report
<1>2. LET s == DeflateHoldout(r, e, x)
      IN  /\ s.dd = r.dd /\ s.regime = r.regime /\ s.turnover = r.turnover
          /\ s.pbo = r.pbo /\ s.dsr = r.dsr
  BY <1>1 DEF DeflateHoldout
<1> QED
  BY <1>2 DEF HardChecks

-----------------------------------------------------------------------------
(* The invariant *)

Phases == {"baseline", "generate", "select", "tune", "commit", "record", "stopped"}

Types ==
  /\ attempts \in Seq(RowType)
  /\ incumbent \in [edit : Edits, id : Nat, report : Report]
  /\ batch \in Seq(CandidateType)
  /\ mode \in {"explore", "exploit"} /\ k \in Nat /\ at \in Nat /\ at >= 1
  /\ winner \in {0} \cup DOMAIN batch
  /\ pc \in Phases
  /\ \A i \in DOMAIN attempts : attempts[i].hash = Hash[Baseline]
  /\ pc = "baseline" => incumbent.id = 0 /\ attempts = << >>
  /\ pc # "baseline" => incumbent.id \in DOMAIN attempts

\* What the select phase has made of the candidates before "at"
JudgedFairly ==
  pc = "select" =>
    /\ at > 1 => incumbent.report = RenewedBy(attempts, incumbent)
    /\ \A i \in DOMAIN batch :
         /\ i >= at => batch[i] = Candidate(batch[i].edit)
         /\ i < at /\ batch[i].reason = None =>
              /\ batch[i].report = Deflated(attempts, Outcome[batch[i].edit], batch[i].edit, 0)
              /\ Select(batch[i].report, incumbent.report, EditLimits[batch[i].edit])

\* What both gates grant an edit and its report against an incumbent's report
Earned(rows, e, r, base) ==
  /\ r = FreshBy(rows, e)
  /\ WithinHardLimits(r, EditLimits[e])
  /\ EditLimits[e].requireDsr => ~ Degrades(r.dsr, base.dsr, EditLimits[e].epsilon)
  /\ ~ Degrades(r.hdsr, base.hdsr, EditLimits[e].epsilon + EditLimits[e].holdoutTolerance)

WinnerEarned ==
  pc \in {"tune", "commit"} =>
    /\ winner \in DOMAIN batch
    /\ incumbent.report = FullyRenewedBy(attempts, incumbent)
    /\ Earned(attempts, batch[winner].edit, batch[winner].report, incumbent.report)

Inv == Types /\ JudgedFairly /\ WinnerEarned

-----------------------------------------------------------------------------
(* Candidates and rows keep their types *)

(* An edit of a batch starts as a candidate.                               *)
LEMMA CandidateTyped ==
  ASSUME NEW e \in Edits
  PROVE  Candidate(e) \in CandidateType
<1>1. Outcome[e] \in Report
  BY RunAssumption
<1> QED
  BY <1>1 DEF Candidate, CandidateType

(* A candidate's row is a row, under the session's dataset hash.           *)
LEMMA RowOfCandidateTyped ==
  ASSUME NEW c \in CandidateType, NEW a \in BOOLEAN, NEW p \in BOOLEAN, k \in Nat
  PROVE  /\ Row(c, a, p) \in RowType
         /\ Row(c, a, p).hash = Hash[Baseline]
<1>1. Hash[Baseline] \in {Hash[e] : e \in Edits}
  BY RunAssumption
<1>2. (mode = "explore") \in BOOLEAN
  OBVIOUS
<1>3. (IF a THEN None ELSE c.reason) \in Reasons \cup {None}
  BY DEF CandidateType
<1> QED
  BY <1>1, <1>2, <1>3 DEF Row, RowType, CandidateType

(* A correlation with the recorded rows is a percentage, and as great as   *)
(* with any row that compares.                                             *)
LEMMA HistoryCorrelationTyped ==
  ASSUME Types, NEW e
  PROVE  /\ HistoryCorrelation(e) \in 0 .. 100
         /\ \A i \in DOMAIN attempts : <<e, attempts[i].edit>> \notin Incomparable =>
              HistoryCorrelation(e) >= Correlation(e, attempts[i].edit)
<1>1. Rows(Hash[Baseline], 0) = DOMAIN attempts
  <2>1. DOMAIN attempts = 1 .. Len(attempts) /\ Len(attempts) \in Nat
    BY LenProperties DEF Types
  <2>2. \A i \in DOMAIN attempts : i # 0 /\ attempts[i].hash = Hash[Baseline]
    BY <2>1 DEF Types
  <2> QED
    BY <2>2 DEF Types, Rows
<1> DEFINE C == Comparable(e)
           f == [i \in C |-> Correlation(e, attempts[i].edit)]
           S == {0} \cup {Correlation(e, attempts[i].edit) : i \in C}
<1>2. C = {i \in DOMAIN attempts : <<e, attempts[i].edit>> \notin Incomparable}
  BY <1>1 DEF Comparable
<1>3. IsFiniteSet(S)
  <2>0. IsFiniteSet(DOMAIN attempts)
    BY FS_Interval DEF Types
  <2>1. IsFiniteSet(C)
    BY <1>2, <2>0, FS_Subset
  <2>2. {Correlation(e, attempts[i].edit) : i \in C} = {f[i] : i \in C}
    OBVIOUS
  <2> HIDE DEF f, C
  <2>3. IsFiniteSet({f[i] : i \in C})
    BY <2>1, FiniteImage
  <2>4. IsFiniteSet({Correlation(e, attempts[i].edit) : i \in C})
    BY <2>2, <2>3
  <2>5. S = {Correlation(e, attempts[i].edit) : i \in C} \cup {0}
    OBVIOUS
  <2> HIDE DEF S
  <2> QED
    BY <2>4, <2>5, FS_AddElement
<1>4. \A g : Correlation(e, g) \in 0 .. 100
  BY RunAssumption DEF Correlation
<1>5. S \subseteq 0 .. 100 /\ S # {}
  BY <1>4
<1>6. Max(S) \in S /\ \A y \in S : Max(S) >= y
  <2>1. S \in SUBSET Int
    BY <1>5
  <2> HIDE DEF S
  <2> QED
    BY <1>3, <1>5, <2>1, FiniteMax
<1>7. HistoryCorrelation(e) = Max(S)
  BY DEF HistoryCorrelation
<1> QED
  BY <1>2, <1>5, <1>6, <1>7

(* The select phase keeps a candidate's type.                              *)
LEMMA JudgedTyped ==
  ASSUME Types, pc # "baseline", NEW c \in CandidateType,
         NEW inc, inc.report \in Report
  PROVE  Judged(c, inc) \in CandidateType /\ Judged(c, inc).edit = c.edit
<1> DEFINE r == DeflateSelection(c.report, c.edit, 0)
           checks == SelectChecks(r, inc.report, EditLimits[c.edit])
           corr == HistoryCorrelation(c.edit)
           d == [c EXCEPT !.report = r]
<1>1. c.report \in Report /\ c.edit \in Edits
  BY DEF CandidateType
<1>2. r \in Report
  BY <1>1, DeflateSelectionTyped DEF Types, Rowed
<1>3. d \in CandidateType /\ d.edit = c.edit
  BY <1>2 DEF CandidateType
<1>4. ~ Passes(checks) => FailedGate(checks) \in GateNames
  BY ChecksTyped, FailedGateTyped
<1>5. corr \in 0 .. 100
  BY HistoryCorrelationTyped
<1> HIDE DEF r, checks, corr, d
<1>6. CASE ~ Passes(checks)
  <2>1. Reason("gate", "select", FailedGate(checks)) \in Reasons
    BY <1>4, <1>6 DEF Reason, Reasons
  <2>2. Judged(c, inc) = [d EXCEPT !.reason = Reason("gate", "select", FailedGate(checks))]
    BY <1>6 DEF Judged, r, checks, corr, d
  <2> QED
    BY <1>3, <2>1, <2>2 DEF CandidateType
<1>7. CASE Passes(checks) /\ mode = "explore" /\ corr = 100
  <2>1. Reason("diversity_returns", "select", "none") \in Reasons
    BY DEF Reason, Reasons
  <2>2. Judged(c, inc) = [d EXCEPT !.reason = Reason("diversity_returns", "select", "none"),
                                   !.corr = corr]
    BY <1>7 DEF Judged, r, checks, corr, d
  <2> QED
    BY <1>3, <1>5, <2>1, <2>2 DEF CandidateType
<1>8. CASE Passes(checks) /\ mode = "explore" /\ corr < 100
  <2>1. Judged(c, inc) = [d EXCEPT !.corr = corr]
    BY <1>5, <1>8 DEF Judged, r, checks, corr, d
  <2> QED
    BY <1>3, <1>5, <2>1 DEF CandidateType
<1>9. CASE Passes(checks) /\ mode # "explore"
  <2>1. Judged(c, inc) = d
    BY <1>9 DEF Judged, r, checks, corr, d
  <2> QED
    BY <1>3, <2>1
<1> QED
  BY <1>5, <1>6, <1>7, <1>8, <1>9

(* So does the confirm phase.                                              *)
LEMMA ConfirmedTyped ==
  ASSUME Rowed, NEW c \in CandidateType, NEW inc
  PROVE  Confirmed(c, inc) \in CandidateType /\ Confirmed(c, inc).edit = c.edit
<1> DEFINE r == DeflateHoldout(c.report, c.edit, 0)
           checks == ConfirmChecks(r, inc.report, EditLimits[c.edit])
<1>1. r \in Report
  BY DeflateHoldoutTyped DEF CandidateType
<1>2. ~ Passes(checks) => FailedGate(checks) \in GateNames
  BY ChecksTyped, FailedGateTyped
<1> HIDE DEF r, checks
<1>3. (IF Passes(checks) THEN None ELSE Reason("gate", "confirm", FailedGate(checks)))
        \in Reasons \cup {None}
  BY <1>2 DEF Reason, Reasons
<1>4. Confirmed(c, inc)
        = [c EXCEPT !.report = r, !.confirmed = TRUE,
                    !.reason = IF Passes(checks) THEN None
                               ELSE Reason("gate", "confirm", FailedGate(checks))]
  BY DEF Confirmed, r, checks
<1> QED
  BY <1>1, <1>3, <1>4 DEF CandidateType

(* The ranking is by numbers, so that some candidate comes first.          *)
LEMMA TopPasses ==
  ASSUME Types, Passers # {}
  PROVE  /\ Top \in Passers
         /\ \A j \in Passers :
              Score(batch[Top]) > Score(batch[j])
                \/ (Score(batch[Top]) = Score(batch[j]) /\ Top <= j)
<1>1. DOMAIN batch = 1 .. Len(batch) /\ Len(batch) \in Nat
  BY LenProperties DEF Types
<1>2. \A i \in DOMAIN batch : batch[i] \in CandidateType
  BY ElementOfSeq DEF Types
<1>3. Passers \subseteq DOMAIN batch /\ IsFiniteSet(Passers)
  <2>1. Passers \in SUBSET (1 .. Len(batch))
    BY <1>1 DEF Passers
  <2>2. IsFiniteSet(1 .. Len(batch))
    BY <1>1, FS_Interval
  <2> QED
    BY <1>1, <2>1, <2>2, FS_Subset
<1>4. \A c \in CandidateType : Score(c) \in Int
  <2>1. TAKE c \in CandidateType
  <2>2. CompareMetric(c.report, EditLimits[Baseline].compare) \in Int
    <3>1. c.report \in Report
      BY DEF CandidateType
    <3>2. c.report.dsr \in Int \cup {NaN}
      BY <3>1 DEF Report, Metric
    <3>3. InSampleMetric(c.report) \in Int
      BY DEF InSampleMetric
    <3> QED
      BY <3>2, <3>3 DEF CompareMetric
  <2>3. c.corr \in Int /\ Penalty \in Int
    <3>1. c.corr \in 0 .. 100
      BY DEF CandidateType
    <3>2. Penalty \in Nat
      BY RunAssumption
    <3> QED
      BY <3>1, <3>2
  <2> QED
    BY <2>2, <2>3 DEF Score
<1> DEFINE f == [i \in Passers |-> Score(batch[i])]
           S == {f[i] : i \in Passers}
<1>5. \A i \in Passers : f[i] = Score(batch[i]) /\ f[i] \in Int
  BY <1>2, <1>3, <1>4
<1> HIDE DEF f
<1>6. IsFiniteSet(S) /\ S # {} /\ S \in SUBSET Int
  BY <1>3, <1>5, FiniteImage
<1>7. PICK m \in Passers : \A j \in Passers : f[m] >= f[j]
  <2>1. Max(S) \in S /\ \A y \in S : Max(S) >= y
    <3> HIDE DEF S
    <3> QED
      BY <1>6, FiniteMax
  <2> QED
    BY <2>1
<1> DEFINE Best == {i \in Passers : f[i] = f[m]}
<1>8. Best \in SUBSET Nat /\ Best # {}
  BY <1>1, <1>3
<1>9. PICK i \in Best : \A j \in Best : i <= j
  <2> HIDE DEF Best
  <2> QED
    BY <1>8, LeastExists
<1>10. \A j \in Passers : f[i] > f[j] \/ (f[i] = f[j] /\ i <= j)
  <2>1. TAKE j \in Passers
  <2>2. f[m] >= f[j] /\ f[m] \in Int /\ f[j] \in Int /\ f[i] = f[m]
    BY <1>5, <1>7, <1>9
  <2>3. CASE f[j] = f[m]
    BY <1>9, <2>2, <2>3
  <2>4. CASE f[j] # f[m]
    BY <2>2, <2>4
  <2> QED
    BY <2>3, <2>4
<1>11. \E x \in Passers : \A j \in Passers :
          Score(batch[x]) > Score(batch[j]) \/ (Score(batch[x]) = Score(batch[j]) /\ x <= j)
  BY <1>5, <1>9, <1>10
<1> QED
  BY <1>11 DEF Top

-----------------------------------------------------------------------------
(* Types is kept *)

(* The initial state has its types.                                        *)
LEMMA InitTypes == Init => Types
<1> SUFFICES ASSUME Init PROVE Types
  OBVIOUS
<1>1. Outcome[Baseline] \in Report /\ Baseline \in Edits
  BY RunAssumption
<1>2. attempts \in Seq(RowType) /\ batch \in Seq(CandidateType)
  BY EmptySeq DEF Init
<1> QED
  BY <1>1, <1>2 DEF Init, Types, Phases

(* The incumbent's report stays a report when either phase renews it.      *)
LEMMA IncumbentTyped ==
  ASSUME Types
  PROVE  /\ incumbent.report \in Report /\ incumbent.edit \in Edits
         /\ Renewed(incumbent) \in Report /\ RenewedHoldout(incumbent) \in Report
<1>1. incumbent.report \in Report /\ incumbent.edit \in Edits /\ Rowed
  BY DEF Types, Rowed
<1> QED
  BY <1>1, DeflateSelectionTyped, DeflateHoldoutTyped DEF Renewed, RenewedHoldout

(* Recording the baseline writes the ledger's first row.                   *)
LEMMA BaselineKeepsTypes == Types /\ SetupBaseline => Types'
<1> SUFFICES ASSUME Types, SetupBaseline PROVE Types'
  OBVIOUS
<1> DEFINE r == DeflateHoldout(DeflateSelection(Outcome[Baseline], Baseline, 0), Baseline, 0)
           c == [Candidate(Baseline) EXCEPT !.report = r]
<1>1. Baseline \in Edits /\ Outcome[Baseline] \in Report /\ Rowed
  BY RunAssumption DEF Types, Rowed
<1>2. r \in Report
  BY <1>1, DeflateSelectionTyped, DeflateHoldoutTyped
<1>3. c \in CandidateType
  BY <1>1, <1>2, CandidateTyped DEF CandidateType
<1> DEFINE row == Row(c, TRUE, TRUE)
<1>4. row \in RowType /\ row.hash = Hash[Baseline]
  BY <1>3, RowOfCandidateTyped DEF Types
<1>5. attempts' = << row >>
  BY DEF SetupBaseline
<1> HIDE DEF row
<1>6. attempts' \in Seq(RowType) /\ DOMAIN attempts' = {1}
      /\ attempts'[1].hash = Hash[Baseline]
  BY <1>4, <1>5
<1>7. incumbent' \in [edit : Edits, id : Nat, report : Report] /\ incumbent'.id = 1
  BY <1>1, <1>2 DEF SetupBaseline
<1> QED
  BY <1>6, <1>7 DEF SetupBaseline, Types, toldVars, Phases

(* A new batch is one of candidates.                                       *)
LEMMA GenerateKeepsTypes == \A edits \in Proposals : Types /\ Generate(edits) => Types'
<1> SUFFICES ASSUME NEW edits \in Proposals, Types, Generate(edits) PROVE Types'
  OBVIOUS
<1>1. edits \in Seq(Edits)
  BY RunAssumption
<1>2. batch' = [i \in 1 .. Len(edits) |-> Candidate(edits[i])] /\ Len(edits) \in Nat
      /\ \A i \in 1 .. Len(edits) : edits[i] \in Edits
  BY <1>1, LenProperties, ElementOfSeq DEF Generate
<1>3. batch' \in Seq(CandidateType)
  BY <1>2, CandidateTyped, IsASeq
<1> QED
  BY <1>3 DEF Generate, Types, toldVars, Phases

(* Judging replaces one candidate by a candidate.                          *)
LEMMA JudgeKeepsTypes == Types /\ JudgeCandidate => Types'
<1> SUFFICES ASSUME Types, JudgeCandidate PROVE Types'
  OBVIOUS
<1> DEFINE inc == [incumbent EXCEPT !.report = Renewed(incumbent)]
<1>1. inc \in [edit : Edits, id : Nat, report : Report] /\ inc.id = incumbent.id
  BY IncumbentTyped DEF Types
<1>2. at \in DOMAIN batch /\ batch[at] \in CandidateType
  BY LenProperties, ElementOfSeq DEF Types, JudgeCandidate
<1>3. Judged(batch[at], inc) \in CandidateType
  BY <1>1, <1>2, JudgedTyped DEF JudgeCandidate
<1>4. batch' = [batch EXCEPT ![at] = Judged(batch[at], inc)] /\ incumbent' = inc
  BY DEF JudgeCandidate
<1> HIDE DEF inc
<1>5. batch' \in Seq(CandidateType) /\ DOMAIN batch' = DOMAIN batch
  BY <1>2, <1>3, <1>4, ExceptSeq, LenProperties DEF Types
<1> QED
  BY <1>1, <1>4, <1>5 DEF JudgeCandidate, Types, toldVars

(* Confirming does too, and names no other winner.                         *)
LEMMA ConfirmKeepsTypes == Types /\ ConfirmTop => Types' /\ (winner' # 0 => winner' = Top)
<1> SUFFICES ASSUME Types, ConfirmTop PROVE Types' /\ (winner' # 0 => winner' = Top)
  OBVIOUS
<1> DEFINE inc == [incumbent EXCEPT !.report = RenewedHoldout(incumbent)]
           c == Confirmed(batch[Top], inc)
<1>1. inc \in [edit : Edits, id : Nat, report : Report] /\ inc.id = incumbent.id
  BY IncumbentTyped DEF Types
<1>2. Top \in DOMAIN batch /\ batch[Top] \in CandidateType
  BY TopPasses, ElementOfSeq DEF Types, ConfirmTop, Passers
<1>3. c \in CandidateType
  BY <1>2, ConfirmedTyped DEF Types, Rowed
<1>4. batch' = [batch EXCEPT ![Top] = c] /\ incumbent' = inc
  BY DEF ConfirmTop
<1> HIDE DEF inc, c
<1>5. batch' \in Seq(CandidateType) /\ DOMAIN batch' = DOMAIN batch
  BY <1>2, <1>3, <1>4, ExceptSeq, LenProperties DEF Types
<1>6. winner' \in {0, Top} /\ pc' \in {"record", "tune", "commit"} /\ pc # "baseline"
  BY DEF ConfirmTop
<1> QED
  BY <1>1, <1>2, <1>4, <1>5, <1>6 DEF ConfirmTop, Types, toldVars, Phases

(* A refused peek gives the first of the ranking a reason.                 *)
LEMMA RefuseKeepsTypes == Types /\ RefusePeek => Types'
<1> SUFFICES ASSUME Types, RefusePeek PROVE Types'
  OBVIOUS
<1> DEFINE c == [batch[Top] EXCEPT !.reason = Reason("holdout_peek_limit", "budget", "none")]
<1>1. Top \in DOMAIN batch /\ batch[Top] \in CandidateType
  BY TopPasses, ElementOfSeq DEF Types, RefusePeek, Passers
<1>2. Reason("holdout_peek_limit", "budget", "none") \in Reasons
  BY DEF Reason, Reasons
<1>3. c \in CandidateType
  BY <1>1, <1>2 DEF CandidateType
<1>4. batch' = [batch EXCEPT ![Top] = c]
  BY DEF RefusePeek
<1> HIDE DEF c
<1>5. batch' \in Seq(CandidateType) /\ DOMAIN batch' = DOMAIN batch
  BY <1>1, <1>3, <1>4, ExceptSeq, LenProperties DEF Types
<1> QED
  BY <1>5 DEF RefusePeek, Types, runVars, toldVars, Phases

(* A tuned configuration is a candidate like the one it replaces.          *)
LEMMA TuneKeepsTypes == \A t \in Edits : Types /\ Tune(t) => Types'
<1> SUFFICES ASSUME NEW t \in Edits, Types, Tune(t) PROVE Types'
  OBVIOUS
<1> DEFINE r == DeflateHoldout(DeflateSelection(Outcome[t], t, 0), t, 0)
           c == Adopted(batch[winner], t, r)
<1>1. Outcome[t] \in Report /\ Rowed
  BY RunAssumption DEF Types, Rowed
<1>2. r \in Report
  BY <1>1, DeflateSelectionTyped, DeflateHoldoutTyped
<1>3. ASSUME winner \in DOMAIN batch PROVE c \in CandidateType
  <2>1. batch[winner] \in CandidateType
    BY <1>3, ElementOfSeq DEF Types
  <2> QED
    BY <1>2, <2>1 DEF Adopted, CandidateType
<1>4. batch' = [batch EXCEPT ![winner] = c] \/ batch' = batch
  BY DEF Tune
<1> HIDE DEF c
<1>5. batch' \in Seq(CandidateType) /\ DOMAIN batch' = DOMAIN batch
  <2>1. CASE winner \in DOMAIN batch
    BY <1>3, <1>4, <2>1, ExceptSeq, LenProperties DEF Types
  <2>2. CASE winner \notin DOMAIN batch
    <3>1. batch' = batch
      BY <1>4, <2>2, LenProperties DEF Types
    <3> QED
      BY <3>1 DEF Types
  <2> QED
    BY <2>1, <2>2
<1> QED
  BY <1>5 DEF Tune, Types, runVars, toldVars, Phases

(* Committing appends one row, the new incumbent's.                        *)
LEMMA CommitKeepsTypes == Types /\ WinnerEarned /\ Commit => Types'
<1> SUFFICES ASSUME Types, WinnerEarned, Commit PROVE Types'
  OBVIOUS
<1> DEFINE c == batch[winner]
           row == Row(c, TRUE, TRUE)
<1>1. c \in CandidateType
  BY ElementOfSeq DEF Types, WinnerEarned, Commit
<1>2. row \in RowType /\ row.hash = Hash[Baseline]
  BY <1>1, RowOfCandidateTyped DEF Types
<1>3. attempts' = Append(attempts, row) /\ attempts \in Seq(RowType)
  BY DEF Commit, Types
<1> HIDE DEF row
<1>4. /\ attempts' \in Seq(RowType) /\ Len(attempts') = Len(attempts) + 1
      /\ \A i \in DOMAIN attempts' : attempts'[i] = IF i \in DOMAIN attempts THEN attempts[i]
                                                   ELSE row
  BY <1>2, <1>3, AppendProperties, LenProperties
<1>5. \A i \in DOMAIN attempts' : attempts'[i].hash = Hash[Baseline]
  BY <1>2, <1>4 DEF Types
<1>6. incumbent' = [edit |-> c.edit, id |-> AttemptId, report |-> c.report]
  BY DEF Commit
<1>7. AttemptId \in DOMAIN attempts' /\ AttemptId \in Nat
  BY <1>3, <1>4, LenProperties DEF AttemptId
<1>8. incumbent' \in [edit : Edits, id : Nat, report : Report] /\ incumbent'.id = AttemptId
  BY <1>1, <1>6, <1>7 DEF CandidateType
<1> QED
  BY <1>4, <1>5, <1>7, <1>8 DEF Commit, Types, Phases

(* The losers are candidates of the batch, the winner is not among them.   *)
LEMMA LosersTyped ==
  ASSUME Types
  PROVE  /\ Losers \in Seq(CandidateType)
         /\ \A i \in DOMAIN Losers : \E j \in DOMAIN batch : j # winner /\ Losers[i] = batch[j]
<1>1. CASE winner = 0
  <2>1. Losers = batch /\ 0 \notin DOMAIN batch
    BY <1>1, LenProperties DEF Losers, Types
  <2> QED
    BY <1>1, <2>1 DEF Types
<1>2. CASE winner # 0
  <2> DEFINE n == Len(batch)
             front == SubSeq(batch, 1, winner - 1)
             back == SubSeq(batch, winner + 1, n)
  <2>1. winner \in 1 .. n /\ n \in Nat /\ batch \in Seq(CandidateType)
    BY <1>2, LenProperties DEF Types
  <2>2. /\ front \in Seq(CandidateType) /\ Len(front) = winner - 1
        /\ \A i \in 1 .. winner - 1 : front[i] = batch[i]
    BY <2>1, SubSeqProperties
  <2>3. /\ back \in Seq(CandidateType) /\ Len(back) = n - winner
        /\ \A i \in 1 .. n - winner : back[i] = batch[winner + i]
    BY <2>1, SubSeqProperties
  <2>4. Losers = front \o back
    BY <1>2 DEF Losers
  <2> HIDE DEF front, back
  <2>5. /\ Losers \in Seq(CandidateType) /\ Len(Losers) = Len(front) + Len(back)
        /\ \A i \in 1 .. Len(front) + Len(back) :
             Losers[i] = IF i <= Len(front) THEN front[i] ELSE back[i - Len(front)]
    BY <2>2, <2>3, <2>4, ConcatProperties
  <2>6. \A i \in 1 .. n - 1 : Losers[i] = IF i <= winner - 1 THEN batch[i] ELSE batch[i + 1]
    <3>1. TAKE i \in 1 .. n - 1
    <3>2. Len(front) + Len(back) = n - 1
      BY <2>1, <2>2, <2>3
    <3>3. Losers[i] = IF i <= winner - 1 THEN front[i] ELSE back[i - (winner - 1)]
      BY <2>2, <2>5, <3>2
    <3>4. CASE i <= winner - 1
      <4>1. i \in 1 .. winner - 1
        BY <2>1, <3>4
      <4> QED
        BY <2>2, <3>4, <3>3, <4>1
    <3>5. CASE ~ (i <= winner - 1)
      <4>1. Losers[i] = back[i - (winner - 1)] /\ i - (winner - 1) \in 1 .. n - winner
        BY <2>1, <3>5, <3>3
      <4>2. winner + (i - (winner - 1)) = i + 1
        BY <2>1
      <4> QED
        BY <2>3, <3>5, <4>1, <4>2
    <3> QED
      BY <3>4, <3>5
  <2>7. DOMAIN Losers = 1 .. n - 1 /\ DOMAIN batch = 1 .. n
    BY <2>1, <2>2, <2>3, <2>5, LenProperties
  <2>8. ASSUME NEW i \in 1 .. n - 1
        PROVE  \E j \in 1 .. n : j # winner /\ Losers[i] = batch[j]
    <3>1. CASE i <= winner - 1
      BY <2>1, <2>6, <3>1
    <3>2. CASE ~ (i <= winner - 1)
      <4>1. i + 1 \in 1 .. n /\ i + 1 # winner
        BY <2>1, <3>2
      <4> QED
        BY <2>6, <3>2, <4>1
    <3> QED
      BY <3>1, <3>2
  <2> QED
    BY <2>5, <2>7, <2>8
<1> QED
  BY <1>1, <1>2

\* The rows Record writes
LoserRows == [i \in DOMAIN Losers |-> Row(Losers[i], FALSE, Losers[i].confirmed)]

(* Recording appends rows of losers and leaves the others alone.           *)
LEMMA RecordAppends ==
  ASSUME Types, Record
  PROVE  /\ LoserRows \in Seq(RowType)
         /\ attempts' \in Seq(RowType) /\ Len(attempts') = Len(attempts) + Len(LoserRows)
         /\ \A i \in DOMAIN attempts : i \in DOMAIN attempts' /\ attempts'[i] = attempts[i]
         /\ \A i \in DOMAIN attempts' : i \notin DOMAIN attempts =>
              \E j \in DOMAIN batch :
                j # winner /\ attempts'[i] = Row(batch[j], FALSE, batch[j].confirmed)
<1>1. Losers \in Seq(CandidateType) /\ DOMAIN Losers = 1 .. Len(Losers) /\ Len(Losers) \in Nat
  BY LosersTyped, LenProperties
<1>2. \A i \in DOMAIN Losers : LoserRows[i] \in RowType
  <2>1. TAKE i \in DOMAIN Losers
  <2>2. Losers[i] \in CandidateType
    BY <1>1, ElementOfSeq
  <2>3. Losers[i].confirmed \in BOOLEAN
    BY <2>2 DEF CandidateType
  <2>4. LoserRows[i] = Row(Losers[i], FALSE, Losers[i].confirmed)
    BY DEF LoserRows
  <2> QED
    BY <2>2, <2>3, <2>4, RowOfCandidateTyped DEF Types
<1>3. LoserRows \in Seq(RowType) /\ Len(LoserRows) = Len(Losers)
      /\ DOMAIN LoserRows = DOMAIN Losers
  <2>1. LoserRows = [i \in 1 .. Len(Losers) |-> LoserRows[i]]
    BY <1>1 DEF LoserRows
  <2>2. LoserRows \in [1 .. Len(Losers) -> RowType]
    BY <1>1, <1>2, <2>1
  <2> QED
    BY <1>1, <2>2, LenProperties
<1>4. attempts' = attempts \o LoserRows /\ attempts \in Seq(RowType)
  BY DEF Record, LoserRows, Types
<1>5. /\ attempts' \in Seq(RowType) /\ Len(attempts') = Len(attempts) + Len(LoserRows)
      /\ \A i \in 1 .. Len(attempts) + Len(LoserRows) :
           attempts'[i] = IF i <= Len(attempts) THEN attempts[i]
                          ELSE LoserRows[i - Len(attempts)]
  BY <1>3, <1>4, ConcatProperties
<1>6. /\ DOMAIN attempts' = 1 .. Len(attempts) + Len(LoserRows)
      /\ DOMAIN attempts = 1 .. Len(attempts)
      /\ Len(attempts) \in Nat /\ Len(LoserRows) \in Nat
      /\ DOMAIN LoserRows = 1 .. Len(LoserRows)
  BY <1>3, <1>4, <1>5, LenProperties
<1>7. \A i \in DOMAIN attempts : i \in DOMAIN attempts' /\ attempts'[i] = attempts[i]
  BY <1>5, <1>6
<1>8. ASSUME NEW i \in DOMAIN attempts', i \notin DOMAIN attempts
      PROVE  \E j \in DOMAIN batch :
               j # winner /\ attempts'[i] = Row(batch[j], FALSE, batch[j].confirmed)
  <2> DEFINE l == i - Len(attempts)
  <2>1. attempts'[i] = LoserRows[l] /\ l \in DOMAIN LoserRows
    BY <1>5, <1>6, <1>8
  <2>2. LoserRows[l] = Row(Losers[l], FALSE, Losers[l].confirmed) /\ l \in DOMAIN Losers
    BY <1>3, <2>1 DEF LoserRows
  <2> QED
    BY <2>1, <2>2, LosersTyped
<1> QED
  BY <1>3, <1>5, <1>7, <1>8

(* Recording keeps the incumbent on record.                                *)
LEMMA RecordKeepsTypes == Types /\ Record => Types'
<1> SUFFICES ASSUME Types, Record PROVE Types'
  OBVIOUS
<1>1. \A j \in DOMAIN batch : batch[j] \in CandidateType /\ batch[j].confirmed \in BOOLEAN
  <2>1. \A j \in DOMAIN batch : batch[j] \in CandidateType
    BY ElementOfSeq DEF Types
  <2> QED
    BY <2>1 DEF CandidateType
<1>2. \A j \in DOMAIN batch : Row(batch[j], FALSE, batch[j].confirmed).hash = Hash[Baseline]
  BY <1>1, RowOfCandidateTyped DEF Types
<1>3. \A i \in DOMAIN attempts' : attempts'[i].hash = Hash[Baseline]
  BY <1>2, RecordAppends DEF Types
<1>4. pc' \in {"stopped", "generate"} /\ pc = "record"
  BY DEF Record
<1>5. incumbent' = incumbent /\ incumbent.id \in DOMAIN attempts'
  BY <1>4, RecordAppends DEF Record, Types
<1> QED
  BY <1>3, <1>4, <1>5, RecordAppends DEF Record, Types, Phases

(* The remaining steps change no typed state but the phase.                *)
LEMMA RestKeepsTypes ==
  Types /\ (NothingToConfirm \/ KeepWinner \/ Finish \/ UNCHANGED vars) => Types'
<1> QED
  BY DEF NothingToConfirm, KeepWinner, Finish, Types, vars, runVars, toldVars, Phases

-----------------------------------------------------------------------------
(* JudgedFairly and WinnerEarned are kept *)

(* The candidates of a new batch are unjudged.                             *)
LEMMA GenerateKeepsFairness ==
  \A edits \in Proposals : Types /\ Generate(edits) => JudgedFairly'
<1> SUFFICES ASSUME NEW edits \in Proposals, Types, Generate(edits) PROVE JudgedFairly'
  OBVIOUS
<1>1. edits \in Seq(Edits) /\ DOMAIN edits = 1 .. Len(edits) /\ Len(edits) \in Nat
  BY RunAssumption, LenProperties
<1>2. at' = 1 /\ batch' = [i \in DOMAIN edits |-> Candidate(edits[i])]
  BY DEF Generate
<1>3. \A e : Candidate(e).edit = e
  BY DEF Candidate
<1>4. \A i \in DOMAIN batch' : batch'[i] = Candidate(batch'[i].edit) /\ ~ (i < at')
  BY <1>1, <1>2, <1>3
<1> QED
  BY <1>2, <1>4 DEF JudgedFairly

(* Renewing a renewed incumbent by the same rows changes nothing: what the *)
(* first candidate of a batch was judged against, the last is judged       *)
(* against too.                                                            *)
LEMMA RenewingTwice ==
  ASSUME Types
  PROVE  LET inc == [incumbent EXCEPT !.report = Renewed(incumbent)]
             hold == [inc EXCEPT !.report = RenewedHoldout(inc)]
         IN  /\ inc.report = RenewedBy(attempts, incumbent)
             /\ inc.report = RenewedBy(attempts, inc)
             /\ hold.report = FullyRenewedBy(attempts, hold)
<1> DEFINE e == incumbent.edit
           x == incumbent.id
           r == incumbent.report
           s == DeflateSelection(r, e, x)
           h == DeflateHoldout(s, e, x)
           inc == [incumbent EXCEPT !.report = Renewed(incumbent)]
           hold == [inc EXCEPT !.report = RenewedHoldout(inc)]
<1>1. r \in Report
  BY DEF Types
<1>2. DeflateSelection(s, e, x) = s /\ DeflateSelection(h, e, x) = h
      /\ s \in Report
  BY <1>1, DeflationsIndependent, DeflateSelectionTyped DEF Types, Rowed
<1>3. DeflateHoldout(h, e, x) = h
  BY <1>2, DeflationsIndependent
<1>4. inc.report = s /\ inc.edit = e /\ inc.id = x
  BY DEF Types, Renewed
<1>5. hold.report = h /\ hold.edit = e /\ hold.id = x
  BY <1>4 DEF Types, RenewedHoldout
<1>6. [hold EXCEPT !.report = h] = hold
  BY <1>5 DEF Types
<1>7. RenewedBy(attempts, hold) = h
  BY <1>2, <1>5, DeflationByRows DEF RenewedBy
<1>8. FullyRenewedBy(attempts, hold) = h
  BY <1>3, <1>5, <1>6, <1>7, DeflationByRows DEF FullyRenewedBy, RenewedHoldoutBy
<1>9. s = RenewedBy(attempts, incumbent) /\ s = RenewedBy(attempts, inc)
  BY <1>2, <1>4, DeflationByRows DEF RenewedBy
<1> QED
  BY <1>4, <1>5, <1>8, <1>9

(* A candidate is let through only against the renewed incumbent.          *)
LEMMA JudgeKeepsFairness == Types /\ JudgedFairly /\ JudgeCandidate => JudgedFairly'
<1> SUFFICES ASSUME Types, JudgedFairly, JudgeCandidate PROVE JudgedFairly'
  OBVIOUS
<1> DEFINE inc == [incumbent EXCEPT !.report = Renewed(incumbent)]
           e == batch[at].edit
<1>1. incumbent' = inc /\ attempts' = attempts /\ at' = at + 1 /\ pc = "select"
      /\ batch' = [batch EXCEPT ![at] = Judged(batch[at], inc)]
  BY DEF JudgeCandidate, toldVars
<1>2. inc.report = RenewedBy(attempts, incumbent) /\ inc.report = RenewedBy(attempts, inc)
  BY RenewingTwice
<1>3. at \in DOMAIN batch /\ DOMAIN batch = 1 .. Len(batch) /\ Len(batch) \in Nat
      /\ at \in Nat
  BY LenProperties DEF Types, JudgeCandidate
<1>4. batch[at] = Candidate(e) /\ batch[at] \in CandidateType
  BY <1>1, <1>3, ElementOfSeq DEF JudgedFairly, Types
<1>5. batch[at].report = Outcome[e]
  BY <1>4 DEF Candidate
<1>6. ASSUME Judged(batch[at], inc).reason = None
      PROVE  /\ Judged(batch[at], inc).report = Deflated(attempts, Outcome[e], e, 0)
             /\ Select(Judged(batch[at], inc).report, inc.report, EditLimits[e])
  <2> DEFINE r == DeflateSelection(Outcome[e], e, 0)
             checks == SelectChecks(r, inc.report, EditLimits[e])
             d == [batch[at] EXCEPT !.report = r]
  <2>1. d \in [edit : Edits, report : {r}, reason : Reasons \cup {None}, corr : 0 .. 100,
               confirmed : BOOLEAN, tuned : BOOLEAN]
    BY <1>4 DEF CandidateType
  <2>2. \A y : [d EXCEPT !.reason = y].reason = y /\ [d EXCEPT !.corr = y].report = r
    BY <2>1
  <2>3. \A y, z : [d EXCEPT !.reason = y, !.corr = z].reason = y
    BY <2>1
  <2>4. /\ ~ Passes(checks) => Reason("gate", "select", FailedGate(checks)) # None
        /\ Reason("diversity_returns", "select", "none") # None
    <3>1. ~ Passes(checks) => FailedGate(checks) \in GateNames
      BY ChecksTyped, FailedGateTyped
    <3> HIDE DEF checks
    <3>2. ~ Passes(checks) => Reason("gate", "select", FailedGate(checks)) \in Reasons
      BY <3>1 DEF Reason, Reasons
    <3>3. Reason("diversity_returns", "select", "none") \in Reasons
      BY DEF Reason, Reasons
    <3> QED
      BY <3>2, <3>3, ReasonsAssumption
  <2> HIDE DEF r, d
  <2>5. Passes(checks)
    BY <1>5, <1>6, <2>2, <2>4 DEF Judged, r, d
  <2>6. Judged(batch[at], inc).report = r
    BY <1>5, <1>6, <2>1, <2>2, <2>3, <2>4, <2>5 DEF Judged, r, d
  <2>7. r = Deflated(attempts, Outcome[e], e, 0)
    BY DeflationByRows DEF r
  <2> QED
    BY <2>5, <2>6, <2>7 DEF Select
<1>7. Judged(batch[at], inc).edit = e
  BY <1>2, <1>4, IncumbentTyped, JudgedTyped DEF JudgeCandidate, Types
<1> HIDE DEF inc
<1>8. ASSUME NEW i \in DOMAIN batch'
      PROVE  /\ i >= at' => batch'[i] = Candidate(batch'[i].edit)
             /\ i < at' /\ batch'[i].reason = None =>
                 /\ batch'[i].report = Deflated(attempts', Outcome[batch'[i].edit],
                                                batch'[i].edit, 0)
                 /\ Select(batch'[i].report, incumbent'.report, EditLimits[batch'[i].edit])
  <2>1. i \in DOMAIN batch /\ i \in Nat
    BY <1>1, <1>3
  <2>2. CASE i = at
    <3>1. batch'[i] = Judged(batch[at], inc)
      BY <1>1, <1>3, <2>2
    <3> QED
      BY <1>1, <1>3, <1>6, <1>7, <2>2, <3>1
  <2>3. CASE i # at
    <3>1. batch'[i] = batch[i]
      BY <1>1, <2>1, <2>3
    <3>2. i < at => at > 1
      BY <1>3, <2>1
    <3>3. i >= at' => i >= at
      BY <1>1, <1>3, <2>1
    <3>4. i < at' => i < at
      BY <1>1, <1>3, <2>1, <2>3
    <3> QED
      BY <1>1, <1>2, <2>1, <3>1, <3>2, <3>3, <3>4 DEF JudgedFairly
  <2> QED
    BY <2>2, <2>3
<1>9. incumbent'.report = RenewedBy(attempts', incumbent')
  BY <1>1, <1>2
<1> QED
  BY <1>8, <1>9 DEF JudgedFairly

(* A winner has earned its place when its holdout is confirmed.            *)
LEMMA ConfirmEarns == Types /\ JudgedFairly /\ ConfirmTop => WinnerEarned'
<1> SUFFICES ASSUME Types, JudgedFairly, ConfirmTop, pc' \in {"tune", "commit"}
             PROVE  /\ winner' \in DOMAIN batch'
                    /\ incumbent'.report = FullyRenewedBy(attempts', incumbent')
                    /\ Earned(attempts', batch'[winner'].edit, batch'[winner'].report,
                              incumbent'.report)
  BY DEF WinnerEarned
<1> DEFINE b == batch[Top]
           e == b.edit
           inc == [incumbent EXCEPT !.report = RenewedHoldout(incumbent)]
           r == DeflateHoldout(b.report, e, 0)
           c == Confirmed(b, inc)
<1>1. /\ incumbent' = inc /\ attempts' = attempts /\ pc = "select" /\ at > Len(batch)
      /\ batch' = [batch EXCEPT ![Top] = c] /\ c.reason = None /\ winner' = Top
  BY DEF ConfirmTop
<1>2. Top \in DOMAIN batch /\ b.reason = None
  BY TopPasses DEF ConfirmTop, Passers
<1>3. DOMAIN batch = 1 .. Len(batch) /\ Len(batch) \in Nat /\ at \in Nat
  BY LenProperties DEF Types
<1>4. Top \in Nat /\ Top < at /\ at > 1
  BY <1>1, <1>2, <1>3
<1>5. b \in CandidateType /\ e \in Edits /\ b.report \in Report
  <2>1. b \in CandidateType
    BY <1>2, ElementOfSeq DEF Types
  <2> QED
    BY <2>1 DEF CandidateType
<1>6. /\ incumbent.report = RenewedBy(attempts, incumbent)
      /\ b.report = Deflated(attempts, Outcome[e], e, 0)
      /\ Select(b.report, incumbent.report, EditLimits[e])
  BY <1>1, <1>2, <1>4 DEF JudgedFairly
<1>7. inc.report = FullyRenewedBy(attempts, inc)
  <2>1. [incumbent EXCEPT !.report = Renewed(incumbent)] = incumbent
    BY <1>6, DeflationByRows DEF Types
  <2> QED
    BY <2>1, RenewingTwice
<1>8. /\ inc.report = RenewedHoldout(incumbent) /\ inc.report \in Report
      /\ inc.report.dsr = incumbent.report.dsr /\ inc.report # None
      /\ incumbent.report # None
  <2>1. inc.report = RenewedHoldout(incumbent)
    BY DEF Types
  <2>2. /\ RenewedHoldout(incumbent) \in Report /\ incumbent.report \in Report
        /\ incumbent.edit \in Edits
    BY IncumbentTyped
  <2>3. RenewedHoldout(incumbent).dsr = incumbent.report.dsr
    BY <2>2, HardChecksIgnoreDeflation DEF RenewedHoldout, Types, Rowed
  <2> QED
    BY <2>1, <2>2, <2>3, ValuesAssumption
<1>9. r = FreshBy(attempts, e) /\ r \in Report
  BY <1>5, <1>6, DeflationByRows, DeflateHoldoutTyped DEF FreshBy, Types, Rowed
<1>10. c.report = r /\ c.edit = e /\ Confirm(r, inc.report, EditLimits[e])
  <2> DEFINE checks == ConfirmChecks(r, inc.report, EditLimits[e])
             why == IF Passes(checks) THEN None
                    ELSE Reason("gate", "confirm", FailedGate(checks))
  <2>1. ~ Passes(checks) => FailedGate(checks) \in GateNames
    BY ChecksTyped, FailedGateTyped
  <2> HIDE DEF checks, inc, r
  <2>2. ~ Passes(checks) => why \in Reasons
    BY <2>1 DEF Reason, Reasons
  <2>3. c = [b EXCEPT !.report = r, !.confirmed = TRUE, !.reason = why]
    BY DEF Confirmed, checks, r
  <2>4. c.report = r /\ c.edit = e /\ c.reason = why
    BY <1>5, <2>3 DEF CandidateType
  <2>5. Passes(checks)
    BY <1>1, <2>2, <2>4, ReasonsAssumption
  <2> QED
    BY <2>4, <2>5 DEF Confirm, checks
<1> HIDE DEF b, inc, r, c
<1>11. /\ Passes(HardChecks(b.report, EditLimits[e]))
       /\ EditLimits[e].requireDsr =>
            ~ Degrades(b.report.dsr, incumbent.report.dsr, EditLimits[e].epsilon)
  BY <1>6, <1>8, SelectMeans
<1>12. /\ HardChecks(r, EditLimits[e]) = HardChecks(b.report, EditLimits[e])
       /\ r.dsr = b.report.dsr
  BY <1>5, HardChecksIgnoreDeflation DEF r, Types, Rowed
<1>13. /\ ~ Exceeds(r.hdd, EditLimits[e].dd) /\ ~ Exceeds(r.hturnover, EditLimits[e].turnover)
       /\ ~ Degrades(r.hdsr, inc.report.hdsr,
                     EditLimits[e].epsilon + EditLimits[e].holdoutTolerance)
  BY <1>8, <1>10, ConfirmMeans
<1>14. Earned(attempts, e, r, inc.report)
  BY <1>8, <1>9, <1>11, <1>12, <1>13 DEF Earned, WithinHardLimits
<1>15. winner' \in DOMAIN batch' /\ batch'[winner'] = c
  BY <1>1, <1>2
<1> QED
  BY <1>1, <1>7, <1>10, <1>14, <1>15

(* So has a tuned configuration that replaces it.                          *)
LEMMA TuneEarns == \A t \in Edits : Types /\ WinnerEarned /\ Tune(t) => WinnerEarned'
<1> SUFFICES ASSUME NEW t \in Edits, Types, WinnerEarned, Tune(t) PROVE WinnerEarned'
  OBVIOUS
<1> DEFINE b == batch[winner]
           L == EditLimits[t]
           s == DeflateSelection(Outcome[t], t, 0)
           r == DeflateHoldout(s, t, 0)
<1>1. /\ incumbent' = incumbent /\ attempts' = attempts /\ winner' = winner
      /\ pc = "tune" /\ pc' = "commit"
      /\ batch' = IF EarnsItsPlace(r, b.report, L)
                    THEN [batch EXCEPT ![winner] = Adopted(b, t, r)] ELSE batch
  BY DEF Tune, runVars
<1>2. /\ winner \in DOMAIN batch
      /\ incumbent.report = FullyRenewedBy(attempts, incumbent)
      /\ Earned(attempts, b.edit, b.report, incumbent.report)
  BY <1>1 DEF WinnerEarned
<1>3. CASE ~ EarnsItsPlace(r, b.report, L)
  <2>1. batch' = batch
    BY <1>1, <1>3
  <2> QED
    BY <1>1, <1>2, <2>1 DEF WinnerEarned
<1>4. CASE EarnsItsPlace(r, b.report, L)
  <2>1. Select(r, incumbent.report, L) /\ Confirm(r, incumbent.report, L)
    BY <1>4 DEF EarnsItsPlace
  <2>2. incumbent.report # None
    BY IncumbentTyped, ValuesAssumption
  <2>3. r = FreshBy(attempts, t)
    BY DeflationByRows DEF FreshBy
  <2> HIDE DEF r, b, L
  <2>4. /\ Passes(HardChecks(r, L))
        /\ L.requireDsr => ~ Degrades(r.dsr, incumbent.report.dsr, L.epsilon)
    BY <2>1, <2>2, SelectMeans
  <2>5. /\ ~ Exceeds(r.hdd, L.dd) /\ ~ Exceeds(r.hturnover, L.turnover)
        /\ ~ Degrades(r.hdsr, incumbent.report.hdsr, L.epsilon + L.holdoutTolerance)
    BY <2>1, <2>2, ConfirmMeans
  <2>6. Earned(attempts, t, r, incumbent.report)
    BY <2>3, <2>4, <2>5 DEF Earned, WithinHardLimits, L
  <2>7. b \in CandidateType
    BY <1>2, ElementOfSeq DEF Types, b
  <2>8. Adopted(b, t, r).edit = t /\ Adopted(b, t, r).report = r
    BY <2>7 DEF Adopted, CandidateType
  <2>9. winner' \in DOMAIN batch' /\ batch'[winner'] = Adopted(b, t, r)
    BY <1>1, <1>2, <1>4
  <2> QED
    BY <1>1, <1>2, <2>6, <2>8, <2>9 DEF WinnerEarned
<1> QED
  BY <1>3, <1>4

(* The other steps leave the select phase, or never enter it.              *)
LEMMA RestKeepsFairness ==
  Inv /\ (SetupBaseline \/ NothingToConfirm \/ RefusePeek \/ ConfirmTop \/ KeepWinner \/ Commit
         \/ Record \/ Finish \/ (\E t \in Edits : Tune(t)) \/ UNCHANGED vars) => JudgedFairly'
<1> SUFFICES ASSUME Inv, pc' = "select",
                    SetupBaseline \/ NothingToConfirm \/ RefusePeek \/ ConfirmTop \/ KeepWinner
                      \/ Commit \/ Record \/ Finish \/ (\E t \in Edits : Tune(t))
                      \/ UNCHANGED vars
             PROVE  JudgedFairly'
  BY DEF JudgedFairly
<1>1. UNCHANGED vars
  BY DEF SetupBaseline, NothingToConfirm, RefusePeek, ConfirmTop, KeepWinner, Commit, Record,
         Finish, Tune
<1> QED
  BY <1>1 DEF Inv, JudgedFairly, vars, runVars

(* The other steps name no winner, or leave it as it is.                   *)
LEMMA RestKeepsWinner ==
  Inv /\ (SetupBaseline \/ NothingToConfirm \/ RefusePeek \/ JudgeCandidate \/ KeepWinner
         \/ Commit \/ Record \/ Finish \/ (\E edits \in Proposals : Generate(edits))
         \/ UNCHANGED vars) => WinnerEarned'
<1> SUFFICES ASSUME Inv, pc' \in {"tune", "commit"},
                    SetupBaseline \/ NothingToConfirm \/ RefusePeek \/ JudgeCandidate
                      \/ KeepWinner \/ Commit \/ Record \/ Finish
                      \/ (\E edits \in Proposals : Generate(edits)) \/ UNCHANGED vars
             PROVE  WinnerEarned'
  BY DEF WinnerEarned
<1>1. KeepWinner \/ UNCHANGED vars
  BY DEF SetupBaseline, NothingToConfirm, RefusePeek, JudgeCandidate, Commit, Record,
         Finish, Generate, toldVars
<1>2. /\ UNCHANGED <<attempts, incumbent, batch, winner>>
      /\ pc \in {"tune", "commit"}
  BY <1>1 DEF KeepWinner, vars, runVars
<1> QED
  BY <1>2 DEF Inv, WinnerEarned

-----------------------------------------------------------------------------
(* The reports, rows and candidates of every reachable state have their    *)
(* types, no candidate passes the select phase but against the incumbent   *)
(* deflated in the same iteration, and no winner reaches the commit that   *)
(* has not passed both gates against it.                                   *)
THEOREM Invariance == Spec => []Inv
<1>1. Init => Inv
  BY InitTypes DEF Inv, Init, JudgedFairly, WinnerEarned
<1>2. Inv /\ [Next]_vars => Inv'
  <2> SUFFICES ASSUME Inv, [Next]_vars PROVE Inv'
    OBVIOUS
  <2>1. CASE SetupBaseline
    BY <2>1, BaselineKeepsTypes, RestKeepsFairness, RestKeepsWinner DEF Inv
  <2>2. CASE \E edits \in Proposals : Generate(edits)
    BY <2>2, GenerateKeepsTypes, GenerateKeepsFairness, RestKeepsWinner DEF Inv
  <2>3. CASE JudgeCandidate
    BY <2>3, JudgeKeepsTypes, JudgeKeepsFairness, RestKeepsWinner DEF Inv
  <2>4. CASE NothingToConfirm
    BY <2>4, RestKeepsTypes, RestKeepsFairness, RestKeepsWinner DEF Inv
  <2>5. CASE RefusePeek
    BY <2>5, RefuseKeepsTypes, RestKeepsFairness, RestKeepsWinner DEF Inv
  <2>6. CASE ConfirmTop
    BY <2>6, ConfirmKeepsTypes, ConfirmEarns, RestKeepsFairness DEF Inv
  <2>7. CASE \E t \in Edits : Tune(t)
    BY <2>7, TuneKeepsTypes, TuneEarns, RestKeepsFairness DEF Inv
  <2>8. CASE KeepWinner
    BY <2>8, RestKeepsTypes, RestKeepsFairness, RestKeepsWinner DEF Inv
  <2>9. CASE Commit
    BY <2>9, CommitKeepsTypes, RestKeepsFairness, RestKeepsWinner DEF Inv
  <2>10. CASE Record
    BY <2>10, RecordKeepsTypes, RestKeepsFairness, RestKeepsWinner DEF Inv
  <2>11. CASE Finish
    BY <2>11, RestKeepsTypes, RestKeepsFairness, RestKeepsWinner DEF Inv
  <2>12. CASE UNCHANGED vars
    BY <2>12, RestKeepsTypes, RestKeepsFairness, RestKeepsWinner DEF Inv
  <2> QED
    BY <2>1, <2>2, <2>3, <2>4, <2>5, <2>6, <2>7, <2>8, <2>9, <2>10, <2>11, <2>12
       DEF Next, Iteration
<1> QED
  BY <1>1, <1>2, PTL DEF Spec

(* The id of the incumbent changes when the baseline is recorded and at a  *)
(* commit, which puts the winner that earned its place in.                 *)
LEMMA CommitReplaces ==
  ASSUME Inv, Commit
  PROVE  LET e   == incumbent'.edit
             c   == EditLimits[e]
             old == RenewedHoldout([incumbent EXCEPT !.report = Renewed(incumbent)])
         IN  /\ incumbent'.report = Fresh(e)
             /\ WithinHardLimits(Fresh(e), c)
             /\ c.requireDsr => ~ Degrades(Fresh(e).dsr, old.dsr, c.epsilon)
             /\ ~ Degrades(Fresh(e).hdsr, old.hdsr, c.epsilon + c.holdoutTolerance)
<1> DEFINE b == batch[winner]
           old == RenewedHoldout([incumbent EXCEPT !.report = Renewed(incumbent)])
<1>1. /\ incumbent' = [edit |-> b.edit, id |-> AttemptId, report |-> b.report]
      /\ pc = "commit"
  BY DEF Commit
<1>2. /\ incumbent.report = FullyRenewedBy(attempts, incumbent)
      /\ Earned(attempts, b.edit, b.report, incumbent.report)
  BY <1>1 DEF Inv, WinnerEarned
<1>3. old = incumbent.report
  BY <1>2, DeflationByRows DEF FullyRenewedBy
<1>4. b.report = Fresh(b.edit)
  BY <1>2, DeflationByRows DEF Earned
<1> QED
  BY <1>1, <1>2, <1>3, <1>4 DEF Earned

(* A run never replaces its incumbent by an edit that breaks its own       *)
(* limits or is worse by the trials on record at the commit, in sample     *)
(* (unless it waives that) or on the holdout.                              *)
THEOREM IncumbentNeverWorse == Spec => NeverWorseThanIncumbent
<1> DEFINE Better == incumbent.id # 0 /\ incumbent'.id # incumbent.id =>
             LET e   == incumbent'.edit
                 c   == EditLimits[e]
                 old == RenewedHoldout([incumbent EXCEPT !.report = Renewed(incumbent)])
             IN  /\ incumbent'.report = Fresh(e)
                 /\ WithinHardLimits(Fresh(e), c)
                 /\ c.requireDsr => ~ Degrades(Fresh(e).dsr, old.dsr, c.epsilon)
                 /\ ~ Degrades(Fresh(e).hdsr, old.hdsr, c.epsilon + c.holdoutTolerance)
<1>1. Inv /\ [Next]_vars => [Better]_vars
  <2> SUFFICES ASSUME Inv, [Next]_vars PROVE Better \/ UNCHANGED vars
    OBVIOUS
  <2>1. CASE Commit
    <3> HIDE DEF Inv
    <3> QED
      BY <2>1, CommitReplaces
  <2>2. CASE JudgeCandidate \/ ConfirmTop
    <3>1. incumbent'.id = incumbent.id
      BY <2>2 DEF Inv, Types, JudgeCandidate, ConfirmTop
    <3> QED
      BY <3>1
  <2>3. CASE SetupBaseline
    <3>1. incumbent.id = 0
      BY <2>3 DEF Inv, Types, SetupBaseline
    <3> QED
      BY <3>1
  <2>4. CASE \/ \E edits \in Proposals : Generate(edits)
             \/ NothingToConfirm \/ RefusePeek \/ KeepWinner \/ Record \/ Finish
             \/ \E t \in Edits : Tune(t)
    <3>1. incumbent' = incumbent
      BY <2>4 DEF Generate, NothingToConfirm, RefusePeek, KeepWinner, Record, Finish, Tune,
                  runVars
    <3> QED
      BY <3>1
  <2>5. CASE UNCHANGED vars
    BY <2>5
  <2> QED
    BY <2>1, <2>2, <2>3, <2>4, <2>5 DEF Next, Iteration
<1> QED
  BY <1>1, Invariance, PTL DEF Spec, NeverWorseThanIncumbent
=============================================================================
