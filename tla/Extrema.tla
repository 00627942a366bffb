------------------------------- MODULE Extrema -------------------------------
(***************************************************************************)
(* Facts about least and greatest elements, Min and Max, about the         *)
(* elements of a set in their order, Nth, and about folds over finite      *)
(* sets, that the proofs about the price cache, the evaluation, the        *)
(* selection and the batch share.                                          *)
(***************************************************************************)
EXTENDS Ranks, Integers, FiniteSets, FiniteSetsExt, FiniteSetTheorems,
        WellFoundedInduction, TLAPS

(* A non-empty set of natural numbers has a least element: the well-order  *)
(* of the naturals, which serves as induction below.                       *)
LEMMA LeastExists ==
  ASSUME NEW S \in SUBSET Nat, S # {}
  PROVE  \E x \in S : \A y \in S : x =< y
<1>1. PICK x \in S : \A y \in S : <<y, x>> \notin OpToRel(<, Nat)
  BY NatLessThanWellFounded, WFMin
<1>2. \A y \in S : ~ (y < x)
  BY <1>1 DEF OpToRel
<1> QED
  BY <1>2

(* A set of finite sets has a member with the fewest elements.             *)
LEMMA SmallestExists ==
  ASSUME NEW C, C # {}, \A T \in C : IsFiniteSet(T)
  PROVE  \E T \in C : \A U \in C : Cardinality(T) =< Cardinality(U)
<1> DEFINE Sizes == {n \in Nat : \E T \in C : Cardinality(T) = n}
<1>1. \A T \in C : Cardinality(T) \in Sizes
  BY FS_CardinalityType
<1>2. PICK n \in Sizes : \A m \in Sizes : n =< m
  BY <1>1, LeastExists
<1>3. PICK T \in C : Cardinality(T) = n
  BY <1>2
<1> QED
  BY <1>1, <1>2, <1>3

(* A finite non-empty set of integers has a greatest element, which Max    *)
(* names: the smallest set without one would have a smaller one.           *)
LEMMA FiniteMax ==
  ASSUME NEW S \in SUBSET Int, IsFiniteSet(S), S # {}
  PROVE  /\ Max(S) \in S
         /\ \A y \in S : Max(S) >= y
<1>1. SUFFICES \E x \in S : \A y \in S : x >= y
  BY <1>1 DEF Max
<1> DEFINE Bad == {T \in SUBSET S : T # {} /\ \A x \in T : \E y \in T : ~ (x >= y)}
<1>2. SUFFICES ASSUME Bad # {} PROVE FALSE
  <2>1. Bad = {}
    BY <1>2
  <2> QED
    BY <2>1
<1>3. \A T \in SUBSET S : IsFiniteSet(T)
  BY FS_Subset
<1>4. PICK T \in Bad : \A U \in Bad : Cardinality(T) =< Cardinality(U)
  BY <1>2, <1>3, SmallestExists
<1>5. PICK t \in T : TRUE
  BY <1>4
<1>6. T \ {t} \notin Bad
  <2>1. /\ Cardinality(T \ {t}) = Cardinality(T) - 1
        /\ Cardinality(T) \in Nat
    BY <1>3, <1>5, FS_RemoveElement, FS_CardinalityType
  <2>2. ~ (Cardinality(T) =< Cardinality(T \ {t}))
    BY <2>1
  <2> QED
    BY <1>4, <2>2
<1>7. T # {t}
  BY <1>4
<1>8. PICK m \in T \ {t} : \A y \in T \ {t} : m >= y
  BY <1>4, <1>6, <1>7
<1>9. CASE m >= t
  BY <1>4, <1>8, <1>9
<1>10. CASE ~ (m >= t)
  <2>1. \A y \in T : t >= y
    BY <1>4, <1>8, <1>10
  <2> QED
    BY <1>4, <1>5, <2>1
<1> QED
  BY <1>9, <1>10

(* The same for the least element and Min.                                 *)
LEMMA FiniteMin ==
  ASSUME NEW S \in SUBSET Int, IsFiniteSet(S), S # {}
  PROVE  /\ Min(S) \in S
         /\ \A y \in S : Min(S) =< y
<1>1. SUFFICES \E x \in S : \A y \in S : x =< y
  BY <1>1 DEF Min
<1> DEFINE Bad == {T \in SUBSET S : T # {} /\ \A x \in T : \E y \in T : ~ (x =< y)}
<1>2. SUFFICES ASSUME Bad # {} PROVE FALSE
  <2>1. Bad = {}
    BY <1>2
  <2> QED
    BY <2>1
<1>3. \A T \in SUBSET S : IsFiniteSet(T)
  BY FS_Subset
<1>4. PICK T \in Bad : \A U \in Bad : Cardinality(T) =< Cardinality(U)
  BY <1>2, <1>3, SmallestExists
<1>5. PICK t \in T : TRUE
  BY <1>4
<1>6. T \ {t} \notin Bad
  <2>1. /\ Cardinality(T \ {t}) = Cardinality(T) - 1
        /\ Cardinality(T) \in Nat
    BY <1>3, <1>5, FS_RemoveElement, FS_CardinalityType
  <2>2. ~ (Cardinality(T) =< Cardinality(T \ {t}))
    BY <2>1
  <2> QED
    BY <1>4, <2>2
<1>7. T # {t}
  BY <1>4
<1>8. PICK m \in T \ {t} : \A y \in T \ {t} : m =< y
  BY <1>4, <1>6, <1>7
<1>9. CASE m =< t
  BY <1>4, <1>8, <1>9
<1>10. CASE ~ (m =< t)
  <2>1. \A y \in T : t =< y
    BY <1>4, <1>8, <1>10
  <2> QED
    BY <1>4, <1>5, <2>1
<1> QED
  BY <1>9, <1>10

-----------------------------------------------------------------------------
(* The elements of a finite set of numbers in their order *)

Below(S, s) == {t \in S : t < s}

(* The number of smaller elements grows with the element, and takes every  *)
(* value below the size of the set.                                        *)
LEMMA RankCounts ==
  ASSUME NEW S \in SUBSET Int, IsFiniteSet(S)
  PROVE  /\ Cardinality(S) \in Nat
         /\ \A s \in S : Cardinality(Below(S, s)) \in 0 .. Cardinality(S) - 1
         /\ \A s, t \in S : s < t => Cardinality(Below(S, s)) < Cardinality(Below(S, t))
         /\ \A r \in 0 .. Cardinality(S) - 1 : \E s \in S : Cardinality(Below(S, s)) = r
<1> DEFINE n == Cardinality(S)
           rank == [s \in S |-> Cardinality(Below(S, s))]
<1>1. n \in Nat
  BY FS_CardinalityType
<1>2. ASSUME NEW s \in S
      PROVE  IsFiniteSet(Below(S, s)) /\ rank[s] \in 0 .. n - 1
  <2>1. Below(S, s) \in SUBSET S /\ s \notin Below(S, s)
    BY DEF Below
  <2>2. /\ IsFiniteSet(Below(S, s))
        /\ Cardinality(Below(S, s)) <= n
        /\ n = Cardinality(Below(S, s)) => S = Below(S, s)
    BY <2>1, FS_Subset
  <2>3. Cardinality(Below(S, s)) \in Nat
    BY <2>2, FS_CardinalityType
  <2>4. Cardinality(Below(S, s)) # n
    BY <2>1, <2>2
  <2> QED
    BY <1>1, <2>2, <2>3, <2>4
<1>3. ASSUME NEW s \in S, NEW t \in S, s < t
      PROVE  rank[s] < rank[t]
  <2>1. Below(S, s) \in SUBSET Below(S, t) /\ s \in Below(S, t) /\ s \notin Below(S, s)
    <3>1. \A x \in S : x < s => x < t
      BY <1>3
    <3>2. ~ (s < s)
      OBVIOUS
    <3> QED
      BY <1>3, <3>1, <3>2 DEF Below
  <2>2. /\ Cardinality(Below(S, s)) <= Cardinality(Below(S, t))
        /\ Cardinality(Below(S, t)) = Cardinality(Below(S, s)) => Below(S, t) = Below(S, s)
    BY <1>2, <2>1, FS_Subset
  <2>3. Cardinality(Below(S, t)) # Cardinality(Below(S, s))
    BY <2>1, <2>2
  <2> QED
    BY <1>1, <1>2, <2>2, <2>3
<1>4. rank \in Injection(S, 0 .. n - 1)
  <2>1. \A s, t \in S : rank[s] = rank[t] => s = t
    <3> SUFFICES ASSUME NEW s \in S, NEW t \in S, rank[s] = rank[t], s # t PROVE FALSE
      OBVIOUS
    <3>1. s < t \/ t < s
      OBVIOUS
    <3>2. rank[s] < rank[t] \/ rank[t] < rank[s]
      BY <1>3, <3>1
    <3> QED
      BY <1>1, <1>2, <3>2
  <2>2. rank \in [S -> 0 .. n - 1]
    BY <1>2
  <2> QED
    BY <2>1, <2>2 DEF Injection, IsInjective
<1>5. IsFiniteSet(0 .. n - 1) /\ Cardinality(0 .. n - 1) = n
  BY <1>1, FS_Interval
<1>6. rank \in Surjection(S, 0 .. n - 1)
  BY <1>4, <1>5, FS_Injection
<1>7. \A r \in 0 .. n - 1 : \E s \in S : rank[s] = r
  BY <1>6 DEF Surjection
<1> QED
  BY <1>1, <1>2, <1>3, <1>7

(* Nth enumerates the set in its order.                                    *)
LEMMA NthElement ==
  ASSUME NEW S \in SUBSET Int, IsFiniteSet(S)
  PROVE  /\ \A i \in 1 .. Cardinality(S) : Nth(S, i) \in S
         /\ \A i, j \in 1 .. Cardinality(S) : i < j => Nth(S, i) < Nth(S, j)
         /\ \A s \in S : \E i \in 1 .. Cardinality(S) : Nth(S, i) = s
<1> DEFINE n == Cardinality(S)
<1>1. n \in Nat
  BY RankCounts
<1>2. ASSUME NEW i \in 1 .. n
      PROVE  Nth(S, i) \in S /\ Cardinality(Below(S, Nth(S, i))) = i - 1
  <2>1. i - 1 \in 0 .. n - 1
    BY <1>1
  <2>2. \E s \in S : Cardinality(Below(S, s)) = i - 1
    BY <2>1, RankCounts
  <2> QED
    BY <2>2 DEF Nth, Below
<1>3. ASSUME NEW i \in 1 .. n, NEW j \in 1 .. n, i < j
      PROVE  Nth(S, i) < Nth(S, j)
  <2>1. ~ (Nth(S, j) < Nth(S, i))
    <3> SUFFICES ASSUME Nth(S, j) < Nth(S, i) PROVE FALSE
      OBVIOUS
    <3>1. Cardinality(Below(S, Nth(S, j))) < Cardinality(Below(S, Nth(S, i)))
      BY <1>2, RankCounts
    <3>2. j - 1 < i - 1
      BY <1>2, <3>1
    <3> QED
      BY <1>1, <1>3, <3>2
  <2>2. Nth(S, i) # Nth(S, j)
    <3>1. i - 1 # j - 1
      BY <1>1, <1>3
    <3> QED
      BY <1>2, <3>1
  <2>3. Nth(S, i) \in Int /\ Nth(S, j) \in Int
    BY <1>2
  <2> QED
    BY <2>1, <2>2, <2>3
<1>4. ASSUME NEW s \in S
      PROVE  \E i \in 1 .. n : Nth(S, i) = s
  <2> DEFINE r == Cardinality(Below(S, s))
             i == r + 1
  <2>1. r \in 0 .. n - 1 /\ i \in 1 .. n
    BY <1>1, RankCounts
  <2>2. Nth(S, i) \in S /\ Cardinality(Below(S, Nth(S, i))) = r
    BY <1>2, <2>1
  <2>3. ~ (Nth(S, i) < s) /\ ~ (s < Nth(S, i))
    <3>1. Nth(S, i) < s => Cardinality(Below(S, Nth(S, i))) < r
      BY <2>2, RankCounts
    <3>2. s < Nth(S, i) => r < Cardinality(Below(S, Nth(S, i)))
      BY <2>2, RankCounts
    <3>3. ~ (r < r)
      BY <2>1
    <3> QED
      BY <2>2, <3>1, <3>2, <3>3
  <2>4. Nth(S, i) \in Int /\ s \in Int
    BY <2>2
  <2> QED
    BY <2>1, <2>3, <2>4
<1> QED
  BY <1>2, <1>3, <1>4

(* The element with i - 1 smaller ones is the i-th.                        *)
LEMMA NthUnique ==
  ASSUME NEW S \in SUBSET Int, IsFiniteSet(S), NEW s \in S,
         NEW i \in 1 .. Cardinality(S), Cardinality(Below(S, s)) = i - 1
  PROVE  Nth(S, i) = s
<1>1. Nth(S, i) \in S /\ Cardinality(Below(S, Nth(S, i))) = i - 1
  BY DEF Nth, Below
<1>2. Nth(S, i) \in Int /\ s \in Int /\ i \in Int
  <2>1. \A x \in S : x \in Int
    OBVIOUS
  <2>2. i \in Int
    OBVIOUS
  <2> QED
    BY <1>1, <2>1, <2>2
<1>3. ~ (Nth(S, i) < s) /\ ~ (s < Nth(S, i))
  <2>1. Nth(S, i) < s => i - 1 < i - 1
    BY <1>1, RankCounts
  <2>2. s < Nth(S, i) => i - 1 < i - 1
    BY <1>1, RankCounts
  <2> QED
    BY <1>2, <2>1, <2>2
<1> QED
  BY <1>2, <1>3

(* Moving all elements by d moves each of them in its place.               *)
LEMMA NthShifted ==
  ASSUME NEW S \in SUBSET Int, IsFiniteSet(S), NEW d \in Int,
         NEW T, T = {s + d : s \in S}
  PROVE  /\ IsFiniteSet(T) /\ T \in SUBSET Int /\ Cardinality(T) = Cardinality(S)
         /\ \A i \in 1 .. Cardinality(S) : Nth(T, i) = Nth(S, i) + d
<1>1. \A s \in S : s \in Int
  OBVIOUS
<1>2. ASSUME NEW U \in SUBSET S
      PROVE  /\ IsFiniteSet({s + d : s \in U})
             /\ Cardinality({s + d : s \in U}) = Cardinality(U)
  <2> DEFINE V == {s + d : s \in U}
             f == [s \in U |-> s + d]
  <2>1. IsFiniteSet(U)
    BY FS_Subset
  <2>2. \A s \in U : s \in Int
    BY <1>1
  <2>3. f \in Bijection(U, V)
    <3>1. \A s, t \in U : s + d = t + d => s = t
      BY <2>2
    <3>2. f \in Injection(U, V)
      BY <3>1 DEF Injection, IsInjective
    <3>3. f \in Surjection(U, V)
      BY DEF Surjection
    <3> QED
      BY <3>2, <3>3 DEF Bijection
  <2> HIDE DEF f, V
  <2>4. IsFiniteSet(V) /\ Cardinality(V) = Cardinality(U)
    BY <2>1, <2>3, FS_Bijection DEF ExistsBijection
  <2> QED
    BY <2>4 DEF V
<1>3. IsFiniteSet(T) /\ Cardinality(T) = Cardinality(S)
  BY <1>2
<1>4. T \in SUBSET Int
  BY <1>1
<1>5. ASSUME NEW i \in 1 .. Cardinality(S)
      PROVE  Nth(T, i) = Nth(S, i) + d
  <2> DEFINE s == Nth(S, i)
  <2>1. s \in S /\ Cardinality(Below(S, s)) = i - 1
    <3>1. Cardinality(S) \in Nat /\ i - 1 \in 0 .. Cardinality(S) - 1
      BY RankCounts
    <3>2. \E t \in S : Cardinality(Below(S, t)) = i - 1
      BY <3>1, RankCounts
    <3> QED
      BY <3>2 DEF Nth, Below
  <2> HIDE DEF s
  <2>2. Below(T, s + d) = {t + d : t \in Below(S, s)}
    <3>1. s \in Int
      BY <1>1, <2>1
    <3>2. \A t \in S : t + d < s + d <=> t < s
      BY <1>1, <3>1
    <3> QED
      BY <3>2 DEF Below
  <2>3. Below(S, s) \in SUBSET S
    BY DEF Below
  <2>4. Cardinality(Below(T, s + d)) = i - 1 /\ s + d \in T
    BY <1>2, <2>1, <2>2, <2>3
  <2> QED
    BY <1>3, <1>4, <2>4, NthUnique DEF s
<1> QED
  BY <1>3, <1>4, <1>5

-----------------------------------------------------------------------------
(* Induction and folds *)

(* A set of numbers with 0, and with n + 1 when with n, has them all.      *)
LEMMA ReachesAll ==
  ASSUME NEW T, 0 \in T, \A n \in Nat : n \in T => n + 1 \in T
  PROVE  Nat \subseteq T
<1>1. SUFFICES ASSUME Nat \ T # {} PROVE FALSE
  OBVIOUS
<1>2. PICK m \in Nat \ T : \A n \in Nat \ T : m =< n
  BY <1>1, LeastExists
<1>3. m - 1 \in Nat /\ m - 1 \notin Nat \ T
  BY <1>2
<1> QED
  BY <1>2, <1>3

(* f folds the subsets of D: base at {} and elsewhere a step from what it  *)
(* is without the member that ch takes out.                                *)
IsFold(f, D, base, ch, step) ==
  \A s \in SUBSET D : f[s] = IF s = {} THEN base ELSE step[<<s, f[s \ {ch[s]}]>>]

(* The recursion of a fold over a finite set defines a function.           *)
LEMMA FoldExists ==
  ASSUME NEW D, IsFiniteSet(D), NEW X, NEW base \in X,
         NEW ch, \A s \in SUBSET D : s # {} => ch[s] \in s,
         NEW step \in [(SUBSET D) \X X -> X]
  PROVE  \E f \in [SUBSET D -> X] : IsFold(f, D, base, ch, step)
<1> DEFINE Layer(n) == {s \in SUBSET D : Cardinality(s) =< n}
           Folds(f, n) == \A s \in Layer(n) :
             f[s] = IF s = {} THEN base ELSE step[<<s, f[s \ {ch[s]}]>>]
           T == {n \in Nat : \E f \in [Layer(n) -> X] : Folds(f, n)}
<1>1. \A s \in SUBSET D : IsFiniteSet(s) /\ Cardinality(s) \in Nat
  BY FS_Subset, FS_CardinalityType
<1>2. 0 \in T
  <2>1. \A s \in Layer(0) : s = {}
    BY <1>1, FS_EmptySet
  <2> DEFINE f == [s \in Layer(0) |-> base]
  <2>2. f \in [Layer(0) -> X] /\ Folds(f, 0)
    BY <2>1
  <2> QED
    BY <2>2
<1>3. \A n \in Nat : n \in T => n + 1 \in T
  <2> SUFFICES ASSUME NEW n \in Nat, NEW f \in [Layer(n) -> X], Folds(f, n)
               PROVE  n + 1 \in T
    OBVIOUS
  <2> DEFINE g == [s \in Layer(n + 1) |->
                    IF s = {} THEN base ELSE step[<<s, f[s \ {ch[s]}]>>]]
  <2>1. ASSUME NEW s \in Layer(n + 1), s # {}
        PROVE  s \ {ch[s]} \in Layer(n)
    <3>1. Cardinality(s \ {ch[s]}) = Cardinality(s) - 1
      BY <2>1, <1>1, FS_RemoveElement
    <3> QED
      BY <1>1, <3>1
  <2>2. g \in [Layer(n + 1) -> X]
    <3>1. ASSUME NEW s \in Layer(n + 1), s # {}
          PROVE  step[<<s, f[s \ {ch[s]}]>>] \in X
      <4>1. s \ {ch[s]} \in Layer(n)
        BY <2>1, <3>1
      <4> HIDE DEF Layer
      <4>2. f[s \ {ch[s]}] \in X
        BY <4>1
      <4> QED
        BY <4>2 DEF Layer
    <3> HIDE DEF Layer
    <3> QED
      BY <3>1
  <2>3. \A s \in Layer(n) : s \in Layer(n + 1) /\ g[s] = f[s]
    <3>1. \A s \in Layer(n) : s \in Layer(n + 1)
      BY <1>1
    <3> HIDE DEF Layer
    <3> QED
      BY <3>1
  <2>4. Folds(g, n + 1)
    <3> SUFFICES ASSUME NEW s \in Layer(n + 1)
                 PROVE  g[s] = IF s = {} THEN base ELSE step[<<s, g[s \ {ch[s]}]>>]
      OBVIOUS
    <3>1. s # {} => s \ {ch[s]} \in Layer(n)
      BY <2>1
    <3>2. s # {} => g[s \ {ch[s]}] = f[s \ {ch[s]}]
      BY <3>1, <2>3
    <3> HIDE DEF Layer
    <3> QED
      BY <3>2
  <2> HIDE DEF Layer, Folds, g
  <2> QED
    BY <2>2, <2>4
<1>4. Cardinality(D) \in T
  <2> HIDE DEF T
  <2> QED
    BY <1>1, <1>2, <1>3, ReachesAll
<1>5. Layer(Cardinality(D)) = SUBSET D
  <2>1. \A s \in SUBSET D : Cardinality(s) =< Cardinality(D)
    BY FS_Subset
  <2> QED
    BY <2>1
<1> HIDE DEF Layer
<1> QED
  BY <1>4, <1>5 DEF IsFold

(* A number with its n marks adds n to the marks of other numbers.         *)
LEMMA MarksAdded ==
  ASSUME NEW marks, IsFiniteSet(marks), NEW i, NEW n \in Nat, \A m \in marks : m[1] # i
  PROVE  /\ IsFiniteSet(marks \cup ({i} \X (1 .. n)))
         /\ Cardinality(marks \cup ({i} \X (1 .. n))) = Cardinality(marks) + n
<1> DEFINE own == {i}  upTo == 1 .. n  new == own \X upTo
<1>1. IsFiniteSet(new) /\ Cardinality(new) = n
  <2>1. IsFiniteSet(upTo) /\ Cardinality(upTo) = n
    BY FS_Interval
  <2>2. IsFiniteSet(own) /\ Cardinality(own) = 1
    BY FS_Singleton
  <2> HIDE DEF own, upTo
  <2>3. IsFiniteSet(own \X upTo) /\ Cardinality(own \X upTo) = Cardinality(own) * Cardinality(upTo)
    BY <2>1, <2>2, FS_Product
  <2> QED
    BY <2>1, <2>2, <2>3
<1>2. marks \cap new = {}
  OBVIOUS
<1>3. Cardinality(marks \cap new) = 0
  BY <1>2, FS_EmptySet
<1>4. Cardinality(marks) \in Nat
  BY FS_CardinalityType
<1>5. marks \cup ({i} \X (1 .. n)) = marks \cup new
  OBVIOUS
<1> HIDE DEF new
<1>6. /\ IsFiniteSet(marks \cup new)
      /\ Cardinality(marks \cup new) = Cardinality(marks) + Cardinality(new) - Cardinality(marks \cap new)
  BY <1>1, FS_Union
<1>7. Cardinality(marks \cup new) = Cardinality(marks) + n
  BY <1>1, <1>3, <1>4, <1>6
<1> QED
  BY <1>5, <1>6, <1>7
=============================================================================
