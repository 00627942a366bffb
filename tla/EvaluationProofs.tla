-------------------------- MODULE EvaluationProofs --------------------------
(***************************************************************************)
(* Proofs about Evaluation, for any calendar, strategy and number of       *)
(* workers: what the search learns of the holdout, what a day's return     *)
(* depends on, and that every day is tested by the right fold.             *)
(***************************************************************************)
EXTENDS EvaluationProperties, Extrema, SequenceTheorems

-----------------------------------------------------------------------------
(* The calendar and its folds *)

Typed == days \in Calendars /\ strategy \in Strategies

(* The place of a number in its year *)
LEMMA Divided ==
  ASSUME NEW x \in Nat, NEW y \in Nat \ {0}
  PROVE  \E q, r \in Nat : /\ x = q * y + r /\ r < y /\ r = x % y
<1>1. x = y * (x \div y) + (x % y) /\ x % y \in 0 .. y - 1 /\ x \div y \in Nat
  OBVIOUS
<1>2. PICK q \in Nat : q = x \div y
  BY <1>1
<1>3. PICK r \in Nat : r = x % y
  BY <1>1
<1>4. q * y = y * q
  BY <1>2
<1>5. x = q * y + r /\ r < y
  BY <1>1, <1>2, <1>3, <1>4
<1> QED
  BY <1>3, <1>5

LEMMA OnePlace ==
  ASSUME NEW y \in Nat \ {0}, NEW p \in Nat, NEW q \in Nat, NEW r \in Nat, NEW t \in Nat,
         r < y, t < y, p * y + r = q * y + t
  PROVE  r = t
<1>1. \A a, b, c \in Nat : a < b => a * c + c <= b * c
  <2> SUFFICES ASSUME NEW a \in Nat, NEW b \in Nat, NEW c \in Nat, a < b
               PROVE  a * c + c <= b * c
    OBVIOUS
  <2>1. PICK e \in Nat : b = a + 1 + e
    <3>1. b - a - 1 \in Nat /\ b = a + 1 + (b - a - 1)
      OBVIOUS
    <3> QED
      BY <3>1
  <2>2. (a + 1 + e) * c = a * c + c + e * c /\ e * c \in Nat /\ a * c \in Nat
    OBVIOUS
  <2> QED
    BY <2>1, <2>2
<1>2. p * y \in Nat /\ q * y \in Nat
  OBVIOUS
<1>3. PICK u \in Nat, v \in Nat : u = p * y /\ v = q * y
  BY <1>2
<1>4. p < q => u + y <= v
  BY <1>1, <1>3
<1>5. q < p => v + y <= u
  BY <1>1, <1>3
<1>6. p = q => u = v
  BY <1>3
<1>7. u + r = v + t
  BY <1>3
<1>8. ~ (p < q) /\ ~ (q < p)
  BY <1>4, <1>5, <1>7
<1> QED
  BY <1>6, <1>7, <1>8

LEMMA Places ==
  ASSUME NEW x \in Nat
  PROVE  /\ x % Year \in 0 .. Year - 1
         /\ \A k \in Nat : k * Year \in Nat /\ (x + k * Year) % Year = x % Year
         /\ (x + 1) % Year = IF x % Year = Year - 1 THEN 0 ELSE (x % Year) + 1
<1>1. Year \in Nat \ {0} /\ Year > 3
  BY EvaluationAssumption
<1>2. PICK q \in Nat, r \in Nat : x = q * Year + r /\ r < Year /\ r = x % Year
  BY <1>1, Divided
<1>3. ASSUME NEW k \in Nat
      PROVE  k * Year \in Nat /\ (x + k * Year) % Year = r
  <2>1. k * Year \in Nat /\ q * Year \in Nat
    BY <1>1
  <2>2. PICK p \in Nat, t \in Nat :
          x + k * Year = p * Year + t /\ t < Year /\ t = (x + k * Year) % Year
    BY <1>1, <2>1, Divided
  <2>3. q * Year + k * Year = (q + k) * Year
    BY <1>1
  <2>4. (q + k) * Year + r = p * Year + t
    BY <1>1, <1>2, <2>1, <2>2, <2>3
  <2>5. q + k \in Nat
    OBVIOUS
  <2>6. r = t
    BY <1>1, <1>2, <2>2, <2>4, <2>5, OnePlace
  <2> QED
    BY <2>1, <2>2, <2>6
<1>4. (x + 1) % Year = IF r = Year - 1 THEN 0 ELSE r + 1
  <2>1. q * Year \in Nat /\ (q + 1) * Year = q * Year + Year
    BY <1>1
  <2>2. PICK p \in Nat, t \in Nat :
          x + 1 = p * Year + t /\ t < Year /\ t = (x + 1) % Year
    BY <1>1, Divided
  <2>3. CASE r = Year - 1
    <3>1. (q + 1) * Year + 0 = p * Year + t
      BY <1>1, <1>2, <2>1, <2>2, <2>3
    <3>2. PICK u \in Nat, z \in Nat : u = q + 1 /\ z = 0
      OBVIOUS
    <3>3. u * Year + z = p * Year + t /\ z < Year
      BY <1>1, <3>1, <3>2
    <3>4. z = t
      BY <1>1, <2>2, <3>3, OnePlace
    <3> QED
      BY <2>2, <2>3, <3>2, <3>4
  <2>4. CASE r # Year - 1
    <3>1. q * Year + (r + 1) = p * Year + t /\ r + 1 < Year /\ r + 1 \in Nat
      BY <1>1, <1>2, <2>1, <2>2, <2>4
    <3>2. r + 1 = t
      BY <1>1, <2>2, <3>1, OnePlace
    <3> QED
      BY <1>2, <2>2, <2>4, <3>2
  <2> QED
    BY <2>3, <2>4
<1>5. x % Year = r /\ r \in 0 .. Year - 1
  BY <1>1, <1>2
<1> QED
  BY <1>3, <1>4, <1>5

(* A 29 February is missing in no two neighbouring places.                 *)
LEMMA Lapse ==
  ASSUME NEW x \in Nat, NEW k \in Nat, NEW m \in Nat
  PROVE  /\ k * Year \in Nat /\ m * Year \in Nat
         /\ Missing(x + k * Year) => x % Year = LeapDay
         /\ Missing(x + k * Year + 1) => x % Year = LeapDay - 1
         /\ Missing(x + k * Year + 2) => x % Year # LeapDay /\ x % Year # LeapDay - 1
<1>1. Year \in Nat /\ Year > 3 /\ LeapDay \in 1 .. Year - 2
  BY EvaluationAssumption
<1>2. k * Year \in Nat /\ m * Year \in Nat /\ (x + k * Year) % Year = x % Year
  BY Places
<1>3. PICK y \in Nat : y = x + k * Year
  BY <1>2
<1>4. PICK z \in Nat : z = y + 1
  OBVIOUS
<1>5. /\ y % Year \in 0 .. Year - 1
      /\ (y + 1) % Year = IF y % Year = Year - 1 THEN 0 ELSE (y % Year) + 1
      /\ (z + 1) % Year = IF z % Year = Year - 1 THEN 0 ELSE (z % Year) + 1
  BY Places
<1>6. Missing(y) => y % Year = LeapDay
  BY DEF Missing
<1>7. Missing(y + 1) => y % Year = LeapDay - 1
  <2>1. Missing(y + 1) => (y + 1) % Year = LeapDay
    BY DEF Missing
  <2> QED
    BY <1>1, <1>5, <2>1
<1>8. Missing(y + 2) => y % Year # LeapDay /\ y % Year # LeapDay - 1
  <2>1. Missing(z + 1) => (z + 1) % Year = LeapDay
    BY DEF Missing
  <2>2. z + 1 = y + 2 /\ z % Year = (y + 1) % Year
    BY <1>4
  <2> QED
    BY <1>1, <1>5, <2>1, <2>2
<1> QED
  BY <1>2, <1>3, <1>6, <1>7, <1>8

TrainSpan == TrainYears * Year

TestSpan == TestYears * Year

LEMMA Spans == /\ Year \in Nat \ {0} /\ Year > 3
               /\ TrainSpan \in Nat \ {0} /\ TestSpan \in Nat \ {0} /\ Year <= TrainSpan
               /\ Year <= TestSpan /\ (TestYears = 1 => TestSpan = Year)
               /\ 1 * Year = Year
<1>2. \A a \in Nat \ {0}, b \in Nat \ {0} : a * b # 0 /\ a * b \in Nat
  OBVIOUS
<1>3. \A a \in Nat \ {0}, b \in Nat \ {0} : b <= a * b /\ 1 * b = b
  OBVIOUS
<1> QED
  BY <1>2, <1>3, EvaluationAssumption DEF TrainSpan, TestSpan

(* A step of years arrives on the day or on the day before.                *)
LEMMA Moved ==
  ASSUME NEW d \in Int, NEW k \in Int
  PROVE  /\ YearsLater(d, k) \in Int /\ k * Year \in Int
         /\ d + k * Year - 1 <= YearsLater(d, k) /\ YearsLater(d, k) <= d + k * Year
<1>1. k * Year \in Int
  BY Spans
<1>2. PICK m \in Int : m = d + k * Year
  BY <1>1
<1>3. YearsLater(d, k) = IF Missing(m) THEN m - 1 ELSE m
  BY <1>2 DEF YearsLater
<1> QED
  BY <1>1, <1>2, <1>3

(* A fold's training and test, and that later folds begin and end later.   *)
LEMMA Ends ==
  ASSUME NEW s \in Nat
  PROVE  /\ TrainEnd(s) \in Nat /\ From(s) \in Nat /\ To(s) \in Nat
         /\ s + TrainSpan - 1 <= TrainEnd(s) /\ TrainEnd(s) <= s + TrainSpan
         /\ TrainEnd(s) + 1 <= From(s) /\ From(s) <= TrainEnd(s) + 2
         /\ From(s) + TestSpan - 1 <= To(s) /\ To(s) <= From(s) + TestSpan
<1>1. TrainYears \in Int /\ TestYears \in Int
  BY EvaluationAssumption
<1>2. PICK e \in Int : e = TrainEnd(s) /\ s + TrainSpan - 1 <= e /\ e <= s + TrainSpan
  <2>1. s \in Int
    OBVIOUS
  <2>2. /\ YearsLater(s, TrainYears) \in Int
        /\ s + TrainYears * Year - 1 <= YearsLater(s, TrainYears)
        /\ YearsLater(s, TrainYears) <= s + TrainYears * Year
    BY <1>1, <2>1, Moved
  <2> QED
    BY <2>2 DEF TrainEnd, TrainSpan
<1>3. PICK a \in Int : a = From(s) /\ e + 1 <= a /\ a <= e + 2
  BY <1>2 DEF From, DayAfter
<1>4. PICK z \in Int : z = To(s) /\ a + TestSpan - 1 <= z /\ z <= a + TestSpan
  BY <1>1, <1>3, Moved DEF To, TestSpan
<1> QED
  BY <1>2, <1>3, <1>4, Spans

LEMMA InOrder ==
  ASSUME NEW s \in Nat, NEW t \in Nat, s <= t
  PROVE  From(s) <= From(t) /\ To(s) <= To(t)
<1>1. TrainYears \in Int /\ TestYears \in Int
  BY EvaluationAssumption
<1>2. ASSUME NEW d \in Int, NEW e \in Int, d <= e, NEW k \in Int
      PROVE  YearsLater(d, k) <= YearsLater(e, k)
  <2>1. CASE d = e
    BY <1>2, <2>1, Moved
  <2>2. CASE d # e
    <3>1. PICK m \in Int : m = k * Year
      BY <1>2, Moved
    <3>2. /\ YearsLater(d, k) \in Int /\ YearsLater(d, k) <= d + m
          /\ YearsLater(e, k) \in Int /\ e + m - 1 <= YearsLater(e, k)
      BY <1>2, <3>1, Moved
    <3> QED
      BY <1>2, <2>2, <3>1, <3>2
  <2> QED
    BY <2>1, <2>2
<1>3. TrainEnd(s) <= TrainEnd(t)
  BY <1>1, <1>2 DEF TrainEnd
<1>4. From(s) <= From(t)
  <2>1. TrainEnd(s) \in Nat /\ TrainEnd(t) \in Nat
    BY Ends
  <2>2. CASE TrainEnd(s) = TrainEnd(t)
    <3>1. From(s) = From(t) /\ From(s) \in Nat
      BY <2>2, Ends DEF From
    <3> QED
      BY <3>1
  <2>3. CASE TrainEnd(s) # TrainEnd(t)
    <3>1. From(s) \in Nat /\ From(t) \in Nat /\ From(s) <= TrainEnd(s) + 2 /\ TrainEnd(t) + 1 <= From(t)
      BY Ends
    <3> QED
      BY <1>3, <2>1, <2>3, <3>1
  <2> QED
    BY <2>2, <2>3
<1>5. From(s) \in Int /\ From(t) \in Int
  BY Ends
<1>6. To(s) <= To(t)
  BY <1>1, <1>2, <1>4, <1>5 DEF To
<1> QED
  BY <1>4, <1>6

(* Where one fold's test of a year ends, the next one's begins: but for a  *)
(* day when only one of the two was moved from a 29 February.              *)
LEMMA Meet ==
  ASSUME NEW s \in Nat, ~ Missing(s)
  PROVE  LET a == From(YearsLater(s, 1))
             z == YearsLater(From(s), 1)
         IN  \/ a = z
             \/ z = a + 1 /\ a % Year = LeapDay
             \/ a = z + 2 /\ Missing(z + 1)
<1> DEFINE n == TrainSpan
           x == s + n
           r == s % Year
<1>1. n \in Nat /\ Year \in Nat /\ Year > 3 /\ 1 * Year = Year /\ x \in Nat
  BY Spans
<1>2. TrainYears \in Nat /\ TrainYears + 1 \in Nat /\ 1 \in Nat /\ 0 \in Nat
  BY EvaluationAssumption
<1>3. (TrainYears + 1) * Year = n + Year
  BY <1>2, <1>1 DEF TrainSpan
<1>4. LeapDay \in Nat /\ LeapDay > 0
  BY EvaluationAssumption
<1>5. /\ Missing(s + Year) => r = LeapDay
      /\ Missing(s + Year + 1) => r = LeapDay - 1
  BY <1>1, <1>2, Lapse
<1>6. /\ Missing(x) => r = LeapDay
      /\ Missing(x + 1) => r = LeapDay - 1
      /\ Missing(x + 2) => r # LeapDay /\ r # LeapDay - 1
  BY <1>2, Lapse DEF TrainSpan
<1>7. /\ Missing(x + Year) => r = LeapDay
      /\ Missing(x + Year + 1) => r = LeapDay - 1
      /\ Missing(x + Year + 2) => r # LeapDay /\ r # LeapDay - 1
  <2>1. s + (TrainYears + 1) * Year = x + Year
    BY <1>1, <1>3
  <2> QED
    BY <1>2, <2>1, Lapse
<1>8. r = LeapDay => (x + Year) % Year = LeapDay
  <2>1. (s + (TrainYears + 1) * Year) % Year = r
    BY <1>2, Places
  <2> QED
    BY <1>1, <1>3, <2>1
<1>9. r = LeapDay - 1 => (x + Year + 1) % Year = LeapDay
  <2>1. (s + (TrainYears + 1) * Year) % Year = r
    BY <1>2, Places
  <2>2. PICK y \in Nat : y = x + Year
    BY <1>1
  <2>3. y % Year = r
    BY <1>1, <1>3, <2>1, <2>2
  <2>4. (y + 1) % Year = IF y % Year = Year - 1 THEN 0 ELSE (y % Year) + 1
    BY Places
  <2>5. LeapDay \in Nat /\ LeapDay < Year
    BY EvaluationAssumption
  <2> QED
    BY <1>1, <2>2, <2>3, <2>4, <2>5
<1>10. r = LeapDay => ~ Missing(x + Year - 1) /\ ~ Missing(x - 1)
  <2>1. ASSUME NEW y \in Nat, Missing(y)
        PROVE  (y + 1) % Year # LeapDay
    <3>1. y % Year = LeapDay
      BY <2>1 DEF Missing
    <3>2. LeapDay \in Nat /\ LeapDay < Year - 1
      BY EvaluationAssumption
    <3>3. (y + 1) % Year = LeapDay + 1
      <4>1. (y + 1) % Year = IF y % Year = Year - 1 THEN 0 ELSE (y % Year) + 1
        BY Places
      <4>2. LeapDay # Year - 1
        BY <1>1, <3>2
      <4> QED
        BY <3>1, <4>1, <4>2
    <3> QED
      BY <1>4, <3>3
  <2>2. r = LeapDay => x % Year = LeapDay
    BY <1>2, Places DEF TrainSpan
  <2>3. x - 1 \in Nat /\ x + Year - 1 \in Nat
    BY <1>1, Spans
  <2>4. (x - 1) + 1 = x /\ (x + Year - 1) + 1 = x + Year
    BY <1>1
  <2> QED
    BY <1>8, <2>1, <2>2, <2>3, <2>4
<1> DEFINE t == YearsLater(s, 1)
           e == TrainEnd(s)
           f == TrainEnd(t)
           b == From(s)
           a == From(t)
           z == YearsLater(b, 1)
<1>11. ASSUME NEW d \in Int
       PROVE  /\ YearsLater(d, 1) = IF Missing(d + Year) THEN (d + Year) - 1 ELSE d + Year
              /\ TrainEnd(d) = IF Missing(d + n) THEN (d + n) - 1 ELSE d + n
              /\ From(d) = IF Missing(TrainEnd(d) + 1) THEN TrainEnd(d) + 2 ELSE TrainEnd(d) + 1
              /\ YearsLater(d, 1) \in Int /\ TrainEnd(d) \in Int /\ From(d) \in Int
  <2>1. ASSUME NEW k \in Int, NEW m \in Int, m = d + k * Year
        PROVE  /\ YearsLater(d, k) = IF Missing(m) THEN m - 1 ELSE m
               /\ YearsLater(d, k) \in Int
    BY <2>1 DEF YearsLater
  <2>2. d + Year \in Int /\ d + Year = d + 1 * Year /\ 1 \in Int
    BY <1>1
  <2>3. d + n \in Int /\ d + n = d + TrainYears * Year /\ TrainYears \in Int
    BY <1>1, <1>2 DEF TrainSpan
  <2>4. /\ YearsLater(d, 1) = IF Missing(d + Year) THEN (d + Year) - 1 ELSE d + Year
        /\ YearsLater(d, 1) \in Int
    BY <2>1, <2>2
  <2>5. /\ TrainEnd(d) = IF Missing(d + n) THEN (d + n) - 1 ELSE d + n
        /\ TrainEnd(d) \in Int
    BY <2>1, <2>3 DEF TrainEnd
  <2>6. From(d) = IF Missing(TrainEnd(d) + 1) THEN TrainEnd(d) + 2 ELSE TrainEnd(d) + 1
    BY DEF From, DayAfter
  <2> QED
    BY <2>4, <2>5, <2>6
<1>12. x \in Nat /\ x = s + n /\ s \in Int
  BY <1>1
<1>13. /\ t = IF Missing(s + Year) THEN (s + Year) - 1 ELSE s + Year
       /\ e = IF Missing(x) THEN x - 1 ELSE x
       /\ b = IF Missing(e + 1) THEN e + 2 ELSE e + 1
       /\ t \in Int /\ e \in Int /\ b \in Int
  BY <1>11, <1>12
<1>14. /\ f = IF Missing(t + n) THEN (t + n) - 1 ELSE t + n
       /\ a = IF Missing(f + 1) THEN f + 2 ELSE f + 1
       /\ f \in Int /\ a \in Int
  BY <1>11, <1>13
<1>15. z = (IF Missing(b + Year) THEN (b + Year) - 1 ELSE b + Year) /\ z \in Int
  BY <1>11, <1>13
<1> SUFFICES \/ a = z
             \/ z = a + 1 /\ a % Year = LeapDay
             \/ a = z + 2 /\ Missing(z + 1)
  OBVIOUS
<1> HIDE DEF t, e, f, b, a, z, x
<1>16. CASE r = LeapDay
  <2>1. /\ ~ Missing(x + 1) /\ ~ Missing(x + Year + 1)
        /\ ~ Missing(x + Year - 1) /\ ~ Missing(x - 1)
    BY <1>4, <1>6, <1>7, <1>10, <1>16
  <2>2. b = x + 1
    <3>1. CASE Missing(x)
      <4>1. e = x - 1 /\ e + 1 = x
        BY <1>1, <1>13, <3>1
      <4> QED
        BY <1>1, <1>13, <3>1, <4>1
    <3>2. CASE ~ Missing(x)
      BY <1>13, <2>1, <3>2
    <3> QED
      BY <3>1, <3>2
  <2>3. z = x + Year + 1
    <3>1. b + Year = x + Year + 1
      BY <1>1, <1>12, <2>2
    <3> QED
      BY <1>15, <1>13, <2>1, <3>1
  <2>4. a = x + Year + 1 \/ a = x + Year
    <3>1. CASE Missing(s + Year)
      <4>1. t + n = x + Year - 1
        BY <1>1, <1>13, <1>12, <3>1
      <4>2. f = x + Year - 1 /\ f + 1 = x + Year
        BY <1>1, <1>12, <1>14, <2>1, <4>1
      <4> QED
        BY <1>1, <1>14, <4>2
    <3>2. CASE ~ Missing(s + Year)
      <4>1. t + n = x + Year
        BY <1>1, <1>13, <1>12, <3>2
      <4>2. f = IF Missing(x + Year) THEN (x + Year) - 1 ELSE x + Year
        BY <1>14, <4>1, Zenon
      <4>3. CASE Missing(x + Year)
        <5>1. f + 1 = x + Year /\ f + 2 = x + Year + 1
          BY <1>1, <1>12, <4>2, <4>3
        <5> QED
          BY <1>14, <4>3, <5>1
      <4>4. CASE ~ Missing(x + Year)
        BY <1>14, <2>1, <4>2, <4>4
      <4> QED
        BY <4>3, <4>4
    <3> QED
      BY <3>1, <3>2
  <2> QED
    BY <1>1, <1>12, <1>8, <1>16, <2>3, <2>4
<1>17. CASE r # LeapDay
  <2>1. /\ ~ Missing(s + Year) /\ ~ Missing(x) /\ ~ Missing(x + Year)
        /\ t = s + Year /\ e = x
    BY <1>5, <1>6, <1>7, <1>13, <1>17
  <2>2. t + n = x + Year
    BY <1>1, <1>12, <2>1
  <2>3. f = x + Year
    BY <1>14, <2>1, <2>2
  <2>4. a = IF Missing(x + Year + 1) THEN x + Year + 2 ELSE x + Year + 1
    BY <1>14, <2>3
  <2>5. b = IF Missing(x + 1) THEN x + 2 ELSE x + 1
    BY <1>13, <2>1
  <2>6. CASE Missing(x + 1)
    <3>1. b = x + 2 /\ b + Year = x + Year + 2 /\ ~ Missing(x + Year + 2)
      BY <1>1, <1>12, <1>6, <1>7, <2>5, <2>6
    <3>2. z = x + Year + 2
      BY <1>15, <1>13, <3>1
    <3>3. a = x + Year + 1 => a % Year = LeapDay
      BY <1>6, <1>9, <2>6
    <3>4. a = x + Year + 2 \/ a = x + Year + 1
      BY <2>4
    <3> QED
      BY <1>1, <1>12, <3>2, <3>3, <3>4
  <2>7. CASE ~ Missing(x + 1)
    <3>1. b = x + 1 /\ b + Year = x + Year + 1
      BY <1>1, <1>12, <2>5, <2>7
    <3>2. CASE Missing(x + Year + 1)
      <4>1. z = (x + Year + 1) - 1 /\ a = x + Year + 2
        BY <1>15, <1>13, <2>4, <3>1, <3>2
      <4>2. z + 1 = x + Year + 1 /\ a = z + 2
        BY <1>1, <1>12, <4>1
      <4> QED
        BY <3>2, <4>2
    <3>3. CASE ~ Missing(x + Year + 1)
      BY <1>15, <1>13, <2>4, <3>1, <3>3
    <3> QED
      BY <3>2, <3>3
  <2> QED
    BY <2>6, <2>7
<1> QED
  BY <1>16, <1>17

(* Both halves of the calendar are sets of finitely many days, and the     *)
(* in-sample half comes first.                                             *)
LEMMA Halves ==
  ASSUME Typed
  PROVE  /\ days \in SUBSET Nat /\ IsFiniteSet(days) /\ days # {}
         /\ Cutoff \in Int
         /\ InSampleDays = {d \in days : d < Cutoff} /\ IsFiniteSet(InSampleDays)
         /\ HoldoutDays = {d \in days : d >= Cutoff} /\ IsFiniteSet(HoldoutDays)
         /\ \A d \in days : d \in Nat /\ ~ Missing(d)
<1>1. days \in SUBSET Nat /\ IsFiniteSet(days) /\ days # {}
  BY EvaluationAssumption DEF Typed
<1>2. Max(days) \in days
  BY <1>1, FiniteMax
<1>3. Cutoff \in Int
  <2>1. Max(days) \in Int
    <3>1. Max(days) \in Nat
      BY <1>1, <1>2, Zenon
    <3> QED
      BY <3>1
  <2>2. - HoldoutYears \in Int
    BY EvaluationAssumption
  <2>3. PICK m \in Int, k \in Int : m = Max(days) /\ k = - HoldoutYears
    BY <2>1, <2>2
  <2>4. YearsLater(m, k) \in Int
    BY Moved
  <2> QED
    BY <2>3, <2>4, Zenon DEF Cutoff
<1>4. InSampleDays = {d \in days : d < Cutoff} /\ HoldoutDays = {d \in days : d >= Cutoff}
  BY DEF InSampleDays, HoldoutDays
<1>5. IsFiniteSet(InSampleDays) /\ IsFiniteSet(HoldoutDays)
  BY <1>1, <1>4, FS_Subset
<1>6. \A d \in days : d \in Nat /\ ~ Missing(d)
  <2>1. \A d \in days : d % Year = LeapDay => d \div Year \in LeapYears
    BY EvaluationAssumption DEF Typed
  <2> QED
    BY <1>1, <2>1 DEF Missing
<1> QED
  BY <1>1, <1>3, <1>4, <1>5, <1>6

(* The loop's steps: each start is a year after the one before.            *)
LEMMA StartSteps ==
  ASSUME Typed, InSampleDays # {}, NEW k \in Nat
  PROVE  /\ Start(k) \in Nat /\ ~ Missing(Start(k))
         /\ Min(InSampleDays) <= Start(k) /\ k <= Start(k) - Min(InSampleDays)
         /\ Start(0) = Min(InSampleDays)
         /\ Start(k + 1) = YearsLater(Start(k), 1)
         /\ Start(k) + 2 < Start(k + 1)
         /\ Min(InSampleDays) + k * Year - 1 <= Start(k)
         /\ Start(k) <= Min(InSampleDays) + k * Year
<1> DEFINE shifted(m) == \E j \in 1 .. m : Missing(Min(InSampleDays) + j * Year)
<1>1. PICK first \in Nat : first = Min(InSampleDays) /\ ~ Missing(first)
  <2>1. InSampleDays \in SUBSET Nat /\ IsFiniteSet(InSampleDays) /\ InSampleDays \in SUBSET days
    BY Halves
  <2>2. InSampleDays \in SUBSET Int
    BY <2>1
  <2>3. Min(InSampleDays) \in InSampleDays
    BY <2>1, <2>2, FiniteMin
  <2> QED
    BY <2>1, <2>3, Halves
<1>2. Year \in Nat /\ Year > 3 /\ LeapDay \in Nat /\ LeapDay > 0 /\ LeapDay < Year - 1
  BY EvaluationAssumption
<1>3. PICK n \in Nat : n = k * Year /\ k <= n /\ (k # 0 => k + 2 < n) /\ (k = 0 => n = 0)
  <2>1. k * Year \in Nat /\ k * 4 <= k * Year
    <3>1. \A a, b \in Nat : a * 4 + a * b = a * (b + 4) /\ a * b \in Nat /\ a * (b + 4) \in Nat
      OBVIOUS
    <3>2. PICK b \in Nat : Year = b + 4
      <4>1. Year - 4 \in Nat /\ Year = (Year - 4) + 4
        BY <1>2
      <4> QED
        BY <4>1
    <3> QED
      BY <3>1, <3>2
  <2>2. k = 0 => k * Year = 0
    BY <1>2
  <2> QED
    BY <2>1, <2>2
<1>4. PICK u \in Nat :
        u = first + (k + 1) * Year /\ u = first + n + Year /\ k + 1 \in Nat
  <2>1. (k + 1) * Year = n + Year /\ k + 1 \in Nat
    BY <1>2, <1>3
  <2> QED
    BY <1>2, <2>1
<1>5. /\ Start(k) = IF shifted(k) THEN first + n - 1 ELSE first + n
      /\ Start(k + 1) = IF shifted(k + 1) THEN u - 1 ELSE u
      /\ Start(0) = first
  <2>1. ~ shifted(0) /\ 0 * Year = 0
    BY <1>2
  <2>2. \A m, c : c = m * Year => Start(m) = IF shifted(m) THEN first + c - 1 ELSE first + c
    BY <1>1 DEF Start
  <2> HIDE DEF shifted
  <2>3. Start(0) = first
    BY <2>1, <2>2
  <2>4. Start(k + 1) = IF shifted(k + 1) THEN u - 1 ELSE u
    <3>1. PICK v \in Nat, c \in Nat : v = k + 1 /\ c = v * Year /\ u = first + c
      <4>1. (k + 1) * Year \in Nat
        BY <1>2, <1>4
      <4> QED
        BY <1>4, <4>1
    <3>2. Start(v) = IF shifted(v) THEN first + c - 1 ELSE first + c
      BY <2>2, <3>1
    <3> QED
      BY <3>1, <3>2
  <2>5. Start(k) = IF shifted(k) THEN first + n - 1 ELSE first + n
    BY <1>3, <2>2
  <2> QED
    BY <2>3, <2>4, <2>5
<1>6. shifted(k + 1) <=> shifted(k) \/ Missing(u)
  <2>1. \A j : j \in 1 .. k + 1 <=> j \in 1 .. k \/ j = k + 1
    OBVIOUS
  <2> QED
    BY <1>1, <1>4, <2>1
<1>7. /\ (first + n) % Year = first % Year /\ u % Year = first % Year
      /\ \A j \in Nat : Missing(first + j * Year) => first % Year = LeapDay
  <2>1. \A j \in Nat : Missing(first + j * Year) => first % Year = LeapDay
    BY Lapse
  <2> QED
    BY <1>3, <1>4, <2>1, Places
<1>8. ASSUME NEW s \in Nat
      PROVE  YearsLater(s, 1) = IF Missing(s + Year) THEN (s + Year) - 1 ELSE s + Year
  <2>1. s + 1 * Year = s + Year
    BY <1>2
  <2> QED
    BY <2>1 DEF YearsLater
<1>9. CASE shifted(k)
  <2>1. first % Year = LeapDay /\ k # 0
    BY <1>1, <1>7, <1>9
  <2>2. PICK s \in Nat : s = first + n - 1 /\ s + 1 = first + n
    BY <1>3, <2>1
  <2>3. Start(k) = s /\ Start(k + 1) = s + Year
    <3> HIDE DEF shifted
    <3>1. Start(k) = first + n - 1 /\ Start(k + 1) = u - 1
      BY <1>5, <1>6, <1>9
    <3> QED
      BY <1>2, <1>3, <1>4, <2>2, <3>1
  <2>4. ASSUME NEW y \in Nat, (y + 1) % Year = LeapDay
        PROVE  ~ Missing(y)
    <3>1. (y + 1) % Year = IF y % Year = Year - 1 THEN 0 ELSE (y % Year) + 1
      BY Places
    <3>2. Missing(y) => y % Year = LeapDay
      BY DEF Missing
    <3> QED
      BY <1>2, <2>4, <3>1, <3>2
  <2>5. ~ Missing(s)
    BY <1>7, <2>1, <2>2, <2>4
  <2>6. ~ Missing(s + Year)
    <3>1. s + Year \in Nat /\ (s + Year) + 1 = u
      BY <1>2, <1>3, <1>4, <2>2
    <3> QED
      BY <1>7, <2>1, <2>4, <3>1
  <2>7. Start(k + 1) = YearsLater(s, 1)
    BY <1>8, <2>3, <2>6
  <2> QED
    <3> HIDE DEF shifted
    <3>1. Start(0) = first
      BY <1>5
    <3>2. /\ first <= s /\ k <= s - first /\ s + 2 < s + Year
          /\ first + n - 1 <= s /\ s <= first + n
      BY <1>2, <1>3, <2>1, <2>2
    <3> QED
      BY <1>1, <1>3, <2>3, <2>5, <2>7, <3>1, <3>2
<1>10. CASE ~ shifted(k)
  <2>1. ~ Missing(first + n)
    <3>1. CASE k = 0
      BY <1>1, <1>3, <3>1
    <3>2. CASE k # 0
      <4>1. k \in 1 .. k
        BY <3>2
      <4> QED
        BY <1>1, <1>3, <1>10, <4>1
    <3> QED
      BY <3>1, <3>2
  <2>2. PICK s \in Nat : s = first + n
    OBVIOUS
  <2>3. Start(k) = s
    BY <1>5, <1>10, <2>2
  <2>4. s + Year = u
    BY <1>2, <1>4, <2>2
  <2>5. Start(k + 1) = IF Missing(s + Year) THEN (s + Year) - 1 ELSE s + Year
    <3> HIDE DEF shifted
    <3>1. Start(k + 1) = IF Missing(u) THEN u - 1 ELSE u
      BY <1>5, <1>6, <1>10
    <3> QED
      BY <2>4, <3>1
  <2>6. Start(k + 1) = YearsLater(s, 1)
    BY <1>8, <2>5
  <2> QED
    BY <1>1, <1>2, <1>3, <1>5, <2>1, <2>2, <2>3, <2>5, <2>6
<1> QED
  BY <1>9, <1>10

LEMMA StartOrder ==
  ASSUME Typed, InSampleDays # {}, NEW p \in Nat, NEW q \in Nat, p < q
  PROVE  Start(p) + 2 < Start(q)
<1>1. PICK first \in Nat : first = Min(InSampleDays)
  BY StartSteps
<1>2. PICK m \in Nat, n \in Nat : m = p * Year /\ n = q * Year
  BY Spans
<1>3. m + Year <= n
  <2>1. PICK e \in Nat : q = p + 1 + e
    <3>1. q - p - 1 \in Nat /\ q = p + 1 + (q - p - 1)
      OBVIOUS
    <3> QED
      BY <3>1
  <2>2. (p + 1 + e) * Year = p * Year + Year + e * Year /\ e * Year \in Nat
    BY Spans
  <2> QED
    BY <1>2, <2>1, <2>2, Spans
<1>4. Start(p) \in Nat /\ Start(q) \in Nat /\ Start(p) <= first + m /\ first + n - 1 <= Start(q)
  BY <1>1, <1>2, StartSteps
<1> QED
  BY <1>1, <1>2, <1>3, <1>4, Spans

\* A fold of the in-sample days whose test follows its training
IsWindow(w) ==
  /\ w.train \in SUBSET InSampleDays /\ w.train # {}
  /\ w.from \in InSampleDays /\ w.to \in InSampleDays /\ w.from <= w.to
  /\ w.test = Within(w.from, w.to)
  /\ \A d \in w.train : d < w.from

\* A fold in terms of the first day of its training
FromStart(w, s) ==
  /\ w.test = {d \in InSampleDays : From(s) <= d /\ d <= To(s)}
  /\ From(s) < Max(InSampleDays)

LEMMA StartsTyped ==
  ASSUME Typed, InSampleDays # {}, NEW s \in Starts
  PROVE  /\ s \in Nat /\ \E k \in Nat : s = Start(k)
         /\ TrainEnd(s) < Max(InSampleDays)
         /\ Fold(s).train # {} /\ Fold(s).test # {}
<1>1. Min(InSampleDays) \in Nat /\ Max(InSampleDays) \in Nat
  <2>1. InSampleDays \in SUBSET Nat /\ IsFiniteSet(InSampleDays)
    BY Halves
  <2>2. InSampleDays \in SUBSET Int
    BY <2>1
  <2>3. Min(InSampleDays) \in InSampleDays /\ Max(InSampleDays) \in InSampleDays
    BY <2>1, <2>2, FiniteMin, FiniteMax
  <2> QED
    BY <2>1, <2>3
<1>2. PICK k \in 0 .. Max(InSampleDays) - Min(InSampleDays) : s = Start(k)
  BY DEF Starts
<1>3. k \in Nat
  BY <1>1, <1>2
<1>4. /\ TrainEnd(s) < Max(InSampleDays)
      /\ Fold(s).train # {} /\ Fold(s).test # {}
  BY DEF Starts
<1> QED
  BY <1>2, <1>3, <1>4, StartSteps

LEMMA WindowOfStart ==
  ASSUME Typed, InSampleDays # {}, NEW s \in Starts
  PROVE  /\ s \in Nat
         /\ IsWindow(Window(Fold(s)))
         /\ FromStart(Window(Fold(s)), s)
<1> DEFINE w == Window(Fold(s))
           a == From(s)
           z == To(s)
<1>1. /\ InSampleDays \in SUBSET Nat /\ IsFiniteSet(InSampleDays)
  BY Halves
<1>2. s \in Nat /\ Fold(s).train # {} /\ Fold(s).test # {}
  BY StartsTyped
<1>3. a \in Nat /\ z \in Nat /\ TrainEnd(s) \in Nat /\ TrainEnd(s) < a
  BY <1>2, Ends
<1>4. /\ w.train = Within(s, TrainEnd(s)) \cap InSampleDays
      /\ w.test = IF a < Max(InSampleDays) THEN Within(a, z) \cap InSampleDays ELSE {}
      /\ w.from = Min(w.test) /\ w.to = Max(w.test)
      /\ w.train = Fold(s).train /\ w.test = Fold(s).test
  BY DEF Window, Fold
<1>5. a < Max(InSampleDays) /\ w.test = Within(a, z) \cap InSampleDays
  BY <1>2, <1>4
<1>6. w.test = {d \in InSampleDays : a <= d /\ d <= z}
  BY <1>5, Halves DEF Within
<1>7. /\ w.from \in w.test /\ \A y \in w.test : w.from =< y
      /\ w.to \in w.test /\ \A y \in w.test : w.to >= y
  <2>1. w.test \in SUBSET InSampleDays /\ w.test # {}
    BY <1>2, <1>4, <1>6
  <2>2. w.test \in SUBSET Int
    <3>1. w.test \in SUBSET Nat
      BY <1>1, <2>1, Zenon
    <3> QED
      BY <3>1
  <2>3. IsFiniteSet(w.test)
    BY <1>1, <2>1, FS_Subset
  <2> QED
    BY <1>4, <2>1, <2>2, <2>3, FiniteMin, FiniteMax
<1> HIDE DEF w, a, z
<1>8. w.test = Within(w.from, w.to)
  <2>1. \A d \in Within(w.from, w.to) : d \in InSampleDays /\ a <= d /\ d <= z
    BY <1>1, <1>3, <1>6, <1>7, Halves DEF Within
  <2>2. \A d \in w.test : d \in Within(w.from, w.to)
    BY <1>6, <1>7, Halves DEF Within
  <2> QED
    BY <1>6, <2>1, <2>2
<1>9. \A d \in w.train : d < w.from
  <2>1. \A d \in w.train : d \in Nat /\ d <= TrainEnd(s)
    BY <1>1, <1>4 DEF Within
  <2>2. w.from \in Nat /\ a <= w.from
    BY <1>1, <1>6, <1>7
  <2> QED
    BY <1>3, <2>1, <2>2
<1>10. IsWindow(w)
  BY <1>1, <1>2, <1>3, <1>4, <1>6, <1>7, <1>8, <1>9 DEF IsWindow
<1>11. FromStart(w, s)
  BY <1>5, <1>6 DEF FromStart, a, z
<1> QED
  BY <1>2, <1>10, <1>11 DEF w

\* Folds that are windows in their order
Shaped(f) ==
  /\ Len(f) \in Nat /\ DOMAIN f = 1 .. Len(f)
  /\ \A i \in 1 .. Len(f) : IsWindow(f[i])
  /\ \A i, j \in 1 .. Len(f) : i < j => f[i].from <= f[j].from /\ f[i].to <= f[j].to

(* Folds enumerates the windows of the days in Starts, in the order of     *)
(* those days.                                                             *)
LEMMA FoldsByStart ==
  ASSUME Typed, InSampleDays # {}
  PROVE  /\ Starts \in SUBSET Int /\ IsFiniteSet(Starts)
         /\ Len(Folds) = Cardinality(Starts) /\ DOMAIN Folds = 1 .. Len(Folds)
         /\ Len(Folds) \in Nat
         /\ \A i \in 1 .. Len(Folds) :
              Nth(Starts, i) \in Starts /\ Folds[i] = Window(Fold(Nth(Starts, i)))
         /\ \A i, j \in 1 .. Len(Folds) : i < j => Nth(Starts, i) < Nth(Starts, j)
         /\ \A s \in Starts : \E i \in 1 .. Len(Folds) : Nth(Starts, i) = s
<1> DEFINE n == Cardinality(Starts)
<1>1. Min(InSampleDays) \in Int /\ Max(InSampleDays) \in Nat
  <2>1. InSampleDays \in SUBSET Nat /\ IsFiniteSet(InSampleDays)
    BY Halves
  <2>2. InSampleDays \in SUBSET Int
    BY <2>1
  <2>3. Min(InSampleDays) \in InSampleDays /\ Max(InSampleDays) \in InSampleDays
    BY <2>1, <2>2, FiniteMin, FiniteMax
  <2> QED
    BY <2>1, <2>2, <2>3
<1>2. Starts \in SUBSET (0 .. Max(InSampleDays))
  <2> SUFFICES ASSUME NEW s \in Starts PROVE s \in 0 .. Max(InSampleDays)
    OBVIOUS
  <2>1. s \in Nat /\ TrainEnd(s) < Max(InSampleDays)
    BY StartsTyped
  <2>2. TrainEnd(s) \in Nat /\ s + TrainSpan - 1 <= TrainEnd(s)
    BY <2>1, Ends
  <2> QED
    BY <1>1, <2>1, <2>2, Spans
<1>3. IsFiniteSet(Starts)
  <2>1. IsFiniteSet(0 .. Max(InSampleDays))
    BY <1>1, FS_Interval
  <2> QED
    BY <1>2, <2>1, FS_Subset
<1>4. Starts \in SUBSET Int
  BY <1>1, <1>2
<1>5. n \in Nat
  BY <1>3, FS_CardinalityType
<1>6. /\ \A i \in 1 .. n : Nth(Starts, i) \in Starts
      /\ \A i, j \in 1 .. n : i < j => Nth(Starts, i) < Nth(Starts, j)
      /\ \A s \in Starts : \E i \in 1 .. n : Nth(Starts, i) = s
  BY <1>3, <1>4, NthElement
<1>7. DOMAIN Folds = 1 .. n /\ \A i \in 1 .. n : Folds[i] = Window(Fold(Nth(Starts, i)))
  BY DEF Folds
<1>8. Len(Folds) = n
  <2> DEFINE W == {Window(Fold(Nth(Starts, i))) : i \in 1 .. n}
  <2>1. Folds \in [1 .. n -> W]
    BY DEF Folds
  <2>2. Folds \in Seq(W)
    BY <1>5, <2>1, SeqDef
  <2> QED
    BY <1>5, <1>7, <2>2, LenProperties
<1> QED
  BY <1>3, <1>4, <1>5, <1>6, <1>7, <1>8

LEMMA FoldsShaped ==
  ASSUME Typed, ~ NoFolds
  PROVE  Shaped(Folds) /\ Len(Folds) > 0
<1>1. InSampleDays # {} /\ Folds # << >>
  BY DEF NoFolds
<1>2. \A i \in 1 .. Len(Folds) : IsWindow(Folds[i])
  BY <1>1, FoldsByStart, WindowOfStart
<1>3. ASSUME NEW i \in 1 .. Len(Folds), NEW j \in 1 .. Len(Folds), i < j
      PROVE  Folds[i].from <= Folds[j].from /\ Folds[i].to <= Folds[j].to
  <2> DEFINE s == Nth(Starts, i)
             t == Nth(Starts, j)
  <2>1. s \in Nat /\ t \in Nat /\ s < t
    BY <1>1, <1>3, FoldsByStart, WindowOfStart
  <2>2. FromStart(Folds[i], s) /\ FromStart(Folds[j], t) /\ IsWindow(Folds[i]) /\ IsWindow(Folds[j])
    BY <1>1, <1>2, FoldsByStart, WindowOfStart
  <2> DEFINE x == Folds[i]
             y == Folds[j]
  <2>3. /\ x.from \in Nat /\ x.to \in Nat /\ y.from \in Nat /\ y.to \in Nat
        /\ x.from \in days /\ x.to \in days /\ y.from \in days /\ y.to \in days
        /\ x.from \in InSampleDays /\ x.to \in InSampleDays
        /\ y.from \in InSampleDays /\ y.to \in InSampleDays
    BY <2>2, Halves DEF IsWindow
  <2>4. \A d \in InSampleDays : d \in x.test <=> x.from <= d /\ d <= x.to
    BY <2>2, Halves DEF IsWindow, Within
  <2>5. \A d \in InSampleDays : d \in y.test <=> y.from <= d /\ d <= y.to
    BY <2>2, Halves DEF IsWindow, Within
  <2>6. \A d \in InSampleDays :
          /\ d \in x.test <=> From(s) <= d /\ d <= To(s)
          /\ d \in y.test <=> From(t) <= d /\ d <= To(t)
    BY <2>2 DEF FromStart
  <2>7. /\ From(s) \in Nat /\ To(s) \in Nat /\ From(t) \in Nat /\ To(t) \in Nat
        /\ From(s) <= From(t) /\ To(s) <= To(t)
    <3>1. From(s) \in Nat /\ To(s) \in Nat
      BY <2>1, Ends
    <3>2. From(t) \in Nat /\ To(t) \in Nat
      BY <2>1, Ends
    <3>3. s <= t
      BY <2>1
    <3> QED
      BY <2>1, <3>1, <3>2, <3>3, InOrder
  <2>8. x.from <= x.to /\ y.from <= y.to
    BY <2>2 DEF IsWindow
  <2> HIDE DEF s, t, x, y
  <2>9. x.from <= y.from
    <3>1. From(t) <= y.from /\ x.from <= To(s)
      BY <2>3, <2>4, <2>5, <2>6, <2>7, <2>8
    <3>2. From(s) <= y.from
      BY <2>3, <2>7, <3>1
    <3>3. y.from <= To(s) => y.from \in x.test
      BY <2>3, <2>6, <3>2
    <3> QED
      BY <2>3, <2>4, <2>7, <3>1, <3>3
  <2>10. x.to <= y.to
    BY <2>3, <2>4, <2>5, <2>6, <2>7, <2>8
  <2> QED
    BY <2>9, <2>10 DEF x, y
<1>4. Len(Folds) > 0
  <2>1. Len(Folds) # 0
    <3> SUFFICES ASSUME Len(Folds) = 0 PROVE FALSE
      OBVIOUS
    <3>1. Folds = [i \in 1 .. 0 |-> Window(Fold(Nth(Starts, i)))]
      BY <1>1, FoldsByStart DEF Folds
    <3>2. Folds \in Seq({}) /\ Len(Folds) = 0
      BY <3>1, SeqDef
    <3> QED
      BY <1>1, <3>2, EmptySeq
  <2> QED
    BY <1>1, <2>1, FoldsByStart
<1> QED
  BY <1>1, <1>2, <1>3, <1>4, FoldsByStart DEF Shaped

-----------------------------------------------------------------------------
(* The invariant *)

AfterPool == {"full", "holdout", "stress", "haircut", "done"}

AfterSignals == AfterPool \cup {"prescreen", "pool", "rejected"}

Phases == pc \in AfterSignals \cup {"load", "signals", "failed"}

FoldsMade ==
  /\ folds = << >> \/ (folds = Folds /\ ~ NoFolds)
  /\ pc = "load" => folds = << >>
  /\ pc \in AfterSignals \cup {"signals"} => folds # << >>

ReportType == [from : Nat, to : Nat, ratios : SUBSET days, turnover : SUBSET days,
               scaled : 0 .. 1]

States == {"queued", "running", "done", "failed"}

PoolSound ==
  /\ tasks \in Seq(States) /\ reports \in Seq(ReportType)
  /\ Len(tasks) <= Len(folds) /\ Len(reports) = IF pc = "rejected" THEN 0 ELSE Len(tasks)
  /\ pc \in AfterSignals => Len(tasks) = Len(folds)
  /\ pc \in AfterPool => \A i \in DOMAIN tasks : tasks[i] = "done"
  /\ Cardinality(Running) <= MaxWorkers

\* A weight is that of the first fold that tests its day, and the folds
\* whose signals are computed have given all of theirs.
WeightsSound ==
  /\ \A d \in DOMAIN weights :
       /\ weights[d].fold \in 1 .. Len(tasks)
       /\ d \in folds[weights[d].fold].test
       /\ weights[d].reads = Seen(Shown(weights[d].fold), d)
       /\ \A i \in 1 .. Len(tasks) : d \in folds[i].test => weights[d].fold <= i
  /\ \A i \in 1 .. Len(tasks) : Given(Shown(i)) \cap folds[i].test \subseteq DOMAIN weights

\* The pooled backtest of the spliced weights
PooledSound ==
  pooled = << >> \/
    /\ pc \in AfterSignals \cup {"failed"} /\ folds # << >> /\ Len(tasks) = Len(folds)
    /\ DOMAIN pooled = Within(TestStart(1), TestEnd(Len(folds)))
    /\ \A d \in DOMAIN pooled :
         pooled[d] = [held |-> Position(FoldReads, days, d),
                      net  |-> NetReturn(FoldReads, days, d)]

Earned == UNION {NetReturn(FoldReads, days, d) : d \in Within(0, TestEnd(Len(folds)))}

\* The haircut comes last, and over every report.
ReportsSound ==
  /\ inSample \in ReportType /\ holdout \in ReportType
  /\ pc \in AfterSignals =>
       inSample.ratios = Earned \cup IF inSample.scaled = 0 THEN {} ELSE BenchmarkHistory
  /\ pc # "done" => inSample.scaled = 0 /\ holdout.scaled = 0
  /\ \A i \in DOMAIN reports :
       /\ reports[i].scaled = inSample.scaled
       /\ tasks[i] = "done" =>
            /\ reports[i].from = TestStart(i) /\ reports[i].to = TestEnd(i)
            /\ reports[i].scaled = 0 => \A d \in reports[i].ratios : d <= TestEnd(i)

FullSound ==
  /\ DOMAIN full \subseteq days /\ \A d \in DOMAIN full : full[d] \subseteq days
  /\ regime \in [reads : SUBSET days, passed : BOOLEAN]

EvaluationInv ==
  Typed /\ Phases /\ FoldsMade /\ PoolSound /\ WeightsSound /\ PooledSound
    /\ ReportsSound /\ FullSound

-----------------------------------------------------------------------------
(* What a backtest reads *)

LEMMA HeldFrom ==
  ASSUME Typed, NEW w, DOMAIN w \subseteq days, NEW d \in Int
  PROVE  Held(w, d) = {} \/ \E e \in DOMAIN w : e <= d /\ Held(w, d) = w[e]
<1> DEFINE given == {e \in DOMAIN w : e <= d}
<1>1. CASE given = {}
  BY <1>1 DEF Held
<1>2. CASE given # {}
  <2>1. given \in SUBSET days
    OBVIOUS
  <2>2. IsFiniteSet(given)
    BY <2>1, Halves, FS_Subset
  <2>3. given \in SUBSET Int
    BY <2>1, Halves
  <2>4. Max(given) \in given
    BY <1>2, <2>2, <2>3, FiniteMax
  <2>5. Held(w, d) = w[Max(given)]
    BY <1>2 DEF Held
  <2> QED
    BY <2>4, <2>5
<1> QED
  BY <1>1, <1>2

LEMMA LatestBefore ==
  ASSUME Typed, NEW window \in SUBSET days, NEW d \in Int, Before(window, d) # {}
  PROVE  Max(Before(window, d)) \in window /\ Max(Before(window, d)) < d
<1>1. Before(window, d) \in SUBSET days
  BY DEF Before
<1>2. IsFiniteSet(Before(window, d))
  BY <1>1, Halves, FS_Subset
<1>3. Before(window, d) \in SUBSET Int
  BY <1>1, Halves
<1>4. Max(Before(window, d)) \in Before(window, d)
  BY <1>2, <1>3, FiniteMax
<1> QED
  BY <1>4 DEF Before

LEMMA PositionFrom ==
  ASSUME Typed, NEW w, DOMAIN w \subseteq days, NEW window \in SUBSET days, NEW d \in Int
  PROVE  Position(w, window, d) = {} \/ \E e \in DOMAIN w : e < d /\ Position(w, window, d) = w[e]
<1>1. CASE Before(window, d) = {}
  BY <1>1 DEF Position
<1>2. CASE Before(window, d) # {}
  <2> DEFINE b == Max(Before(window, d))
  <2>1. b \in days /\ b < d
    BY <1>2, LatestBefore
  <2>2. b \in Nat
    BY <2>1, Halves
  <2>3. Held(w, b) = {} \/ \E e \in DOMAIN w : e <= b /\ Held(w, b) = w[e]
    BY <2>2, HeldFrom
  <2>4. Position(w, window, d) = Held(w, b)
    BY <1>2 DEF Position
  <2>5. \A e \in DOMAIN w : e <= b => e < d
    BY <2>1, <2>2, Halves
  <2> QED
    BY <2>3, <2>4, <2>5
<1> QED
  BY <1>1, <1>2

(* A day's net return depends on prices up to the day, and on weights      *)
(* given until then.                                                       *)
LEMMA NetFrom ==
  ASSUME Typed, NEW w, DOMAIN w \subseteq days, NEW window \in SUBSET days, NEW d \in days,
         NEW x \in NetReturn(w, window, d)
  PROVE  (x \in days /\ x <= d) \/ \E e \in DOMAIN w : e <= d /\ x \in w[e]
<1>1. d \in Nat /\ d \in Int
  BY Halves
<1>2. CASE x \in Position(w, window, d)
  <2>1. PICK e \in DOMAIN w : e < d /\ x \in w[e]
    BY <1>1, <1>2, PositionFrom
  <2>2. e \in Nat
    BY Halves
  <2>3. e <= d
    BY <1>1, <2>1, <2>2
  <2> QED
    BY <2>1, <2>3
<1>3. CASE x \in Held(w, d)
  BY <1>1, <1>3, HeldFrom
<1>4. CASE x \in AssetReturn(d)
  <2>1. CASE x = d
    BY <1>1, <2>1
  <2>2. CASE Before(days, d) # {} /\ x = Max(Before(days, d))
    <3>1. x \in days /\ x < d
      BY <1>1, <2>2, LatestBefore
    <3>2. x \in Nat
      BY <3>1, Halves
    <3> QED
      BY <1>1, <3>1, <3>2
  <2> QED
    BY <1>4, <2>1, <2>2 DEF AssetReturn
<1>5. CASE x \in (Before(window, d) \cup {d}) \cup AssetReturn(Min(Before(window, d) \cup {d}))
  <2> DEFINE past == Before(window, d) \cup {d}
  <2>1. \A e \in past : e \in days /\ e \in Nat /\ e <= d
    <3>1. \A e \in window : e \in days /\ e \in Nat
      BY Halves
    <3> QED
      BY <1>1, <3>1 DEF Before
  <2>2. Min(past) \in past
    <3>1. past \in SUBSET days /\ past # {}
      BY <2>1
    <3>2. IsFiniteSet(past) /\ past \in SUBSET Int
      BY <2>1, <3>1, Halves, FS_Subset
    <3> HIDE DEF past
    <3> QED
      BY <3>1, <3>2, FiniteMin
  <2>3. PICK m \in past : m = Min(past)
    BY <2>2
  <2>4. m \in days /\ m \in Int /\ m <= d
    BY <2>1
  <2>5. CASE x \in past
    BY <2>1, <2>5
  <2>6. CASE x = m
    BY <2>4, <2>6
  <2>7. CASE Before(days, m) # {} /\ x = Max(Before(days, m))
    <3>1. x \in days /\ x < m
      BY <2>4, <2>7, LatestBefore
    <3>2. x \in Nat
      BY <3>1, Halves
    <3> QED
      BY <1>1, <2>4, <3>1, <3>2
  <2>8. x \in past \/ x \in AssetReturn(m)
    BY <1>5, <2>3
  <2> QED
    BY <2>5, <2>6, <2>7, <2>8 DEF AssetReturn
<1> QED
  BY <1>2, <1>3, <1>4, <1>5 DEF NetReturn

(* Before the first weight nothing is earned and nothing is paid.          *)
LEMMA NothingBefore ==
  ASSUME Typed, NEW w, DOMAIN w \subseteq days, NEW window \in SUBSET days, NEW d \in days,
         \A e \in DOMAIN w : d < e
  PROVE  NetReturn(w, window, d) = {}
<1>1. d \in Nat /\ \A e \in DOMAIN w : e \in Nat
  BY Halves
<1>2. \A e \in DOMAIN w : ~ (e <= d) /\ ~ (e < d)
  BY <1>1
<1>3. Position(w, window, d) = {} /\ Held(w, d) = {}
  BY <1>1, <1>2, PositionFrom, HeldFrom
<1> QED
  BY <1>3 DEF NetReturn

LEMMA FoldsAreShaped ==
  ASSUME Typed, FoldsMade
  PROVE  Shaped(folds)
<1>1. CASE folds = << >>
  <2>1. Len(folds) = 0 /\ DOMAIN folds = 1 .. 0
    BY <1>1
  <2> QED
    BY <2>1 DEF Shaped
<1>2. CASE folds = Folds /\ ~ NoFolds
  BY <1>2, FoldsShaped
<1> QED
  BY <1>1, <1>2 DEF FoldsMade

(* The bounds of a fold's test are numbers before the holdout, and days.   *)
LEMMA FoldBounds ==
  ASSUME Typed, Shaped(folds), NEW i \in 1 .. Len(folds)
  PROVE  /\ TestStart(i) \in Nat /\ TestEnd(i) \in Nat /\ TestStart(i) <= TestEnd(i)
         /\ TestStart(i) \in InSampleDays /\ TestEnd(i) \in InSampleDays
         /\ TestEnd(i) < Cutoff
         /\ folds[i].test = Within(TestStart(i), TestEnd(i))
         /\ folds[i].train \in SUBSET InSampleDays /\ folds[i].train # {}
         /\ \A d \in folds[i].train : d < TestStart(i)
<1>1. IsWindow(folds[i])
  BY DEF Shaped
<1> QED
  BY <1>1, Halves DEF IsWindow, TestStart, TestEnd

LEMMA FoldOrder ==
  ASSUME Typed, Shaped(folds), NEW i \in 1 .. Len(folds), NEW j \in 1 .. Len(folds), i <= j
  PROVE  TestStart(i) <= TestStart(j) /\ TestEnd(i) <= TestEnd(j)
<1>1. CASE i < j
  BY <1>1 DEF Shaped, TestStart, TestEnd
<1>2. CASE i = j
  BY <1>2, FoldBounds
<1> QED
  BY <1>1, <1>2 DEF Shaped

LEMMA WeightFacts ==
  ASSUME Typed, FoldsMade, PoolSound, WeightsSound, NEW d \in DOMAIN weights
  PROVE  LET f == weights[d].fold
         IN  /\ f \in 1 .. Len(folds) /\ f \in 1 .. Len(tasks) /\ d \in days
             /\ TestStart(f) <= d /\ d <= TestEnd(f)
             /\ weights[d].reads \in SUBSET days
             /\ \A x \in weights[d].reads : x <= TestEnd(f)
             /\ strategy.honest => \A x \in weights[d].reads : x <= d
             /\ \A x \in folds[f].train : x < d
<1> DEFINE f == weights[d].fold
<1>1. Shaped(folds)
  BY FoldsAreShaped
<1>2. Len(tasks) \in Nat /\ Len(folds) \in Nat /\ Len(tasks) <= Len(folds)
  BY <1>1, LenProperties DEF PoolSound, Shaped
<1>3. f \in 1 .. Len(tasks) /\ d \in folds[f].test /\ weights[d].reads = Seen(Shown(f), d)
  BY DEF WeightsSound
<1>4. f \in 1 .. Len(folds)
  BY <1>2, <1>3
<1>5. d \in days /\ TestStart(f) <= d /\ d <= TestEnd(f)
  BY <1>1, <1>3, <1>4, FoldBounds DEF Within
<1>6. Shown(f) \in SUBSET days /\ \A x \in Shown(f) : x <= TestEnd(f)
  BY DEF Shown, Within
<1>7. Seen(Shown(f), d) \in SUBSET Shown(f) /\ (strategy.honest => \A x \in Seen(Shown(f), d) : x <= d)
  BY DEF Seen
<1>8. \A x \in folds[f].train : x < d
  <2>1. \A x \in folds[f].train : x < TestStart(f) /\ x \in Nat
    BY <1>1, <1>4, FoldBounds, Halves
  <2>2. TestStart(f) \in Nat /\ d \in Nat
    BY <1>1, <1>4, <1>5, FoldBounds, Halves
  <2> QED
    BY <1>5, <2>1, <2>2
<1> QED
  BY <1>3, <1>4, <1>5, <1>6, <1>7, <1>8

LEMMA ReadsOnDays ==
  ASSUME Typed, FoldsMade, PoolSound, WeightsSound
  PROVE  /\ DOMAIN FoldReads = DOMAIN weights /\ DOMAIN FoldReads \subseteq days
         /\ \A d \in DOMAIN FoldReads : FoldReads[d] = weights[d].reads
         /\ \A d \in DOMAIN FoldReads : FoldReads[d] \in SUBSET days
BY WeightFacts DEF FoldReads

-----------------------------------------------------------------------------
(* Every in-sample day after the first training is tested *)

\* No two neighbouring trading days are further apart than a training period.
Unbroken ==
  \A c \in Calendars : \A d \in c :
    d < Max(c) => \E e \in c : d < e /\ e <= d + TrainYears * Year

LEMMA InSampleEnds ==
  ASSUME Typed, InSampleDays # {}
  PROVE  /\ Min(InSampleDays) \in InSampleDays /\ Min(InSampleDays) \in Nat
         /\ Max(InSampleDays) \in InSampleDays /\ Max(InSampleDays) \in Nat
         /\ \A d \in InSampleDays : d \in Nat /\ Min(InSampleDays) <= d /\ d <= Max(InSampleDays)
         /\ Max(InSampleDays) < Cutoff
         /\ Max(days) \in days /\ \A d \in days : d \in Nat /\ d <= Max(days)
<1>1. \A d \in days : d \in Nat
  BY Halves
<1>2. InSampleDays \in SUBSET days /\ IsFiniteSet(InSampleDays) /\ IsFiniteSet(days) /\ days # {}
  BY Halves
<1>3. InSampleDays \in SUBSET Int /\ days \in SUBSET Int
  BY <1>1, <1>2
<1>4. /\ Min(InSampleDays) \in InSampleDays /\ \A d \in InSampleDays : Min(InSampleDays) =< d
      /\ Max(InSampleDays) \in InSampleDays /\ \A d \in InSampleDays : Max(InSampleDays) >= d
      /\ Max(days) \in days /\ \A d \in days : Max(days) >= d
  BY <1>2, <1>3, FiniteMin, FiniteMax
<1>5. \A d \in InSampleDays : d \in Nat
  BY <1>1, <1>2
<1>6. Min(InSampleDays) \in Nat /\ Max(InSampleDays) \in Nat /\ Max(days) \in Nat
  BY <1>1, <1>4, <1>5
<1>7. Max(InSampleDays) < Cutoff
  BY <1>4, Halves
<1> QED
  BY <1>1, <1>4, <1>5, <1>6, <1>7

LEMMA TrainingDays ==
  ASSUME Typed, Unbroken, InSampleDays # {}, NEW s \in Nat,
         Min(InSampleDays) <= s, TrainEnd(s) < Max(InSampleDays)
  PROVE  Fold(s).train # {}
<1> DEFINE last == Max(InSampleDays)
           upTo == {x \in InSampleDays : x <= s}
<1>1. /\ last \in Nat /\ last < Cutoff /\ \A d \in InSampleDays : d <= last
      /\ \A d \in days : d \in Nat /\ d <= Max(days)
      /\ Max(days) \in Nat /\ last <= Max(days)
  BY InSampleEnds, Halves
<1>2. Fold(s).train = {d \in InSampleDays : s <= d /\ d <= TrainEnd(s)}
  BY Halves DEF Fold, Within
<1>3. Max(upTo) \in upTo /\ \A x \in upTo : Max(upTo) >= x
  <2>1. upTo \in SUBSET InSampleDays /\ InSampleDays \in SUBSET days
    BY Halves
  <2>2. IsFiniteSet(upTo)
    BY <2>1, Halves, FS_Subset
  <2>3. upTo \in SUBSET Int
    BY <1>1, <2>1
  <2>4. upTo # {}
    BY InSampleEnds
  <2> QED
    BY <2>2, <2>3, <2>4, FiniteMax
<1>4. PICK b \in upTo : b = Max(upTo)
  BY <1>3
<1>5. b \in days /\ b \in Nat /\ b <= s /\ b \in InSampleDays
  BY <1>1, <1>4, Halves
<1>6. TrainEnd(s) \in Nat /\ s + TrainSpan - 1 <= TrainEnd(s) /\ s <= TrainEnd(s)
  BY Ends, Spans
<1>7. CASE b = s
  BY <1>2, <1>5, <1>6, <1>7
<1>8. CASE b < s
  <2>1. b < Max(days)
    BY <1>1, <1>5, <1>6
  <2>2. PICK e \in days : b < e /\ e <= b + TrainSpan
    BY <1>5, <2>1 DEF Unbroken, Typed, TrainSpan
  <2>3. e \in Nat /\ e <= TrainEnd(s) /\ e < last
    BY <1>1, <1>5, <1>6, <1>8, <2>2, Spans
  <2>4. e \in InSampleDays
    BY <1>1, <2>3, Halves
  <2>5. ~ (e <= s)
    <3>1. e <= s => b >= e
      BY <1>3, <1>4, <2>4
    <3> QED
      BY <1>5, <2>2, <2>3, <3>1
  <2>6. s <= e
    BY <2>3, <2>5
  <2> QED
    BY <1>2, <2>3, <2>4, <2>6
<1> QED
  BY <1>5, <1>7, <1>8

LEMMA EveryDayTested ==
  ASSUME Typed, Unbroken, InSampleDays # {}, Starts # {},
         NEW d \in InSampleDays, From(Min(InSampleDays)) <= d
  PROVE  \/ \E s \in Starts : d \in Window(Fold(s)).test
         \/ d = Max(InSampleDays) /\ Missing(d - 1)
<1> DEFINE first == Min(InSampleDays)
           last  == Max(InSampleDays)
<1>1. /\ first \in Nat /\ last \in Nat /\ d \in Nat /\ d <= last /\ ~ Missing(d)
  BY InSampleEnds, Halves
<1>2. ASSUME NEW k \in Nat, From(Start(k)) <= d, d <= To(Start(k)), From(Start(k)) < last
      PROVE  \E s \in Starts : d \in Window(Fold(s)).test
  <2> DEFINE s == Start(k)
  <2>1. s \in Nat /\ first <= s /\ k <= s - first
    BY StartSteps
  <2>2. /\ TrainEnd(s) \in Nat /\ From(s) \in Nat /\ TrainEnd(s) + 1 <= From(s)
        /\ s + TrainSpan - 1 <= TrainEnd(s)
    BY <2>1, Ends
  <2>3. TrainEnd(s) < last /\ s <= last
    BY <1>1, <1>2, <2>1, <2>2, Spans
  <2>4. Fold(s).train # {}
    BY <2>1, <2>3, TrainingDays
  <2>5. d \in Fold(s).test /\ Window(Fold(s)).test = Fold(s).test
    BY <1>1, <1>2, Halves DEF Fold, Within, Window
  <2>6. k \in 0 .. last - first
    BY <1>1, <2>1, <2>3
  <2>7. s \in Starts
    BY <2>3, <2>4, <2>5, <2>6 DEF Starts
  <2> QED
    BY <2>5, <2>7
<1>3. ASSUME NEW k \in Nat
      PROVE  /\ From(Start(k)) \in Nat /\ k <= From(Start(k))
             /\ To(Start(k)) \in Nat
             /\ YearsLater(From(Start(k)), 1) <= To(Start(k))
             /\ YearsLater(From(Start(k)), 1) \in Int
             /\ From(Start(k)) < YearsLater(From(Start(k)), 1)
             /\ LET a == From(Start(k + 1))
                    z == YearsLater(From(Start(k)), 1)
                IN  a = z \/ z = a + 1 \/ (a = z + 2 /\ Missing(z + 1))
  <2>1. PICK s \in Nat : s = Start(k) /\ first <= s /\ k <= s - first /\ ~ Missing(s)
    BY StartSteps
  <2>2. /\ TrainEnd(s) \in Nat /\ From(s) \in Nat /\ To(s) \in Nat
        /\ TrainEnd(s) + 1 <= From(s) /\ s + TrainSpan - 1 <= TrainEnd(s)
        /\ From(s) + TestSpan - 1 <= To(s)
    BY Ends
  <2>3. k <= From(s)
    BY <1>1, <2>1, <2>2, Spans
  <2>4. PICK b \in Nat : b = From(s)
    BY <2>2
  <2>5. /\ YearsLater(b, 1) \in Int /\ b + 1 * Year - 1 <= YearsLater(b, 1)
        /\ YearsLater(b, 1) <= b + 1 * Year
    <3>1. b \in Int /\ 1 \in Int
      OBVIOUS
    <3> QED
      BY <3>1, Moved
  <2>6. b < YearsLater(b, 1)
    BY <2>5, Spans
  <2>7. YearsLater(b, 1) <= To(s)
    <3>1. CASE TestYears = 1
      <4>1. To(s) = YearsLater(b, 1)
        BY <2>4, <3>1 DEF To
      <4> QED
        BY <2>5, <4>1
    <3>2. CASE TestYears # 1
      <4>1. TestYears \in Nat /\ TestYears >= 2 /\ Year \in Nat /\ Year > 3
        BY <3>2, EvaluationAssumption
      <4>2. 2 * Year <= TestYears * Year /\ 2 * Year = Year + Year /\ TestYears * Year \in Nat
        <5>1. PICK m \in Nat : TestYears = m + 2
          <6>1. TestYears - 2 \in Nat /\ TestYears = (TestYears - 2) + 2
            BY <4>1
          <6> QED
            BY <6>1
        <5>2. (m + 2) * Year = m * Year + 2 * Year /\ m * Year \in Nat
          BY <4>1
        <5> QED
          BY <4>1, <5>1, <5>2
      <4>3. Year + 1 <= TestSpan
        BY <4>1, <4>2 DEF TestSpan
      <4> QED
        BY <2>2, <2>4, <2>5, <4>1, <4>3, Spans
    <3> QED
      BY <3>1, <3>2
  <2>8. Start(k + 1) = YearsLater(s, 1)
    BY <2>1, StartSteps
  <2>9. LET a == From(YearsLater(s, 1))
            z == YearsLater(From(s), 1)
        IN  a = z \/ z = a + 1 \/ (a = z + 2 /\ Missing(z + 1))
    BY <2>1, Meet
  <2> QED
    BY <2>1, <2>2, <2>3, <2>4, <2>5, <2>6, <2>7, <2>8, <2>9
<1> DEFINE begun == {k \in 0 .. d : From(Start(k)) <= d}
<1>4. PICK k \in Nat : From(Start(k)) <= d /\ ~ (From(Start(k + 1)) <= d)
  <2>1. 0 \in begun
    BY <1>1, StartSteps
  <2>2. IsFiniteSet(0 .. d)
    BY <1>1, FS_Interval
  <2>3. begun \in SUBSET Int /\ begun \in SUBSET (0 .. d)
    BY <1>1
  <2>4. IsFiniteSet(begun)
    BY <2>2, <2>3, FS_Subset
  <2>5. begun # {}
    BY <2>1
  <2>6. Max(begun) \in begun /\ \A x \in begun : Max(begun) >= x
    <3> HIDE DEF begun
    <3> QED
      BY <2>3, <2>4, <2>5, FiniteMax
  <2>7. PICK k \in begun : \A x \in begun : k >= x
    BY <2>6
  <2>8. k \in Nat /\ k + 1 \in Nat /\ From(Start(k)) <= d
    BY <1>1, <2>7
  <2>9. From(Start(k + 1)) <= d => k + 1 \in begun
    <3>1. From(Start(k + 1)) \in Nat /\ k + 1 <= From(Start(k + 1))
      BY <1>3, <2>8
    <3> QED
      BY <1>1, <2>8, <3>1
  <2>10. ~ (From(Start(k + 1)) <= d)
    BY <2>7, <2>8, <2>9
  <2> QED
    BY <2>8, <2>10
<1>5. d <= To(Start(k))
  <2>1. PICK a \in Int, z \in Int : a = From(Start(k + 1)) /\ z = YearsLater(From(Start(k)), 1)
    <3>1. k + 1 \in Nat
      OBVIOUS
    <3> QED
      BY <1>3, <3>1
  <2>2. d < a /\ (a = z \/ z = a + 1 \/ (a = z + 2 /\ Missing(z + 1))) /\ z <= To(Start(k))
    BY <1>1, <1>3, <1>4, <2>1
  <2>3. d # z + 1 \/ ~ Missing(z + 1)
    BY <1>1
  <2>4. To(Start(k)) \in Nat
    BY <1>3
  <2> QED
    BY <1>1, <2>1, <2>2, <2>3, <2>4
<1>6. CASE From(Start(k)) < last
  BY <1>2, <1>4, <1>5, <1>6
<1>7. CASE ~ (From(Start(k)) < last)
  <2>1. d = last /\ From(Start(k)) = d
    <3>1. From(Start(k)) \in Nat
      BY <1>3
    <3> QED
      BY <1>1, <1>4, <1>7, <3>1
  <2>2. k # 0
    <3>1. SUFFICES ASSUME k = 0 PROVE FALSE
      OBVIOUS
    <3>2. PICK s \in Starts : TRUE
      OBVIOUS
    <3>3. s \in Nat /\ first <= s /\ From(s) < last
      <4>1. s \in Nat /\ \E m \in Nat : s = Start(m)
        BY StartsTyped
      <4>2. From(s) < last
        BY WindowOfStart DEF FromStart
      <4> QED
        BY <4>1, <4>2, StartSteps
    <3>4. From(first) <= From(s) /\ From(first) \in Nat /\ From(s) \in Nat
      BY <1>1, <3>3, InOrder, Ends
    <3>5. Start(0) = first
      BY StartSteps
    <3> QED
      BY <1>1, <1>7, <3>1, <3>3, <3>4, <3>5
  <2>3. PICK p \in Nat : p + 1 = k
    <3>1. k - 1 \in Nat /\ (k - 1) + 1 = k
      BY <2>2
    <3> QED
      BY <3>1
  <2>4. PICK z \in Int : z = YearsLater(From(Start(p)), 1)
    BY <1>3
  <2>5. /\ d = z \/ z = d + 1 \/ (d = z + 2 /\ Missing(z + 1))
        /\ z <= To(Start(p)) /\ From(Start(p)) < z
        /\ To(Start(p)) \in Nat /\ From(Start(p)) \in Nat
    BY <1>3, <2>1, <2>3, <2>4
  <2>6. CASE d = z + 2 /\ Missing(z + 1)
    <3>1. d - 1 = z + 1
      BY <2>4, <2>6
    <3> QED
      BY <2>1, <2>6, <3>1
  <2>7. CASE d = z \/ z = d + 1
    <3>1. From(Start(p)) <= d /\ d <= To(Start(p))
      BY <1>1, <2>4, <2>5, <2>7
    <3>2. From(Start(p)) < last
      <4>1. From(Start(p)) # d
        <5>1. /\ Start(p) \in Nat /\ Start(k) \in Nat /\ Start(p) + 2 < Start(k)
          BY <2>3, StartSteps
        <5>2. TrainEnd(Start(p)) \in Nat /\ TrainEnd(Start(k)) \in Nat
          BY <5>1, Ends
        <5>3. /\ From(Start(p)) <= TrainEnd(Start(p)) + 2
              /\ TrainEnd(Start(p)) <= Start(p) + TrainSpan
              /\ TrainEnd(Start(k)) + 1 <= From(Start(k))
              /\ Start(k) + TrainSpan - 1 <= TrainEnd(Start(k))
          BY <5>1, Ends
        <5> QED
          BY <1>1, <2>1, <2>5, <5>1, <5>2, <5>3, Spans
      <4> QED
        BY <1>1, <2>1, <2>5, <3>1, <4>1
    <3> QED
      BY <1>2, <3>1, <3>2
  <2> QED
    BY <2>5, <2>6, <2>7
<1> QED
  BY <1>6, <1>7

LEMMA SomeFold ==
  ASSUME Typed, FoldsMade, folds # << >>
  PROVE  /\ folds = Folds /\ InSampleDays # {} /\ HoldoutDays # {}
         /\ Len(folds) \in Nat /\ 1 \in 1 .. Len(folds) /\ Len(folds) \in 1 .. Len(folds)
<1>1. folds = Folds /\ ~ NoFolds
  BY DEF FoldsMade
<1>2. Len(folds) \in Nat /\ Len(folds) > 0
  BY <1>1, FoldsShaped DEF Shaped
<1> QED
  BY <1>1, <1>2 DEF NoFolds

LEMMA DaysCovered ==
  ASSUME Typed, FoldsMade, Unbroken, folds # << >>, NEW d \in InSampleDays, TestStart(1) <= d
  PROVE  \/ \E i \in 1 .. Len(folds) : d \in folds[i].test
         \/ d = Max(InSampleDays) /\ Missing(d - 1)
<1>1. folds = Folds /\ InSampleDays # {} /\ 1 \in 1 .. Len(folds)
  BY SomeFold
<1>2. PICK s \in Starts : s = Nth(Starts, 1) /\ folds[1] = Window(Fold(s))
  BY <1>1, FoldsByStart
<1>3. FromStart(folds[1], s) /\ s \in Nat /\ Min(InSampleDays) <= s
  BY <1>1, <1>2, WindowOfStart, StartsTyped, StartSteps
<1>4. /\ TestStart(1) \in InSampleDays /\ TestStart(1) \in Nat
      /\ TestStart(1) \in folds[1].test
  <2>1. /\ TestStart(1) \in InSampleDays /\ TestStart(1) \in Nat /\ TestStart(1) <= TestEnd(1)
        /\ folds[1].test = Within(TestStart(1), TestEnd(1))
    BY <1>1, FoldsAreShaped, FoldBounds
  <2> QED
    BY <2>1, Halves DEF Within
<1>5. From(s) <= TestStart(1)
  BY <1>3, <1>4 DEF FromStart
<1>6. From(Min(InSampleDays)) <= d
  <2>1. Min(InSampleDays) \in Nat /\ d \in Nat
    BY <1>1, InSampleEnds
  <2>2. From(Min(InSampleDays)) <= From(s) /\ From(Min(InSampleDays)) \in Nat /\ From(s) \in Nat
    BY <1>3, <2>1, InOrder, Ends
  <2> QED
    BY <1>4, <1>5, <2>1, <2>2
<1>7. ASSUME NEW t \in Starts, d \in Window(Fold(t)).test
      PROVE  \E i \in 1 .. Len(folds) : d \in folds[i].test
  <2>1. PICK i \in 1 .. Len(Folds) : Nth(Starts, i) = t
    BY <1>1, FoldsByStart
  <2>2. Folds[i] = Window(Fold(t))
    BY <1>1, <2>1, FoldsByStart
  <2> QED
    BY <1>1, <1>7, <2>2
<1> QED
  BY <1>1, <1>2, <1>6, <1>7, EveryDayTested

LEMMA SharedDay ==
  ASSUME Typed, FoldsMade, TestYears = 1,
         NEW i \in 1 .. Len(folds), NEW j \in 1 .. Len(folds), i < j,
         NEW d \in folds[i].test, d \in folds[j].test
  PROVE  \/ d = TestEnd(i) /\ d = TestStart(j)
         \/ TestStart(j) % Year = LeapDay /\ TestEnd(i) = TestStart(j) + 1
<1>1. folds # << >>
  <2>1. folds = << >> => Len(folds) = 0
    OBVIOUS
  <2> QED
    BY <2>1
<1>2. folds = Folds /\ InSampleDays # {}
  BY <1>1, SomeFold
<1>3. PICK s \in Starts : s = Nth(Starts, i) /\ folds[i] = Window(Fold(s))
  BY <1>2, FoldsByStart
<1>4. PICK t \in Starts : t = Nth(Starts, j) /\ folds[j] = Window(Fold(t))
  BY <1>2, FoldsByStart
<1>5. s \in Nat /\ t \in Nat /\ s < t
  BY <1>2, <1>3, <1>4, FoldsByStart, WindowOfStart
<1>6. PICK p \in Nat, q \in Nat : s = Start(p) /\ t = Start(q)
  BY <1>2, StartsTyped
<1>7. p < q
  <2>1. q < p => t + 2 < s
    BY <1>2, <1>6, StartOrder
  <2>2. q # p
    BY <1>5, <1>6
  <2> QED
    BY <1>5, <2>1, <2>2
<1>8. FromStart(folds[i], s) /\ FromStart(folds[j], t)
  BY <1>2, <1>3, <1>4, WindowOfStart
<1>9. d \in InSampleDays /\ d \in Nat /\ d <= To(s) /\ From(t) <= d
  BY <1>2, <1>8, InSampleEnds DEF FromStart
<1>10. /\ TestStart(j) <= d /\ d <= TestEnd(i)
       /\ TestEnd(i) \in folds[i].test /\ TestStart(j) \in folds[j].test
       /\ TestEnd(i) \in Nat /\ TestStart(j) \in Nat
  <2>1. Shaped(folds)
    BY FoldsAreShaped
  <2> QED
    BY <2>1, FoldBounds, Halves DEF Within
<1>11. TestEnd(i) <= To(s) /\ From(t) <= TestStart(j)
  BY <1>8, <1>10 DEF FromStart
<1>12. PICK u \in Nat : u = Start(p + 1) /\ u = YearsLater(s, 1) /\ ~ Missing(s)
  <2>1. p + 1 \in Nat
    OBVIOUS
  <2> QED
    BY <1>2, <1>6, <2>1, StartSteps
<1>13. PICK a \in Nat, z \in Nat : a = From(u) /\ z = To(s) /\ z = YearsLater(From(s), 1)
  <2>1. From(u) \in Nat /\ To(s) \in Nat
    BY <1>5, Ends
  <2> QED
    BY <2>1 DEF To
<1>14. \/ a = z
       \/ z = a + 1 /\ a % Year = LeapDay
       \/ a = z + 2
  BY <1>5, <1>12, <1>13, Meet
<1>15. From(t) \in Nat
  BY <1>5, Ends
<1>16. CASE q = p + 1
  <2>1. From(t) = a
    BY <1>6, <1>12, <1>13, <1>16
  <2>2. CASE a = z
    BY <1>9, <1>10, <1>11, <1>13, <2>1, <2>2
  <2>3. CASE z = a + 1 /\ a % Year = LeapDay
    <3>1. TestStart(j) = a \/ TestStart(j) = d
      BY <1>9, <1>10, <1>11, <1>13, <2>1, <2>3
    <3>2. TestEnd(i) = z \/ TestEnd(i) = d
      BY <1>9, <1>10, <1>11, <1>13, <2>1, <2>3
    <3>3. d = a \/ d = z
      BY <1>9, <1>13, <2>1, <2>3
    <3> QED
      BY <1>10, <2>3, <3>1, <3>2, <3>3
  <2>4. CASE a = z + 2
    BY <1>9, <1>13, <2>1, <2>4
  <2> QED
    BY <1>14, <2>2, <2>3, <2>4
<1>17. CASE q # p + 1
  <2>1. u + 2 < t
    <3>1. p + 1 \in Nat /\ p + 1 < q
      BY <1>7, <1>17
    <3> QED
      BY <1>2, <1>6, <1>12, <3>1, StartOrder
  <2>2. /\ TrainEnd(u) \in Nat /\ TrainEnd(t) \in Nat
        /\ a <= TrainEnd(u) + 2 /\ TrainEnd(u) <= u + TrainSpan
        /\ TrainEnd(t) + 1 <= From(t) /\ t + TrainSpan - 1 <= TrainEnd(t)
    BY <1>5, <1>13, Ends
  <2>3. a + 1 <= From(t)
    BY <1>5, <1>15, <2>1, <2>2, Spans
  <2>4. d = z /\ From(t) = d
    BY <1>9, <1>13, <1>14, <1>15, <2>3
  <2> QED
    BY <1>9, <1>10, <1>11, <1>13, <2>4
<1> QED
  BY <1>16, <1>17

-----------------------------------------------------------------------------
(* What the invariant implies *)

LEMMA NetOfFolds ==
  ASSUME Typed, FoldsMade, PoolSound, WeightsSound, NEW d \in days,
         NEW x \in NetReturn(FoldReads, days, d)
  PROVE  /\ x \in days
         /\ d < Cutoff => x < Cutoff
         /\ strategy.honest => x <= d
<1>1. d \in Nat /\ Cutoff \in Int /\ \A e \in days : e \in Nat
  BY Halves
<1>2. (x \in days /\ x <= d) \/ \E e \in DOMAIN FoldReads : e <= d /\ x \in FoldReads[e]
  BY ReadsOnDays, NetFrom
<1>3. CASE x \in days /\ x <= d
  BY <1>1, <1>3
<1>4. CASE \E e \in DOMAIN FoldReads : e <= d /\ x \in FoldReads[e]
  <2>1. PICK e \in DOMAIN weights : e <= d /\ x \in weights[e].reads
    BY <1>4, ReadsOnDays
  <2>2. PICK f \in 1 .. Len(folds) : f = weights[e].fold
    BY WeightFacts
  <2>3. /\ x \in days /\ x <= TestEnd(f) /\ e \in days
        /\ strategy.honest => x <= e
    BY <2>1, <2>2, WeightFacts
  <2>4. TestEnd(f) \in Nat /\ TestEnd(f) < Cutoff
    BY FoldsAreShaped, FoldBounds
  <2>5. x \in Nat /\ e \in Nat
    BY <1>1, <2>3
  <2>6. d < Cutoff => x < Cutoff
    BY <1>1, <2>3, <2>4, <2>5
  <2>7. strategy.honest => x <= d
    BY <1>1, <2>1, <2>3, <2>5
  <2> QED
    BY <2>3, <2>6, <2>7
<1> QED
  BY <1>2, <1>3, <1>4

LEMMA WithinTests ==
  ASSUME Typed, FoldsMade, folds # << >>, NEW d \in Within(0, TestEnd(Len(folds)))
  PROVE  d \in days /\ d \in Nat /\ d < Cutoff
<1>1. TestEnd(Len(folds)) \in Nat /\ TestEnd(Len(folds)) < Cutoff /\ Cutoff \in Int
  BY SomeFold, FoldsAreShaped, FoldBounds, Halves
<1>2. d \in days /\ d \in Nat /\ d <= TestEnd(Len(folds))
  BY Halves DEF Within
<1> QED
  BY <1>1, <1>2

LEMMA TestsWithin ==
  ASSUME Typed, FoldsMade, folds # << >>
  PROVE  /\ Within(TestStart(1), TestEnd(Len(folds))) \subseteq Within(0, TestEnd(Len(folds)))
         /\ TestStart(1) \in Nat
<1>1. TestStart(1) \in Nat
  BY SomeFold, FoldsAreShaped, FoldBounds
<1> QED
  BY <1>1, Halves DEF Within

LEMMA Blind == EvaluationInv => SearchBlindToHoldout
<1> SUFFICES ASSUME EvaluationInv, Tested
             PROVE  /\ \A d \in DOMAIN pooled : pooled[d].net \cap HoldoutDays = {}
                    /\ Objective \cap HoldoutDays = {}
                    /\ inSample.ratios \cap HoldoutDays \subseteq
                         IF inSample.scaled = 0 THEN {} ELSE {Min(HoldoutDays)}
  BY DEF SearchBlindToHoldout
<1>1. Typed /\ FoldsMade /\ PoolSound /\ WeightsSound /\ PooledSound /\ ReportsSound
  BY DEF EvaluationInv
<1>2. pc \in AfterSignals /\ folds # << >>
  BY DEF EvaluationInv, Phases, Tested, FoldsMade
<1>3. \A x \in days : x < Cutoff => x \notin HoldoutDays
  <2>1. \A x \in days : x \in Nat /\ Cutoff \in Int
    BY <1>1, Halves
  <2> QED
    BY <1>1, <2>1, Halves
<1>4. ASSUME NEW d \in Within(0, TestEnd(Len(folds)))
      PROVE  NetReturn(FoldReads, days, d) \cap HoldoutDays = {}
  <2>1. d \in days /\ d < Cutoff
    BY <1>1, <1>2, WithinTests
  <2>2. \A x \in NetReturn(FoldReads, days, d) : x \in days /\ x < Cutoff
    BY <1>1, <2>1, NetOfFolds
  <2> QED
    BY <1>3, <2>2
<1>5. \A d \in DOMAIN pooled : pooled[d].net \cap HoldoutDays = {}
  <2>1. CASE pooled = << >>
    BY <2>1
  <2>2. CASE pooled # << >>
    BY <1>1, <1>2, <1>4, <2>2, TestsWithin DEF PooledSound
  <2> QED
    BY <2>1, <2>2
<1>6. Objective \cap HoldoutDays = {}
  BY <1>1, <1>2, <1>4, TestsWithin DEF Objective
<1>7. Earned \cap HoldoutDays = {}
  BY <1>4 DEF Earned
<1>8. inSample.scaled # 0 => BenchmarkHistory \cap HoldoutDays \subseteq {Min(HoldoutDays)}
  <2>1. HoldoutDays # {}
    BY <1>1, <1>2, SomeFold
  <2>2. HoldoutDays \in SUBSET Int /\ IsFiniteSet(HoldoutDays)
    <3>1. HoldoutDays \in SUBSET days /\ \A d \in days : d \in Int
      BY <1>1, Halves
    <3> QED
      BY <1>1, <3>1, Halves
  <2>3. Min(HoldoutDays) \in HoldoutDays /\ \A y \in HoldoutDays : Min(HoldoutDays) =< y
    BY <2>1, <2>2, FiniteMin
  <2>4. \A x \in HoldoutDays : x <= Min(HoldoutDays) => x = Min(HoldoutDays)
    <3>1. \A x \in HoldoutDays : x \in Int /\ Min(HoldoutDays) \in Int
      BY <2>2, <2>3
    <3> QED
      BY <2>3, <3>1
  <2> QED
    BY <2>4 DEF BenchmarkHistory
<1>9. inSample.ratios = Earned \cup IF inSample.scaled = 0 THEN {} ELSE BenchmarkHistory
  BY <1>1, <1>2 DEF ReportsSound
<1>10. inSample.ratios \cap HoldoutDays \subseteq
         IF inSample.scaled = 0 THEN {} ELSE {Min(HoldoutDays)}
  BY <1>7, <1>8, <1>9
<1> QED
  BY <1>5, <1>6, <1>10

LEMMA Agreement == EvaluationInv => ObjectiveAgrees
<1> SUFFICES ASSUME EvaluationInv, Kept, inSample.scaled = 0
             PROVE  Objective = inSample.ratios
  BY DEF ObjectiveAgrees
<1>1. Typed /\ FoldsMade /\ PoolSound /\ WeightsSound /\ ReportsSound
  BY DEF EvaluationInv
<1>2. pc \in AfterSignals /\ folds # << >>
  BY DEF EvaluationInv, Phases, Tested, Kept, FoldsMade
<1> DEFINE from == TestStart(1)
           to   == TestEnd(Len(folds))
<1>3. inSample.ratios = Earned
  BY <1>1, <1>2 DEF ReportsSound
<1>4. Objective = UNION {NetReturn(FoldReads, days, d) : d \in Within(from, to)}
  BY <1>2 DEF Objective
<1>5. Within(from, to) \subseteq Within(0, to) /\ from \in Nat
  BY <1>1, <1>2, TestsWithin
<1>6. ASSUME NEW d \in Within(0, to), d \notin Within(from, to)
      PROVE  NetReturn(FoldReads, days, d) = {}
  <2>1. d \in days /\ d \in Nat /\ d < from
    BY <1>1, <1>2, <1>5, <1>6, WithinTests DEF Within
  <2>2. ASSUME NEW e \in DOMAIN FoldReads
        PROVE  d < e
    <3>1. PICK f \in 1 .. Len(folds) : f = weights[e].fold /\ TestStart(f) <= e /\ e \in days
      BY <1>1, ReadsOnDays, WeightFacts
    <3>2. 1 \in 1 .. Len(folds) /\ 1 <= f
      BY <1>1, <1>2, SomeFold
    <3>3. from <= TestStart(f) /\ TestStart(f) \in Nat /\ e \in Nat
      BY <1>1, <3>1, <3>2, FoldsAreShaped, FoldOrder, FoldBounds, Halves
    <3> QED
      BY <1>5, <2>1, <3>1, <3>3
  <2> QED
    BY <1>1, <2>1, <2>2, ReadsOnDays, NothingBefore
<1>7. Earned = UNION {NetReturn(FoldReads, days, d) : d \in Within(from, to)}
  BY <1>5, <1>6 DEF Earned
<1> QED
  BY <1>3, <1>4, <1>7

LEMMA PooledDay ==
  ASSUME EvaluationInv, NEW d \in DOMAIN pooled
  PROVE  /\ folds # << >> /\ d \in InSampleDays /\ d \in Nat /\ TestStart(1) <= d
         /\ d <= TestEnd(Len(folds))
         /\ pooled[d].held = Position(FoldReads, days, d)
         /\ pooled[d].net = NetReturn(FoldReads, days, d)
<1>1. Typed /\ FoldsMade /\ PooledSound
  BY DEF EvaluationInv
<1>2. pooled # << >>
  OBVIOUS
<1>3. /\ folds # << >>
      /\ d \in Within(TestStart(1), TestEnd(Len(folds)))
      /\ pooled[d] = [held |-> Position(FoldReads, days, d),
                      net  |-> NetReturn(FoldReads, days, d)]
  BY <1>1, <1>2 DEF PooledSound
<1>4. d \in Within(0, TestEnd(Len(folds)))
  BY <1>1, <1>3, TestsWithin
<1>5. d \in days /\ d \in Nat /\ d < Cutoff
  BY <1>1, <1>3, <1>4, WithinTests
<1>6. d \in InSampleDays /\ TestStart(1) <= d /\ d <= TestEnd(Len(folds))
  BY <1>1, <1>3, <1>5, Halves DEF Within
<1> QED
  BY <1>3, <1>5, <1>6

\* The last fold that tests a day knows all that the day's return depends on.
LEMMA LastTester ==
  ASSUME Typed, FoldsMade, PoolSound, WeightsSound, NEW d \in days,
         NEW i \in 1 .. Len(folds), d \in folds[i].test,
         \A j \in 1 .. Len(folds) : d \in folds[j].test => j <= i,
         NEW x \in NetReturn(FoldReads, days, d)
  PROVE  x <= TestEnd(i)
<1>1. Shaped(folds) /\ d \in Nat
  BY FoldsAreShaped, Halves
<1>2. d <= TestEnd(i) /\ TestEnd(i) \in Nat
  BY <1>1, FoldBounds DEF Within
<1>3. (x \in days /\ x <= d) \/ \E e \in DOMAIN FoldReads : e <= d /\ x \in FoldReads[e]
  BY ReadsOnDays, NetFrom
<1>4. CASE x \in days /\ x <= d
  <2>1. x \in Nat
    BY <1>4, Halves
  <2> QED
    BY <1>1, <1>2, <1>4, <2>1
<1>5. CASE \E e \in DOMAIN FoldReads : e <= d /\ x \in FoldReads[e]
  <2>1. PICK e \in DOMAIN weights : e <= d /\ x \in weights[e].reads
    BY <1>5, ReadsOnDays
  <2>2. PICK f \in 1 .. Len(folds) : f = weights[e].fold
    BY WeightFacts
  <2>3. x \in days /\ x <= TestEnd(f) /\ e \in days /\ TestStart(f) <= e
    BY <2>1, <2>2, WeightFacts
  <2>4. /\ TestEnd(f) \in Nat /\ TestStart(f) \in Nat /\ x \in Nat /\ e \in Nat
        /\ folds[f].test = Within(TestStart(f), TestEnd(f))
    BY <1>1, <2>3, FoldBounds, Halves
  <2>5. CASE d <= TestEnd(f)
    <3>1. TestStart(f) <= d
      BY <1>1, <2>1, <2>3, <2>4
    <3>2. d \in folds[f].test
      BY <2>4, <2>5, <3>1 DEF Within
    <3>3. f <= i
      BY <3>2
    <3>4. TestEnd(f) <= TestEnd(i)
      BY <1>1, <3>3, FoldOrder
    <3> QED
      BY <1>2, <2>3, <2>4, <3>4
  <2>6. CASE ~ (d <= TestEnd(f))
    BY <1>1, <1>2, <2>3, <2>4, <2>6
  <2> QED
    BY <2>5, <2>6
<1> QED
  BY <1>3, <1>4, <1>5

LEMMA Lookahead == EvaluationInv /\ Unbroken => NoLookahead
<1> SUFFICES ASSUME EvaluationInv, Unbroken, NEW d \in DOMAIN pooled
             PROVE  /\ strategy.honest =>
                         (\A e \in pooled[d].held : e < d) /\ (\A e \in pooled[d].net : e <= d)
                    /\ \E i \in DOMAIN folds :
                         d \in folds[i].test /\ \A e \in pooled[d].net : e <= TestEnd(i)
  BY DEF NoLookahead
<1>1. Typed /\ FoldsMade /\ PoolSound /\ WeightsSound
  BY DEF EvaluationInv
<1>2. /\ folds # << >> /\ d \in InSampleDays /\ d \in Nat /\ TestStart(1) <= d /\ d \in days
      /\ pooled[d].held = Position(FoldReads, days, d)
      /\ pooled[d].net = NetReturn(FoldReads, days, d)
  BY <1>1, PooledDay, Halves
<1>3. ASSUME strategy.honest, NEW x \in pooled[d].held
      PROVE  x < d
  <2>1. PICK e \in DOMAIN weights : e < d /\ x \in weights[e].reads
    BY <1>1, <1>2, <1>3, ReadsOnDays, PositionFrom
  <2>2. x \in days /\ x <= e /\ e \in days
    BY <1>1, <1>3, <2>1, WeightFacts
  <2>3. x \in Nat /\ e \in Nat
    BY <1>1, <2>2, Halves
  <2> QED
    BY <1>2, <2>1, <2>2, <2>3
<1>4. strategy.honest => \A x \in pooled[d].net : x <= d
  BY <1>1, <1>2, NetOfFolds
<1>5. \E i \in DOMAIN folds : d \in folds[i].test /\ \A e \in pooled[d].net : e <= TestEnd(i)
  <2> DEFINE by == {i \in 1 .. Len(folds) : d \in folds[i].test}
  <2>1. Shaped(folds) /\ Len(folds) \in Nat /\ DOMAIN folds = 1 .. Len(folds)
    BY <1>1, FoldsAreShaped DEF Shaped
  <2>2. by # {}
    <3>1. CASE d = Max(InSampleDays)
      <4>1. Len(folds) \in 1 .. Len(folds)
        BY <1>1, <1>2, SomeFold
      <4>2. /\ TestEnd(Len(folds)) \in InSampleDays /\ TestEnd(Len(folds)) \in Nat
            /\ TestStart(Len(folds)) \in Nat /\ TestStart(Len(folds)) <= TestEnd(Len(folds))
            /\ folds[Len(folds)].test = Within(TestStart(Len(folds)), TestEnd(Len(folds)))
        BY <2>1, <4>1, <1>1, FoldBounds
      <4>3. TestEnd(Len(folds)) <= d
        BY <1>1, <1>2, <3>1, <4>2, InSampleEnds
      <4>4. d <= TestEnd(Len(folds))
        BY <1>1, PooledDay
      <4>5. d = TestEnd(Len(folds))
        BY <1>2, <4>2, <4>3, <4>4
      <4>6. d \in folds[Len(folds)].test
        BY <1>2, <4>2, <4>5 DEF Within
      <4> QED
        BY <4>1, <4>6
    <3>2. CASE d # Max(InSampleDays)
      BY <1>1, <1>2, <3>2, DaysCovered
    <3> QED
      BY <3>1, <3>2
  <2>3. by \in SUBSET (1 .. Len(folds)) /\ by \in SUBSET Int
    OBVIOUS
  <2>4. IsFiniteSet(by)
    <3>1. IsFiniteSet(1 .. Len(folds))
      BY <2>1, FS_Interval
    <3> QED
      BY <2>3, <3>1, FS_Subset
  <2>5. Max(by) \in by /\ \A j \in by : Max(by) >= j
    BY <2>2, <2>3, <2>4, FiniteMax
  <2>6. PICK i \in by : \A j \in by : j <= i
    BY <2>1, <2>5
  <2>7. \A j \in 1 .. Len(folds) : d \in folds[j].test => j <= i
    BY <2>6
  <2>8. \A x \in pooled[d].net : x <= TestEnd(i)
    BY <1>1, <1>2, <2>6, <2>7, LastTester
  <2> QED
    BY <2>1, <2>6, <2>8
<1> QED
  BY <1>3, <1>4, <1>5

LEMMA TestedOnce == EvaluationInv /\ Unbroken /\ TestYears = 1 => EachDayTestedOnce
<1> SUFFICES ASSUME EvaluationInv, Unbroken, TestYears = 1, Tested,
                    NEW d \in InSampleDays, d >= TestStart(1)
             PROVE  LET by == {i \in DOMAIN folds : d \in folds[i].test}
                    IN  /\ by = {} => d = Max(InSampleDays) /\ Missing(d - 1)
                        /\ \A i, j \in by : i < j =>
                             \/ d = TestEnd(i) /\ d = TestStart(j)
                             \/ TestStart(j) % Year = LeapDay /\ TestEnd(i) = TestStart(j) + 1
                        /\ by # {} /\ d \in strategy.rebalances => d \in DOMAIN weights
                        /\ d \in DOMAIN weights =>
                             weights[d].fold \in by /\ Max(folds[weights[d].fold].train) < d
  BY DEF EachDayTestedOnce
<1> DEFINE by == {i \in DOMAIN folds : d \in folds[i].test}
<1>1. Typed /\ FoldsMade /\ PoolSound /\ WeightsSound
  BY DEF EvaluationInv
<1>2. pc \in AfterSignals /\ folds # << >> /\ Len(tasks) = Len(folds)
  BY DEF EvaluationInv, Phases, Tested, FoldsMade, PoolSound
<1>3. Shaped(folds) /\ DOMAIN folds = 1 .. Len(folds)
  BY <1>1, FoldsAreShaped DEF Shaped
<1>4. d \in days /\ d \in Nat /\ TestStart(1) \in Nat /\ TestStart(1) <= d
  BY <1>1, <1>2, TestsWithin, Halves
<1>5. by = {} => d = Max(InSampleDays) /\ Missing(d - 1)
  BY <1>1, <1>2, <1>3, <1>4, DaysCovered
<1>6. \A i, j \in by : i < j =>
        \/ d = TestEnd(i) /\ d = TestStart(j)
        \/ TestStart(j) % Year = LeapDay /\ TestEnd(i) = TestStart(j) + 1
  BY <1>1, <1>3, SharedDay
<1>7. ASSUME by # {}
      PROVE  d \in strategy.rebalances => d \in DOMAIN weights
  <2>0. PICK k \in 1 .. Len(folds) : d \in folds[k].test
    BY <1>3, <1>7
  <2>1. d \in Shown(k)
    BY <1>1, <1>3, <1>4, <2>0, FoldBounds DEF Shown, Within
  <2>2. d \in strategy.rebalances => d \in Given(Shown(k))
    BY <2>1 DEF Given
  <2> QED
    BY <1>1, <1>2, <2>0, <2>2 DEF WeightsSound
<1>8. ASSUME d \in DOMAIN weights
      PROVE  weights[d].fold \in by /\ Max(folds[weights[d].fold].train) < d
  <2>1. PICK f \in 1 .. Len(folds) : f = weights[d].fold /\ \A x \in folds[f].train : x < d
    BY <1>1, <1>8, WeightFacts
  <2>2. d \in folds[f].test
    BY <1>1, <1>8, <2>1 DEF WeightsSound
  <2>3. folds[f].train \in SUBSET InSampleDays /\ folds[f].train # {}
    BY <1>1, <1>3, FoldBounds
  <2>4. IsFiniteSet(folds[f].train)
    BY <1>1, <2>3, Halves, FS_Subset
  <2>5. folds[f].train \in SUBSET Int
    BY <1>1, <2>3, Halves
  <2>6. Max(folds[f].train) \in folds[f].train
    BY <2>3, <2>4, <2>5, FiniteMax
  <2> QED
    BY <1>3, <2>1, <2>2, <2>6
<1> QED
  BY <1>3, <1>5, <1>6, <1>7, <1>8

LEMMA ReportOrder == EvaluationInv => FoldReportsInOrder
<1> SUFFICES ASSUME EvaluationInv, pc \in AfterPool
             PROVE  /\ Len(reports) = Len(folds)
                    /\ \A i \in DOMAIN folds :
                         /\ <<reports[i].from, reports[i].to>> = <<TestStart(i), TestEnd(i)>>
                         /\ reports[i].scaled = 0 => \A d \in reports[i].ratios : d <= TestEnd(i)
                         /\ reports[i].scaled = inSample.scaled
  BY DEF FoldReportsInOrder, AfterPool
<1>1. Typed /\ FoldsMade /\ PoolSound /\ ReportsSound
  BY DEF EvaluationInv
<1>2. Len(tasks) = Len(folds) /\ Len(reports) = Len(tasks)
  BY <1>1 DEF PoolSound, AfterPool, AfterSignals
<1>3. DOMAIN folds = 1 .. Len(folds) /\ DOMAIN reports = 1 .. Len(reports) /\ DOMAIN tasks = 1 .. Len(tasks)
  BY <1>1, FoldsAreShaped, LenProperties DEF Shaped, PoolSound
<1>4. \A i \in DOMAIN folds : tasks[i] = "done"
  BY <1>1, <1>2, <1>3 DEF PoolSound
<1> QED
  BY <1>1, <1>2, <1>3, <1>4 DEF ReportsSound

LEMMA Types == EvaluationInv => TypeOK
<1> SUFFICES ASSUME EvaluationInv PROVE TypeOK
  OBVIOUS
<1>1. Typed /\ Phases /\ FoldsMade /\ PoolSound /\ WeightsSound /\ ReportsSound /\ FullSound
  BY DEF EvaluationInv
<1>2. Shaped(folds) /\ DOMAIN folds = 1 .. Len(folds)
  BY <1>1, FoldsAreShaped DEF Shaped
<1>3. \A i \in DOMAIN folds :
        /\ folds[i].train \subseteq days /\ folds[i].train # {}
        /\ folds[i].test \subseteq days /\ folds[i].test # {}
  <2> SUFFICES ASSUME NEW i \in 1 .. Len(folds)
               PROVE  /\ folds[i].train \subseteq days /\ folds[i].train # {}
                      /\ folds[i].test \subseteq days /\ folds[i].test # {}
    BY <1>2
  <2>1. /\ TestStart(i) \in Nat /\ TestEnd(i) \in Nat /\ TestStart(i) <= TestEnd(i)
        /\ TestStart(i) \in days /\ folds[i].test = Within(TestStart(i), TestEnd(i))
        /\ folds[i].train \subseteq InSampleDays /\ folds[i].train # {}
    BY <1>1, <1>2, FoldBounds, Halves
  <2>2. TestStart(i) \in folds[i].test
    BY <2>1 DEF Within
  <2> QED
    BY <1>1, <2>1, <2>2, Halves DEF Within
<1>4. \A d \in DOMAIN weights : weights[d].fold \in DOMAIN folds /\ weights[d].reads \subseteq days
  BY <1>1, <1>2, WeightFacts
<1>5. \A d \in DOMAIN pooled : pooled[d].held \subseteq days /\ pooled[d].net \subseteq days
  <2> SUFFICES ASSUME NEW d \in DOMAIN pooled
               PROVE  pooled[d].held \subseteq days /\ pooled[d].net \subseteq days
    OBVIOUS
  <2>1. /\ d \in days /\ d \in Nat
        /\ pooled[d].held = Position(FoldReads, days, d)
        /\ pooled[d].net = NetReturn(FoldReads, days, d)
    BY <1>1, PooledDay, Halves
  <2>2. pooled[d].net \subseteq days
    BY <1>1, <2>1, NetOfFolds
  <2>3. pooled[d].held \subseteq pooled[d].net
    BY <2>1 DEF NetReturn
  <2> QED
    BY <2>2, <2>3
<1>6. Len(tasks) <= Len(folds) /\ Cardinality(Running) <= MaxWorkers
  BY <1>1 DEF PoolSound
<1>7. \A r \in ReportType : IsReport(r)
  BY DEF ReportType, IsReport
<1>8. IsReport(inSample) /\ IsReport(holdout) /\ \A i \in DOMAIN reports : IsReport(reports[i])
  <2>1. \A i \in DOMAIN reports : reports[i] \in ReportType
    BY <1>1, ElementOfSeq, LenProperties DEF PoolSound
  <2> QED
    BY <1>1, <1>7, <2>1 DEF ReportsSound
<1>9. DOMAIN full \subseteq days /\ regime.reads \subseteq days /\ regime.passed \in BOOLEAN
  BY <1>1 DEF FullSound
<1> QED
  BY <1>1, <1>3, <1>4, <1>5, <1>6, <1>8, <1>9
     DEF TypeOK, Typed, Phases, AfterSignals, AfterPool

-----------------------------------------------------------------------------
(* The invariant holds *)

LEMMA SameCalendar ==
  ASSUME days' = days
  PROVE  /\ InSampleDays' = InSampleDays /\ HoldoutDays' = HoldoutDays
         /\ Folds' = Folds /\ (NoFolds' <=> NoFolds) /\ ReportType' = ReportType
         /\ \A a, b : Within(a, b)' = Within(a, b)
         /\ BenchmarkHistory' = BenchmarkHistory
<1>1. InSampleDays' = InSampleDays /\ HoldoutDays' = HoldoutDays
  BY DEF InSampleDays, HoldoutDays, Cutoff
<1>2. \A a, b : Within(a, b)' = Within(a, b)
  BY DEF Within
<1>3. \A s : Fold(s)' = Fold(s)
  BY <1>1, <1>2 DEF Fold
<1>4. Starts' = Starts
  <2>1. \A k : Start(k)' = Start(k)
    BY <1>1 DEF Start
  <2> QED
    BY <1>1, <1>3, <2>1 DEF Starts
<1>5. Folds' = Folds
  BY <1>3, <1>4 DEF Folds, Window, Nth
<1>6. BenchmarkHistory' = BenchmarkHistory
  BY <1>1 DEF BenchmarkHistory
<1> QED
  BY <1>1, <1>2, <1>5, <1>6 DEF NoFolds, ReportType

LEMMA SameFolds ==
  ASSUME days' = days, strategy' = strategy, folds' = folds
  PROVE  /\ \A i : TestStart(i)' = TestStart(i) /\ TestEnd(i)' = TestEnd(i)
         /\ \A i : Shown(i)' = Shown(i)
         /\ \A p : Given(p)' = Given(p)
         /\ \A p, d : Seen(p, d)' = Seen(p, d)
<1>1. \A i : TestStart(i)' = TestStart(i) /\ TestEnd(i)' = TestEnd(i)
  BY DEF TestStart, TestEnd
<1>2. \A i : Shown(i)' = Shown(i)
  BY <1>1, SameCalendar DEF Shown
<1>3. \A p : Given(p)' = Given(p)
  BY DEF Given
<1>4. \A p, d : Seen(p, d)' = Seen(p, d)
  BY DEF Seen
<1> QED
  BY <1>1, <1>2, <1>3, <1>4

LEMMA SameReturns ==
  ASSUME days' = days, strategy' = strategy, weights' = weights
  PROVE  /\ FoldReads' = FoldReads
         /\ \A d : NetReturn(FoldReads, days, d)' = NetReturn(FoldReads, days, d)
         /\ \A d : Position(FoldReads, days, d)' = Position(FoldReads, days, d)
<1>1. FoldReads' = FoldReads
  BY DEF FoldReads
<1>2. \A d : Held(FoldReads, d)' = Held(FoldReads, d)
  BY <1>1 DEF Held
<1>3. \A d : Position(FoldReads, days, d)' = Position(FoldReads, days, d)
  BY <1>1 DEF Position, Held, Before
<1>4. \A d : AssetReturn(d)' = AssetReturn(d)
  BY DEF AssetReturn, Before
<1>5. \A d : NetReturn(FoldReads, days, d)' = NetReturn(FoldReads, days, d)
  BY <1>2, <1>3, <1>4 DEF NetReturn, Before
<1> QED
  BY <1>1, <1>3, <1>5

LEMMA KeepFolds ==
  ASSUME FoldsMade, UNCHANGED <<inputs, folds>>,
         pc' # "load", pc' \in AfterSignals \cup {"signals"} => pc \in AfterSignals \cup {"signals"}
  PROVE  FoldsMade'
BY SameCalendar DEF FoldsMade, inputs

LEMMA KeepWeights ==
  ASSUME WeightsSound, UNCHANGED <<inputs, folds, weights>>, Len(tasks') = Len(tasks)
  PROVE  WeightsSound'
<1>1. /\ \A i : Shown(i)' = Shown(i) /\ \A p : Given(p)' = Given(p)
      /\ \A p, d : Seen(p, d)' = Seen(p, d)
  BY SameFolds DEF inputs
<1>2. \A i : Given(Shown(i))' = Given(Shown(i))
  BY <1>1 DEF Given, inputs
<1>3. \A i, d : Seen(Shown(i), d)' = Seen(Shown(i), d)
  BY <1>1 DEF Seen, inputs
<1>4. \A d \in DOMAIN weights :
        /\ weights[d].fold \in 1 .. Len(tasks')
        /\ d \in folds[weights[d].fold].test
        /\ weights[d].reads = Seen(Shown(weights[d].fold), d)'
        /\ \A i \in 1 .. Len(tasks') : d \in folds[i].test => weights[d].fold <= i
  <2> SUFFICES ASSUME NEW d \in DOMAIN weights
               PROVE  weights[d].reads = Seen(Shown(weights[d].fold), d)'
    BY DEF WeightsSound
  <2>1. PICK f : f = weights[d].fold
    OBVIOUS
  <2>2. Shown(weights[d].fold)' = Shown(weights[d].fold)
    BY SameCalendar DEF Shown, TestEnd, inputs, Within
  <2> QED
    BY <2>2 DEF WeightsSound, Seen, inputs
<1>5. \A i \in 1 .. Len(tasks') : Given(Shown(i))' \cap folds[i].test \subseteq DOMAIN weights
  BY <1>2 DEF WeightsSound
<1> QED
  BY <1>4, <1>5 DEF WeightsSound

LEMMA KeepPooled ==
  ASSUME PooledSound, UNCHANGED <<inputs, folds, weights, pooled>>, Len(tasks') = Len(tasks),
         pc \in AfterSignals \cup {"failed"} => pc' \in AfterSignals \cup {"failed"}
  PROVE  PooledSound'
<1>1. TestStart(1)' = TestStart(1) /\ TestEnd(Len(folds))' = TestEnd(Len(folds))
  BY DEF TestStart, TestEnd
<1>2. Within(TestStart(1), TestEnd(Len(folds)))' = Within(TestStart(1), TestEnd(Len(folds)))
  BY <1>1 DEF Within, inputs
<1>3. /\ \A d : NetReturn(FoldReads, days, d)' = NetReturn(FoldReads, days, d)
      /\ \A d : Position(FoldReads, days, d)' = Position(FoldReads, days, d)
  BY SameReturns DEF inputs
<1>4. UNCHANGED <<folds, pooled>>
  OBVIOUS
<1> QED
  BY <1>2, <1>3, <1>4 DEF PooledSound

LEMMA KeepEarned ==
  ASSUME UNCHANGED <<inputs, folds, weights>>
  PROVE  Earned' = Earned /\ BenchmarkHistory' = BenchmarkHistory
<1>1. TestEnd(Len(folds))' = TestEnd(Len(folds))
  BY DEF TestEnd
<1>2. Within(0, TestEnd(Len(folds)))' = Within(0, TestEnd(Len(folds)))
  BY <1>1 DEF Within, inputs
<1>3. \A d : NetReturn(FoldReads, days, d)' = NetReturn(FoldReads, days, d)
  BY SameReturns DEF inputs
<1> QED
  BY <1>2, <1>3, SameCalendar DEF Earned, inputs

\* A step that leaves what has been computed of the folds as it is
LEMMA Onward ==
  ASSUME EvaluationInv,
         UNCHANGED <<inputs, folds, weights, pooled, inSample, poolVars>>,
         pc \notin {"rejected", "done"}, pc' \in AfterSignals \cup {"failed"}, pc' # "rejected",
         pc' # "failed" => pc \in AfterSignals,
         pc' \in AfterPool => \A i \in DOMAIN tasks : tasks[i] = "done",
         holdout' \in ReportType, holdout'.scaled = 0,
         FullSound'
  PROVE  EvaluationInv'
<1>1. /\ Typed /\ Phases /\ FoldsMade /\ PoolSound /\ WeightsSound /\ PooledSound
      /\ ReportsSound /\ FullSound
  BY DEF EvaluationInv
<1>2. UNCHANGED <<days, strategy, folds, weights, pooled, inSample, tasks, reports>>
  BY DEF inputs, poolVars
<1>3. "load" \notin AfterSignals \cup {"failed"} /\ "signals" \notin AfterSignals \cup {"failed"}
  BY DEF AfterSignals, AfterPool
<1>4. Typed' /\ Phases'
  BY <1>1, <1>2 DEF Typed, Phases
<1>5. FoldsMade'
  BY <1>1, <1>3, KeepFolds DEF AfterSignals, AfterPool
<1>6. PoolSound'
  <2>1. ReportType' = ReportType
    BY <1>2, SameCalendar
  <2>2. Running' = Running
    BY <1>2 DEF Running
  <2>3. pc' \in AfterSignals => Len(tasks) = Len(folds)
    BY <1>1 DEF PoolSound, AfterSignals, AfterPool
  <2> QED
    BY <1>1, <1>2, <2>1, <2>2, <2>3 DEF PoolSound
<1>7. WeightsSound' /\ PooledSound'
  BY <1>1, <1>2, KeepWeights, KeepPooled
<1>8. ReportsSound'
  <2>1. Earned' = Earned /\ ReportType' = ReportType
    BY <1>2, KeepEarned, SameCalendar
  <2>2. inSample.scaled = 0
    BY <1>1 DEF ReportsSound
  <2>3. pc' \in AfterSignals => pc \in AfterSignals
    BY DEF AfterSignals, AfterPool
  <2>4. inSample'.ratios = inSample.ratios /\ inSample'.scaled = 0
    BY <1>2, <2>2
  <2>5. pc' \in AfterSignals => inSample'.ratios = Earned'
    BY <1>1, <2>1, <2>2, <2>3, <2>4 DEF ReportsSound
  <2>6. \A i : TestStart(i)' = TestStart(i) /\ TestEnd(i)' = TestEnd(i)
    BY <1>2 DEF TestStart, TestEnd
  <2>7. \A i \in DOMAIN reports' :
          /\ reports'[i].scaled = inSample'.scaled
          /\ tasks'[i] = "done" =>
               /\ reports'[i].from = TestStart(i)' /\ reports'[i].to = TestEnd(i)'
               /\ reports'[i].scaled = 0 => \A d \in reports'[i].ratios : d <= TestEnd(i)'
    BY <1>1, <1>2, <2>6 DEF ReportsSound
  <2>8. inSample' \in ReportType' /\ holdout' \in ReportType'
    BY <1>1, <1>2, <2>1 DEF ReportsSound
  <2> QED
    BY <2>4, <2>5, <2>7, <2>8 DEF ReportsSound
<1> QED
  BY <1>4, <1>5, <1>6, <1>7, <1>8 DEF EvaluationInv

LEMMA KeepFull ==
  ASSUME FullSound, UNCHANGED <<inputs, full, regime>>
  PROVE  FullSound'
BY DEF FullSound, inputs

LEMMA FailsSafely ==
  ASSUME EvaluationInv, Fails, pc \notin {"rejected", "done"}
  PROVE  EvaluationInv'
<1>1. FullSound'
  BY KeepFull DEF EvaluationInv, Fails
<1>2. "failed" \notin AfterPool
  BY DEF AfterPool
<1> QED
  BY <1>1, <1>2, Onward DEF Fails, EvaluationInv, ReportsSound

LEMMA NoReportTyped == NoReport \in ReportType /\ NoReport.scaled = 0
BY DEF NoReport, Report, ReportType

LEMMA Starting == Init => EvaluationInv
<1> SUFFICES ASSUME Init PROVE EvaluationInv
  OBVIOUS
<1> USE DEF Init
<1>1. "load" \notin AfterSignals /\ "load" \notin AfterPool
  BY DEF AfterSignals, AfterPool
<1>2. Typed /\ Phases /\ FoldsMade
  BY <1>1 DEF Typed, Phases, FoldsMade
<1>3. PoolSound
  <2>1. Running = {}
    BY DEF Running
  <2>2. Cardinality(Running) <= MaxWorkers
    BY <2>1, FS_EmptySet, EvaluationAssumption
  <2>3. tasks \in Seq(States) /\ reports \in Seq(ReportType)
        /\ Len(tasks) = 0 /\ Len(folds) = 0 /\ Len(reports) = 0
    BY EmptySeq
  <2> QED
    BY <1>1, <2>2, <2>3 DEF PoolSound
<1>4. WeightsSound
  <2>1. Len(tasks) = 0 /\ DOMAIN weights = {}
    OBVIOUS
  <2> QED
    BY <2>1 DEF WeightsSound
<1>5. PooledSound
  BY DEF PooledSound
<1>6. ReportsSound
  BY <1>1, NoReportTyped DEF ReportsSound
<1>7. FullSound
  BY DEF FullSound
<1> QED
  BY <1>2, <1>3, <1>4, <1>5, <1>6, <1>7 DEF EvaluationInv

LEMMA WindowReportReads ==
  ASSUME Typed, NEW w, DOMAIN w \subseteq days, \A d \in DOMAIN w : w[d] \subseteq days,
         NEW window \in SUBSET days, window # {}
  PROVE  /\ WindowReport(w, window) \in ReportType
         /\ WindowReport(w, window).scaled = 0
         /\ WindowReport(w, window).from = Min(window)
         /\ WindowReport(w, window).to = Max(window)
         /\ \A x \in WindowReport(w, window).ratios :
              \E d \in window : x <= d \/ \E e \in DOMAIN w \cap window : x \in w[e]
<1> DEFINE own == Restricted(w, window)
           reads == UNION {NetReturn(own, window, d) : d \in window}
<1>1. DOMAIN own = DOMAIN w \cap window /\ \A e \in DOMAIN own : own[e] = w[e]
  BY DEF Restricted
<1>2. ASSUME NEW d \in window, NEW x \in NetReturn(own, window, d)
      PROVE  x \in days /\ (x <= d \/ \E e \in DOMAIN w \cap window : x \in w[e])
  <2>1. d \in days /\ DOMAIN own \subseteq days
    BY <1>1
  <2>2. (x \in days /\ x <= d) \/ \E e \in DOMAIN own : e <= d /\ x \in own[e]
    BY <2>1, NetFrom
  <2> QED
    BY <1>1, <2>2
<1>3. reads \in SUBSET days
  BY <1>2
<1>4. Min(window) \in Nat /\ Max(window) \in Nat
  <2>1. IsFiniteSet(window) /\ \A d \in window : d \in Nat
    BY Halves, FS_Subset
  <2>2. window \in SUBSET Int
    BY <2>1
  <2>3. Min(window) \in window /\ Max(window) \in window
    BY <2>1, <2>2, FiniteMin, FiniteMax
  <2> QED
    BY <2>1, <2>3
<1>5. WindowReport(w, window) = [from |-> Min(window), to |-> Max(window), ratios |-> reads,
                                 turnover |-> reads, scaled |-> 0]
  BY DEF WindowReport, Report
<1>6. WindowReport(w, window) \in ReportType
  BY <1>3, <1>4, <1>5 DEF ReportType
<1>7. \A x \in reads : \E d \in window : x <= d \/ \E e \in DOMAIN w \cap window : x \in w[e]
  BY <1>2
<1> QED
  BY <1>5, <1>6, <1>7

\* The report of a fold is the fold's own, and reads nothing after its test.
LEMMA FoldReport ==
  ASSUME Typed, FoldsMade, PoolSound, WeightsSound, Len(tasks) = Len(folds),
         NEW i \in 1 .. Len(folds)
  PROVE  LET r == WindowReport(FoldReads, Within(TestStart(i), TestEnd(i)))
         IN  /\ r \in ReportType /\ r.scaled = 0
             /\ r.from = TestStart(i) /\ r.to = TestEnd(i)
             /\ \A x \in r.ratios : x <= TestEnd(i)
<1> DEFINE window == Within(TestStart(i), TestEnd(i))
           r == WindowReport(FoldReads, window)
<1>1. Shaped(folds)
  BY FoldsAreShaped
<1>2. /\ TestStart(i) \in Nat /\ TestEnd(i) \in Nat /\ TestStart(i) <= TestEnd(i)
      /\ TestStart(i) \in days /\ TestEnd(i) \in days /\ folds[i].test = window
  BY <1>1, FoldBounds, Halves
<1>3. /\ TestStart(i) \in window /\ TestEnd(i) \in window /\ window \in SUBSET days
      /\ \A d \in window : d \in Nat /\ TestStart(i) <= d /\ d <= TestEnd(i)
  BY <1>2, Halves DEF Within
<1>4. Min(window) = TestStart(i) /\ Max(window) = TestEnd(i)
  <2>1. IsFiniteSet(window)
    BY <1>3, Halves, FS_Subset
  <2>2. window \in SUBSET Int
    BY <1>3
  <2>3. /\ Min(window) \in window /\ \A y \in window : Min(window) =< y
        /\ Max(window) \in window /\ \A y \in window : Max(window) >= y
    BY <1>3, <2>1, <2>2, FiniteMin, FiniteMax
  <2>4. Min(window) <= TestStart(i) /\ TestStart(i) <= Min(window)
    BY <1>3, <2>3
  <2>5. Max(window) <= TestEnd(i) /\ TestEnd(i) <= Max(window)
    BY <1>3, <2>3
  <2>6. Min(window) \in Nat /\ Max(window) \in Nat
    BY <1>3, <2>3
  <2> QED
    BY <1>2, <2>4, <2>5, <2>6
<1>5. /\ r \in ReportType /\ r.scaled = 0 /\ r.from = Min(window) /\ r.to = Max(window)
      /\ \A x \in r.ratios :
           \E d \in window : x <= d \/ \E e \in DOMAIN FoldReads \cap window : x \in FoldReads[e]
  BY <1>3, ReadsOnDays, WindowReportReads
<1>6. ASSUME NEW x \in r.ratios
      PROVE  x <= TestEnd(i)
  <2>1. PICK d \in window :
          x <= d \/ \E e \in DOMAIN FoldReads \cap window : x \in FoldReads[e]
    BY <1>5
  <2>2. x \in Nat
    <3>1. r.ratios \in SUBSET days
      BY <1>5 DEF ReportType
    <3> QED
      BY <3>1, Halves
  <2>3. CASE x <= d
    BY <1>2, <1>3, <2>1, <2>2, <2>3
  <2>4. CASE \E e \in DOMAIN FoldReads \cap window : x \in FoldReads[e]
    <3>1. PICK e \in DOMAIN weights : e \in folds[i].test /\ x \in weights[e].reads
      BY <1>2, <2>4, ReadsOnDays
    <3>2. PICK f \in 1 .. Len(folds) : f = weights[e].fold /\ x <= TestEnd(f)
      BY <3>1, WeightFacts
    <3>3. f <= i
      BY <3>1, <3>2 DEF WeightsSound
    <3>4. TestEnd(f) <= TestEnd(i) /\ TestEnd(f) \in Nat
      BY <1>1, <3>3, FoldOrder, FoldBounds
    <3> QED
      BY <1>2, <2>2, <3>2, <3>4
  <2> QED
    BY <2>1, <2>3, <2>4
<1> QED
  BY <1>4, <1>5, <1>6

LEMMA GivenDays ==
  ASSUME NEW p \in SUBSET days, Typed, p # {}
  PROVE  Given(p) \subseteq p
<1>1. IsFiniteSet(p) /\ \A d \in p : d \in Nat
  BY Halves, FS_Subset
<1>2. p \in SUBSET Int
  BY <1>1
<1>3. Max(p) \in p
  BY <1>1, <1>2, FiniteMax
<1> QED
  BY <1>3 DEF Given

LEMMA PartitionSafe ==
  ASSUME EvaluationInv, Partition
  PROVE  EvaluationInv'
<1>1. /\ Typed /\ FoldsMade /\ PoolSound /\ WeightsSound /\ PooledSound /\ ReportsSound /\ FullSound
      /\ pc = "load" /\ ~ NoFolds /\ folds = << >> /\ folds' = Folds /\ pc' = "signals"
      /\ days' = days /\ strategy' = strategy
      /\ UNCHANGED <<weights, pooled, inSample, tasks, reports, full, holdout, regime>>
  BY DEF EvaluationInv, Partition, FoldsMade, inputs, poolVars
<1>2. /\ "load" \notin AfterSignals /\ "signals" \notin AfterSignals
      /\ "signals" \notin AfterPool
  BY DEF AfterSignals, AfterPool
<1>3. Len(Folds) \in Nat /\ Folds # << >>
  BY <1>1, FoldsShaped DEF Shaped, NoFolds
<1>4. Typed' /\ Phases' /\ FoldsMade'
  BY <1>1, <1>2, <1>3, SameCalendar DEF Typed, Phases, FoldsMade
<1>5. Len(tasks) = 0 /\ Len(reports) = 0
  BY <1>1, LenProperties DEF PoolSound
<1>6. PoolSound'
  <2>1. Running' = Running /\ ReportType' = ReportType
    BY <1>1, SameCalendar DEF Running
  <2>2. Len(tasks') <= Len(folds') /\ Len(reports') = Len(tasks')
    BY <1>1, <1>3, <1>5
  <2> QED
    BY <1>1, <1>2, <2>1, <2>2 DEF PoolSound
<1>7. WeightsSound'
  <2>1. DOMAIN weights = {}
    BY <1>1, <1>5 DEF WeightsSound
  <2>2. DOMAIN weights' = {} /\ Len(tasks') = 0
    BY <1>1, <1>5, <2>1
  <2> QED
    BY <2>2 DEF WeightsSound
<1>8. PooledSound'
  BY <1>1, <1>2 DEF PooledSound
<1>9. ReportsSound'
  <2>1. DOMAIN reports' = {}
    BY <1>1, <1>5, LenProperties DEF PoolSound
  <2> QED
    BY <1>1, <1>2, <2>1, SameCalendar DEF ReportsSound
<1>10. FullSound'
  BY <1>1, KeepFull DEF inputs
<1> QED
  BY <1>4, <1>6, <1>7, <1>8, <1>9, <1>10 DEF EvaluationInv

LEMMA FoldSignalsSafe ==
  ASSUME EvaluationInv, NEW k \in DOMAIN folds, FoldSignals(k)
  PROVE  EvaluationInv'
<1>1. /\ Typed /\ FoldsMade /\ PoolSound /\ WeightsSound /\ PooledSound /\ ReportsSound /\ FullSound
      /\ pc = "signals" /\ k = Len(tasks) + 1 /\ k <= Len(folds)
      /\ weights' = Splice(k)
      /\ tasks' = Append(tasks, "queued") /\ reports' = Append(reports, NoReport)
      /\ days' = days /\ strategy' = strategy
      /\ UNCHANGED <<inputs, pc, folds, pooled, inSample, full, holdout, regime>>
  BY DEF EvaluationInv, FoldSignals, inputs
<1>2. "signals" \notin AfterSignals \cup {"failed", "load", "rejected"} /\ "signals" \notin AfterPool
  BY DEF AfterSignals, AfterPool
<1>3. /\ Shaped(folds) /\ DOMAIN folds = 1 .. Len(folds) /\ Len(folds) \in Nat
      /\ Len(tasks) \in Nat /\ Len(reports) = Len(tasks)
      /\ DOMAIN tasks = 1 .. Len(tasks) /\ DOMAIN reports = 1 .. Len(tasks)
  BY <1>1, <1>2, FoldsAreShaped, LenProperties DEF Shaped, PoolSound
<1>4. /\ Len(tasks') = k /\ Len(reports') = k
      /\ tasks' \in Seq(States) /\ reports' \in Seq(ReportType)
      /\ DOMAIN tasks' = 1 .. k /\ DOMAIN reports' = 1 .. k
      /\ tasks'[k] = "queued" /\ reports'[k] = NoReport
      /\ \A i \in 1 .. Len(tasks) : tasks'[i] = tasks[i] /\ reports'[i] = reports[i]
  <2>1. tasks \in Seq(States) /\ reports \in Seq(ReportType) /\ "queued" \in States
    BY <1>1 DEF PoolSound, States
  <2>2. /\ Len(tasks') = k /\ tasks' \in Seq(States) /\ DOMAIN tasks' = 1 .. k /\ tasks'[k] = "queued"
        /\ \A i \in 1 .. Len(tasks) : tasks'[i] = tasks[i]
    BY <1>1, <1>3, <2>1, AppendProperties, LenProperties
  <2>3. /\ Len(reports') = k /\ reports' \in Seq(ReportType) /\ DOMAIN reports' = 1 .. k
        /\ reports'[k] = NoReport
        /\ \A i \in 1 .. Len(tasks) : reports'[i] = reports[i]
    BY <1>1, <1>3, <2>1, NoReportTyped, AppendProperties, LenProperties
  <2> QED
    BY <2>2, <2>3
<1>5. Typed' /\ Phases' /\ FoldsMade' /\ FullSound'
  BY <1>1, KeepFull, SameCalendar DEF EvaluationInv, Typed, Phases, FoldsMade
<1>6. PoolSound'
  <2>1. Running' = Running
    <3>1. \A i : i \in Running' <=> i \in Running
      BY <1>1, <1>3, <1>4 DEF Running
    <3> QED
      BY <3>1
  <2>2. ReportType' = ReportType
    BY <1>1, SameCalendar
  <2> QED
    BY <1>1, <1>2, <1>4, <2>1, <2>2 DEF PoolSound
<1>7. /\ \A i : Shown(i)' = Shown(i)
      /\ \A i : Given(Shown(i))' = Given(Shown(i))
      /\ \A i, d : Seen(Shown(i), d)' = Seen(Shown(i), d)
  <2>1. \A i : Shown(i)' = Shown(i)
    BY <1>1, SameFolds
  <2> QED
    BY <1>1, <2>1 DEF Given, Seen
<1> DEFINE given == Given(Shown(k)) \cap folds[k].test
<1>8. /\ folds[k].test = Within(TestStart(k), TestEnd(k))
      /\ DOMAIN weights' = DOMAIN weights \cup given
      /\ \A d \in DOMAIN weights : weights'[d] = weights[d]
      /\ \A d \in given \ DOMAIN weights : weights'[d] = [fold |-> k, reads |-> Seen(Shown(k), d)]
  BY <1>1, <1>3, FoldBounds DEF Splice
\* A day that fold k gives and an earlier fold tests, the earlier one gave too.
<1>9. ASSUME NEW d \in given, NEW i \in 1 .. Len(tasks), d \in folds[i].test
      PROVE  d \in DOMAIN weights
  <2>1. /\ TestStart(i) \in Nat /\ TestEnd(i) \in Nat /\ TestEnd(k) \in Nat
        /\ TestEnd(i) \in days /\ TestEnd(k) \in days
        /\ TestEnd(i) <= TestEnd(k) /\ d \in days /\ d \in Nat
        /\ TestStart(i) <= d /\ d <= TestEnd(i)
    <3>1. i \in 1 .. Len(folds) /\ i <= k /\ k \in 1 .. Len(folds)
      BY <1>1, <1>3
    <3>2. folds[i].test = Within(TestStart(i), TestEnd(i))
      BY <1>1, <1>3, <3>1, FoldBounds
    <3> QED
      BY <1>1, <1>3, <1>9, <3>1, <3>2, FoldBounds, FoldOrder, Halves DEF Within
  <2>2. /\ \A e \in Shown(i) : e <= TestEnd(i) /\ e \in Shown(k) /\ e \in Nat
        /\ \A e \in Shown(k) : e <= TestEnd(k) /\ e \in Nat
        /\ TestEnd(i) \in Shown(i) /\ TestEnd(k) \in Shown(k) /\ d \in Shown(i)
    BY <1>1, <2>1, Halves DEF Shown, Within
  <2>3. Max(Shown(i)) = TestEnd(i) /\ Max(Shown(k)) = TestEnd(k)
    <3>1. \A j \in {i, k} : IsFiniteSet(Shown(j)) /\ Shown(j) \in SUBSET Int /\ Shown(j) # {}
      BY <1>1, <2>2, Halves, FS_Subset DEF Shown, Within
    <3>2. /\ Max(Shown(i)) \in Shown(i) /\ Max(Shown(i)) >= TestEnd(i)
          /\ Max(Shown(k)) \in Shown(k) /\ Max(Shown(k)) >= TestEnd(k)
      BY <2>2, <3>1, FiniteMax
    <3>3. Max(Shown(i)) \in Nat /\ Max(Shown(k)) \in Nat
      BY <2>2, <3>2
    <3> QED
      BY <2>1, <2>2, <3>2, <3>3
  <2>4. d \in Given(Shown(i))
    <3>1. CASE d \in strategy.rebalances
      BY <2>2, <3>1 DEF Given
    <3>2. CASE strategy.last /\ d = Max(Shown(k))
      <4>1. d = TestEnd(i)
        BY <2>1, <2>3, <3>2
      <4> QED
        BY <2>3, <3>2, <4>1 DEF Given
    <3> QED
      BY <3>1, <3>2 DEF Given
  <2> QED
    BY <1>1, <1>9, <2>4 DEF WeightsSound
<1>10. WeightsSound'
  <2>1. ASSUME NEW d \in DOMAIN weights
        PROVE  /\ weights'[d].fold \in 1 .. k
               /\ d \in folds[weights'[d].fold].test
               /\ weights'[d].reads = Seen(Shown(weights'[d].fold), d)
               /\ \A i \in 1 .. k : d \in folds[i].test => weights'[d].fold <= i
    BY <1>1, <1>3, <1>8 DEF WeightsSound
  <2>2. ASSUME NEW d \in given, d \notin DOMAIN weights
        PROVE  /\ weights'[d].fold \in 1 .. k
               /\ d \in folds[weights'[d].fold].test
               /\ weights'[d].reads = Seen(Shown(weights'[d].fold), d)
               /\ \A i \in 1 .. k : d \in folds[i].test => weights'[d].fold <= i
    <3>1. weights'[d].fold = k /\ weights'[d].reads = Seen(Shown(k), d)
      <4>1. weights'[d] = [fold |-> k, reads |-> Seen(Shown(k), d)]
        BY <1>8, <2>2
      <4> QED
        BY <4>1
    <3>2. \A i \in 1 .. k : d \in folds[i].test => i = k
      BY <1>1, <1>3, <1>9, <2>2
    <3> QED
      BY <1>1, <1>3, <3>1, <3>2
  <2>3. \A i \in 1 .. k : Given(Shown(i)) \cap folds[i].test \subseteq DOMAIN weights'
    BY <1>1, <1>3, <1>8 DEF WeightsSound
  <2>4. ASSUME NEW d \in DOMAIN weights'
        PROVE  /\ weights'[d].fold \in 1 .. k
               /\ d \in folds[weights'[d].fold].test
               /\ weights'[d].reads = Seen(Shown(weights'[d].fold), d)
               /\ \A i \in 1 .. k : d \in folds[i].test => weights'[d].fold <= i
    BY <1>8, <2>1, <2>2
  <2>5. ASSUME NEW d \in DOMAIN weights'
        PROVE  weights'[d].reads = Seen(Shown(weights[d].fold), d)'
    <3>1. weights'[d].reads = Seen(Shown(weights'[d].fold), d)
      BY <2>4
    <3>2. Shown(weights[d].fold)' = Shown(weights'[d].fold)
      BY <1>1 DEF Shown, TestEnd, Within
    <3> QED
      BY <1>1, <3>1, <3>2 DEF Seen
  <2>6. \A i \in 1 .. Len(tasks') : Given(Shown(i))' \cap folds'[i].test \subseteq DOMAIN weights'
    BY <1>1, <1>4, <1>7, <2>3
  <2>7. \A d \in DOMAIN weights' :
               /\ weights'[d].fold \in 1 .. Len(tasks')
               /\ d \in folds'[weights'[d].fold].test
               /\ weights'[d].reads = Seen(Shown(weights[d].fold), d)'
               /\ \A i \in 1 .. Len(tasks') : d \in folds'[i].test => weights'[d].fold <= i
    BY <1>1, <1>4, <2>4, <2>5
  <2> QED
    BY <2>6, <2>7 DEF WeightsSound
<1>11. PooledSound'
  BY <1>1, <1>2 DEF PooledSound
<1>12. ReportsSound'
  <2>1. inSample.scaled = 0 /\ holdout.scaled = 0
    BY <1>1 DEF ReportsSound
  <2>2. \A i : TestStart(i)' = TestStart(i) /\ TestEnd(i)' = TestEnd(i)
    BY <1>1, SameFolds
  <2>3. ASSUME NEW i \in 1 .. k
        PROVE  /\ reports'[i].scaled = inSample'.scaled
               /\ tasks'[i] = "done" =>
                    /\ reports'[i].from = TestStart(i)' /\ reports'[i].to = TestEnd(i)'
                    /\ reports'[i].scaled = 0 => \A d \in reports'[i].ratios : d <= TestEnd(i)'
    <3>1. CASE i = k
      BY <1>1, <1>4, <2>1, <3>1, NoReportTyped
    <3>2. CASE i # k
      <4>1. i \in 1 .. Len(tasks)
        BY <1>1, <1>3, <3>2
      <4> QED
        BY <1>1, <1>3, <1>4, <2>2, <4>1 DEF ReportsSound
    <3> QED
      BY <3>1, <3>2
  <2>4. inSample' \in ReportType' /\ holdout' \in ReportType'
    BY <1>1, SameCalendar DEF ReportsSound
  <2> QED
    BY <1>1, <1>2, <1>4, <2>1, <2>3, <2>4 DEF ReportsSound
<1> QED
  BY <1>5, <1>6, <1>10, <1>11, <1>12 DEF EvaluationInv

LEMMA RunBacktestSafe ==
  ASSUME EvaluationInv, RunBacktest
  PROVE  EvaluationInv'
<1> DEFINE net  == [d \in days |-> NetReturn(FoldReads, days, d)]
           from == TestStart(1)
           to   == TestEnd(Len(folds))
<1>1. /\ Typed /\ FoldsMade /\ PoolSound /\ WeightsSound /\ PooledSound /\ ReportsSound /\ FullSound
      /\ pc = "signals" /\ Len(tasks) = Len(folds)
      /\ pooled' = [d \in Within(from, to) |->
                      [held |-> Position(FoldReads, days, d), net |-> net[d]]]
      /\ inSample' = Report(from, to, UNION {net[d] : d \in Within(0, to)},
                            UNION {net[d] : d \in days})
      /\ pc' \in {"prescreen", "pool"}
      /\ days' = days /\ strategy' = strategy
      /\ UNCHANGED <<inputs, folds, weights, tasks, reports, full, holdout, regime>>
  BY DEF EvaluationInv, RunBacktest, inputs, poolVars
<1>2. /\ pc' \in AfterSignals /\ pc' \notin AfterPool /\ pc' \notin {"rejected", "done", "load"}
      /\ "signals" \notin {"rejected", "done", "load"}
  BY <1>1 DEF AfterSignals, AfterPool
<1>3. folds # << >>
  BY <1>1 DEF FoldsMade
<1>4. Typed' /\ Phases' /\ FoldsMade' /\ FullSound'
  BY <1>1, <1>2, KeepFolds, KeepFull DEF Typed, Phases
<1>5. PoolSound'
  <2>1. Running' = Running /\ ReportType' = ReportType
    BY <1>1, SameCalendar DEF Running
  <2> QED
    BY <1>1, <1>2, <2>1 DEF PoolSound
<1>6. WeightsSound'
  BY <1>1, KeepWeights
<1>7. /\ Within(from, to) \subseteq Within(0, to) /\ from \in Nat /\ to \in Nat
      /\ Within(0, to) \subseteq days
  BY <1>1, <1>3, TestsWithin, SomeFold, FoldsAreShaped, FoldBounds DEF Within
<1>8. /\ UNION {net[d] : d \in Within(0, to)} = Earned
      /\ UNION {net[d] : d \in Within(0, to)} \in SUBSET days
      /\ UNION {net[d] : d \in days} \in SUBSET days
  <2>1. \A d \in days : net[d] = NetReturn(FoldReads, days, d)
    OBVIOUS
  <2>2. \A d \in days : net[d] \in SUBSET days
    BY <1>1, <2>1, NetOfFolds
  <2> QED
    BY <1>7, <2>1, <2>2 DEF Earned
<1>9. inSample' \in ReportType /\ inSample'.scaled = 0 /\ inSample'.ratios = Earned
  <2>1. \A R, T \in SUBSET days :
          /\ Report(from, to, R, T) \in ReportType /\ Report(from, to, R, T).scaled = 0
          /\ Report(from, to, R, T).ratios = R
    BY <1>7 DEF Report, ReportType
  <2> QED
    BY <1>1, <1>8, <2>1
<1>10. PooledSound'
  <2>1. Within(TestStart(1), TestEnd(Len(folds)))' = Within(from, to)
    <3>1. TestStart(1)' = from /\ TestEnd(Len(folds))' = to
      BY <1>1 DEF TestStart, TestEnd
    <3> QED
      BY <1>1, <3>1 DEF Within
  <2>2. /\ \A d : NetReturn(FoldReads, days, d)' = NetReturn(FoldReads, days, d)
        /\ \A d : Position(FoldReads, days, d)' = Position(FoldReads, days, d)
    BY <1>1, SameReturns
  <2>3. \A d \in DOMAIN pooled' :
          pooled'[d] = [held |-> Position(FoldReads, days, d)',
                        net  |-> NetReturn(FoldReads, days, d)']
    BY <1>1, <1>7, <2>2
  <2> QED
    BY <1>1, <1>2, <1>3, <2>1, <2>3 DEF PooledSound
<1>11. ReportsSound'
  <2>1. Earned' = Earned /\ ReportType' = ReportType
    BY <1>1, KeepEarned, SameCalendar
  <2>2. inSample.scaled = 0 /\ holdout.scaled = 0
    BY <1>1, <1>2 DEF ReportsSound
  <2>3. \A i : TestStart(i)' = TestStart(i) /\ TestEnd(i)' = TestEnd(i)
    BY <1>1, SameFolds
  <2>4. \A i \in DOMAIN reports' :
          /\ reports'[i].scaled = inSample'.scaled
          /\ tasks'[i] = "done" =>
               /\ reports'[i].from = TestStart(i)' /\ reports'[i].to = TestEnd(i)'
               /\ reports'[i].scaled = 0 => \A d \in reports'[i].ratios : d <= TestEnd(i)'
    BY <1>1, <1>9, <2>2, <2>3 DEF ReportsSound
  <2>5. inSample' \in ReportType' /\ holdout' \in ReportType'
    BY <1>1, <1>9, <2>1 DEF ReportsSound
  <2>6. holdout'.scaled = 0
    BY <1>1, <2>2
  <2> QED
    BY <1>2, <1>9, <2>1, <2>4, <2>5, <2>6 DEF ReportsSound
<1> QED
  BY <1>4, <1>5, <1>6, <1>10, <1>11 DEF EvaluationInv

LEMMA RejectEarlySafe ==
  ASSUME EvaluationInv, RejectEarly
  PROVE  EvaluationInv'
<1>1. /\ Typed /\ FoldsMade /\ PoolSound /\ WeightsSound /\ ReportsSound /\ FullSound
      /\ pc = "prescreen" /\ pc' = "rejected" /\ pooled' = << >> /\ reports' = << >>
      /\ days' = days /\ strategy' = strategy
      /\ UNCHANGED <<inputs, folds, weights, inSample, tasks, full, holdout, regime>>
  BY DEF EvaluationInv, RejectEarly, inputs
<1>2. /\ "prescreen" \in AfterSignals /\ "rejected" \in AfterSignals /\ "rejected" \notin AfterPool
  BY DEF AfterSignals, AfterPool
<1>3. Typed' /\ Phases' /\ FoldsMade' /\ FullSound'
  BY <1>1, <1>2, KeepFolds, KeepFull DEF Typed, Phases
<1>4. PoolSound'
  <2>1. Running' = Running
    BY <1>1 DEF Running
  <2>2. reports' \in Seq(ReportType') /\ Len(reports') = 0
    BY <1>1, EmptySeq
  <2> QED
    BY <1>1, <1>2, <2>1, <2>2 DEF PoolSound
<1>5. WeightsSound' /\ PooledSound'
  BY <1>1, KeepWeights DEF PooledSound
<1>6. ReportsSound'
  <2>1. Earned' = Earned /\ ReportType' = ReportType
    BY <1>1, KeepEarned, SameCalendar
  <2>2. inSample.scaled = 0 /\ holdout.scaled = 0 /\ inSample.ratios = Earned
    BY <1>1, <1>2 DEF ReportsSound
  <2>3. DOMAIN reports' = {}
    BY <1>1
  <2> QED
    BY <1>1, <2>1, <2>2, <2>3 DEF ReportsSound
<1> QED
  BY <1>3, <1>4, <1>5, <1>6 DEF EvaluationInv

\* A step of the pool changes the state of one task, and its report only
\* when the task is done.
LEMMA PoolStepSafe ==
  ASSUME EvaluationInv, pc = "pool", NEW i \in DOMAIN tasks, NEW st \in {"running", "done", "failed"},
         tasks[i] = IF st = "running" THEN "queued" ELSE "running",
         st = "running" => WorkerFree,
         tasks' = [tasks EXCEPT ![i] = st],
         reports' = IF st = "done"
                      THEN [reports EXCEPT ![i] =
                              WindowReport(FoldReads, Within(TestStart(i), TestEnd(i)))]
                      ELSE reports,
         UNCHANGED <<inputs, pc, folds, weights, pooled, inSample, full, holdout, regime>>
  PROVE  EvaluationInv'
<1>1. /\ Typed /\ FoldsMade /\ PoolSound /\ WeightsSound /\ PooledSound /\ ReportsSound /\ FullSound
      /\ days' = days /\ strategy' = strategy
  BY DEF EvaluationInv, inputs
<1>2. pc \in AfterSignals /\ pc \notin AfterPool /\ pc \notin {"rejected", "load", "done"}
  BY DEF AfterSignals, AfterPool
<1>3. /\ Len(tasks) = Len(folds) /\ Len(reports) = Len(tasks) /\ Len(tasks) \in Nat
      /\ tasks \in Seq(States) /\ reports \in Seq(ReportType)
      /\ DOMAIN tasks = 1 .. Len(tasks) /\ DOMAIN reports = 1 .. Len(tasks)
      /\ Shaped(folds)
  BY <1>1, <1>2, FoldsAreShaped, LenProperties DEF PoolSound
<1>4. /\ WindowReport(FoldReads, Within(TestStart(i), TestEnd(i))) \in ReportType
      /\ WindowReport(FoldReads, Within(TestStart(i), TestEnd(i))).scaled = 0
      /\ WindowReport(FoldReads, Within(TestStart(i), TestEnd(i))).from = TestStart(i)
      /\ WindowReport(FoldReads, Within(TestStart(i), TestEnd(i))).to = TestEnd(i)
      /\ \A x \in WindowReport(FoldReads, Within(TestStart(i), TestEnd(i))).ratios : x <= TestEnd(i)
  BY <1>1, <1>3, FoldReport
<1>5. PICK new : new = WindowReport(FoldReads, Within(TestStart(i), TestEnd(i)))
  OBVIOUS
<1>6. /\ tasks' \in Seq(States) /\ Len(tasks') = Len(tasks) /\ DOMAIN tasks' = DOMAIN tasks
      /\ tasks'[i] = st /\ \A j \in DOMAIN tasks \ {i} : tasks'[j] = tasks[j]
  <2>1. st \in States
    BY DEF States
  <2> QED
    BY <1>3, <2>1, ExceptSeq
<1>7. /\ reports' \in Seq(ReportType) /\ Len(reports') = Len(reports)
      /\ DOMAIN reports' = DOMAIN reports
      /\ \A j \in DOMAIN reports \ {i} : reports'[j] = reports[j]
      /\ reports'[i] = IF st = "done" THEN new ELSE reports[i]
  <2>1. CASE st = "done"
    BY <1>3, <1>4, <1>5, <2>1, ExceptSeq
  <2>2. CASE st # "done"
    BY <2>2, <1>3
  <2> QED
    BY <2>1, <2>2
<1>8. Typed' /\ Phases' /\ FoldsMade' /\ FullSound'
  BY <1>1, <1>2, KeepFolds, KeepFull DEF Typed, Phases, EvaluationInv
<1>9. Cardinality(Running') <= MaxWorkers
  <2>1. IsFiniteSet(Running)
    <3>1. IsFiniteSet(1 .. Len(tasks)) /\ Running \in SUBSET (1 .. Len(tasks))
      BY <1>3, FS_Interval DEF Running
    <3> QED
      BY <3>1, FS_Subset
  <2>2. Cardinality(Running) \in Nat /\ MaxWorkers \in Nat
    BY <2>1, FS_CardinalityType, EvaluationAssumption
  <2>3. CASE st = "running"
    <3>1. Running' = Running \cup {i} /\ i \notin Running
      <4>1. \A j : j \in Running' <=> j \in Running \cup {i}
        BY <1>3, <1>6, <2>3 DEF Running
      <4> QED
        BY <2>3, <4>1 DEF Running
    <3>2. Cardinality(Running') = Cardinality(Running) + 1
      BY <2>1, <3>1, FS_AddElement
    <3> QED
      BY <2>2, <2>3, <3>2 DEF WorkerFree
  <2>4. CASE st # "running"
    <3>1. Running' = Running \ {i} /\ i \in Running
      <4>1. \A j : j \in Running' <=> j \in Running \ {i}
        BY <1>3, <1>6, <2>4 DEF Running
      <4> QED
        BY <2>4, <4>1 DEF Running
    <3>2. Cardinality(Running') = Cardinality(Running) - 1
      BY <2>1, <3>1, FS_RemoveElement
    <3>3. Cardinality(Running) <= MaxWorkers
      BY <1>1 DEF PoolSound
    <3> QED
      BY <2>2, <3>2, <3>3
  <2> QED
    BY <2>3, <2>4
<1>10. PoolSound'
  <2>1. ReportType' = ReportType
    BY <1>1, SameCalendar
  <2> QED
    BY <1>2, <1>3, <1>6, <1>7, <1>9, <2>1 DEF PoolSound
<1>11. WeightsSound' /\ PooledSound'
  BY <1>1, <1>6, KeepWeights, KeepPooled
<1>12. ReportsSound'
  <2>1. Earned' = Earned /\ ReportType' = ReportType
    BY <1>1, KeepEarned, SameCalendar
  <2>2. inSample.scaled = 0 /\ holdout.scaled = 0 /\ inSample.ratios = Earned
    BY <1>1, <1>2 DEF ReportsSound
  <2>3. \A j : TestStart(j)' = TestStart(j) /\ TestEnd(j)' = TestEnd(j)
    BY <1>1, SameFolds
  <2>4. ASSUME NEW j \in DOMAIN reports
        PROVE  /\ reports'[j].scaled = inSample.scaled
               /\ tasks'[j] = "done" =>
                    /\ reports'[j].from = TestStart(j) /\ reports'[j].to = TestEnd(j)
                    /\ reports'[j].scaled = 0 => \A d \in reports'[j].ratios : d <= TestEnd(j)
    <3>1. CASE j # i
      BY <1>1, <1>3, <1>6, <1>7, <3>1 DEF ReportsSound
    <3>2. CASE j = i /\ st = "done"
      BY <1>4, <1>5, <1>7, <2>2, <3>2
    <3>3. CASE j = i /\ st # "done"
      BY <1>1, <1>3, <1>6, <1>7, <3>3 DEF ReportsSound
    <3> QED
      BY <3>1, <3>2, <3>3
  <2>5. \A j \in DOMAIN reports' :
          /\ reports'[j].scaled = inSample'.scaled
          /\ tasks'[j] = "done" =>
               /\ reports'[j].from = TestStart(j)' /\ reports'[j].to = TestEnd(j)'
               /\ reports'[j].scaled = 0 => \A d \in reports'[j].ratios : d <= TestEnd(j)'
    BY <1>7, <2>3, <2>4
  <2>6. /\ inSample' \in ReportType' /\ holdout' \in ReportType'
        /\ inSample'.scaled = 0 /\ holdout'.scaled = 0 /\ inSample'.ratios = Earned'
    BY <1>1, <2>1, <2>2 DEF ReportsSound
  <2> QED
    BY <2>5, <2>6 DEF ReportsSound
<1> QED
  BY <1>8, <1>10, <1>11, <1>12 DEF EvaluationInv

LEMMA PoolSafe ==
  ASSUME EvaluationInv, Pool
  PROVE  EvaluationInv'
<1>1. PoolSound /\ Typed
  BY DEF EvaluationInv
<1>2. DOMAIN tasks = 1 .. Len(tasks)
  BY <1>1, LenProperties DEF PoolSound
<1>3. ASSUME NEW i \in DOMAIN reports, StartFold(i)
      PROVE  EvaluationInv'
  <2>1. i \in DOMAIN tasks /\ tasks[i] = "queued"
    BY <1>3 DEF StartFold, Waiting
  <2> QED
    BY <1>3, <2>1, PoolStepSafe DEF StartFold
<1>4. ASSUME NEW i \in DOMAIN reports, FinishFold(i)
      PROVE  EvaluationInv'
  <2>1. i \in DOMAIN tasks /\ tasks[i] = "running"
    BY <1>4 DEF FinishFold, Running
  <2> QED
    BY <1>4, <2>1, PoolStepSafe DEF FinishFold, Slot
<1>5. ASSUME NEW i \in DOMAIN reports, FoldFails(i)
      PROVE  EvaluationInv'
  <2>1. i \in DOMAIN tasks /\ tasks[i] = "running"
    BY <1>5 DEF FoldFails, Running
  <2> QED
    BY <1>5, <2>1, PoolStepSafe DEF FoldFails
<1>6. CASE CloseWithFailure
  BY <1>6, FailsSafely DEF CloseWithFailure
<1>7. CASE Close
  <2>1. \A i \in DOMAIN tasks : tasks[i] \in States
    BY <1>1, ElementOfSeq, <1>2 DEF PoolSound
  <2>2. \A i \in DOMAIN tasks : tasks[i] = "done"
    BY <1>7, <2>1 DEF Close, AllDone, Broken, Running, Waiting, States
  <2>3. FullSound'
    BY <1>7, KeepFull DEF Close, EvaluationInv
  <2>4. /\ pc = "pool" /\ pc' = "full" /\ holdout' = holdout
        /\ UNCHANGED <<inputs, folds, weights, pooled, inSample, poolVars>>
    BY <1>7 DEF Close
  <2>5. holdout' \in ReportType /\ holdout'.scaled = 0
    BY <2>4 DEF EvaluationInv, ReportsSound
  <2>6. "full" \in AfterSignals /\ "pool" \in AfterSignals
    BY DEF AfterSignals, AfterPool
  <2> QED
    BY <2>2, <2>3, <2>4, <2>5, <2>6, Onward
<1> QED
  BY <1>3, <1>4, <1>5, <1>6, <1>7 DEF Pool

LEMMA ScaledReport ==
  ASSUME Typed, NEW r \in ReportType, r.scaled = 0
  PROVE  /\ Scaled(r) \in ReportType /\ Scaled(r).scaled = 1
         /\ Scaled(r).ratios = r.ratios \cup BenchmarkHistory
         /\ Scaled(r).from = r.from /\ Scaled(r).to = r.to
<1>1. BenchmarkHistory \in SUBSET days
  BY DEF BenchmarkHistory
<1>2. PICK seen \in SUBSET days : seen = r.ratios \cup BenchmarkHistory
  BY <1>1 DEF ReportType
<1>3. Scaled(r) = [r EXCEPT !.ratios = seen, !.scaled = 1]
  BY <1>2 DEF Scaled, ReportType
<1>4. r = [from |-> r.from, to |-> r.to, ratios |-> r.ratios, turnover |-> r.turnover,
           scaled |-> r.scaled]
  BY DEF ReportType
<1>5. Scaled(r) = [from |-> r.from, to |-> r.to, ratios |-> seen, turnover |-> r.turnover,
                   scaled |-> 1]
  BY <1>3, <1>4
<1>6. r.from \in Nat /\ r.to \in Nat /\ r.turnover \in SUBSET days
  BY DEF ReportType
<1> QED
  BY <1>2, <1>5, <1>6 DEF ReportType

LEMMA ApplyHaircutSafe ==
  ASSUME EvaluationInv, ApplyHaircut
  PROVE  EvaluationInv'
<1>1. /\ Typed /\ FoldsMade /\ PoolSound /\ WeightsSound /\ PooledSound /\ ReportsSound /\ FullSound
      /\ pc = "haircut" /\ pc' = "done"
      /\ inSample' = Scaled(inSample) /\ holdout' = Scaled(holdout)
      /\ reports' = [i \in DOMAIN reports |-> Scaled(reports[i])]
      /\ days' = days /\ strategy' = strategy
      /\ UNCHANGED <<inputs, folds, weights, pooled, tasks, full, regime>>
  BY DEF EvaluationInv, ApplyHaircut, inputs
<1>2. /\ "haircut" \in AfterSignals /\ "done" \in AfterSignals
      /\ "haircut" \in AfterPool /\ "done" \in AfterPool
  BY DEF AfterSignals, AfterPool
<1>3. Typed' /\ Phases' /\ FoldsMade' /\ FullSound'
  BY <1>1, <1>2, KeepFolds, KeepFull DEF Typed, Phases
<1>4. /\ reports \in Seq(ReportType) /\ DOMAIN reports = 1 .. Len(reports) /\ Len(reports) \in Nat
      /\ \A i \in DOMAIN reports : reports[i] \in ReportType
  BY <1>1, LenProperties, ElementOfSeq DEF PoolSound
<1>5. /\ inSample \in ReportType /\ holdout \in ReportType
      /\ inSample.scaled = 0 /\ holdout.scaled = 0
      /\ inSample.ratios = Earned
      /\ \A i \in DOMAIN reports : reports[i].scaled = 0
  BY <1>1, <1>2 DEF ReportsSound
<1>6. \A i \in DOMAIN reports :
        /\ reports'[i] \in ReportType /\ reports'[i].scaled = 1
        /\ reports'[i].from = reports[i].from /\ reports'[i].to = reports[i].to
  BY <1>1, <1>4, <1>5, ScaledReport
<1>7. reports' \in Seq(ReportType) /\ Len(reports') = Len(reports) /\ DOMAIN reports' = DOMAIN reports
  <2>1. reports' \in [1 .. Len(reports) -> ReportType]
    BY <1>1, <1>4, <1>6
  <2>2. reports' \in Seq(ReportType)
    BY <1>4, <2>1, SeqDef
  <2> QED
    BY <1>4, <2>1, <2>2, LenProperties
<1>8. PoolSound'
  <2>1. Running' = Running /\ ReportType' = ReportType
    BY <1>1, SameCalendar DEF Running
  <2> QED
    BY <1>1, <1>2, <1>7, <2>1 DEF PoolSound
<1>9. WeightsSound' /\ PooledSound'
  BY <1>1, <1>2, KeepWeights, KeepPooled
<1>10. ReportsSound'
  <2>1. Earned' = Earned /\ ReportType' = ReportType /\ BenchmarkHistory' = BenchmarkHistory
    BY <1>1, KeepEarned, SameCalendar
  <2>2. \A i : TestStart(i)' = TestStart(i) /\ TestEnd(i)' = TestEnd(i)
    BY <1>1, SameFolds
  <2>3. /\ inSample' \in ReportType /\ inSample'.scaled = 1
        /\ inSample'.ratios = Earned \cup BenchmarkHistory
        /\ holdout' \in ReportType
    BY <1>1, <1>5, ScaledReport
  <2>4. \A i \in DOMAIN reports' :
          /\ reports'[i].scaled = inSample'.scaled
          /\ tasks'[i] = "done" =>
               /\ reports'[i].from = TestStart(i)' /\ reports'[i].to = TestEnd(i)'
               /\ reports'[i].scaled = 0 => \A d \in reports'[i].ratios : d <= TestEnd(i)'
    BY <1>1, <1>6, <1>7, <2>2, <2>3 DEF ReportsSound
  <2> QED
    BY <1>1, <2>1, <2>3, <2>4 DEF ReportsSound
<1> QED
  BY <1>3, <1>8, <1>9, <1>10 DEF EvaluationInv

LEMMA ConcludeSafe ==
  ASSUME EvaluationInv, Conclude
  PROVE  EvaluationInv'
<1>1. Typed /\ FoldsMade /\ PoolSound /\ WeightsSound /\ ReportsSound /\ FullSound
  BY DEF EvaluationInv
<1>2. days \in SUBSET days /\ days # {}
  BY <1>1, Halves
<1>3. pc \in AfterPool => /\ \A i \in DOMAIN tasks : tasks[i] = "done"
                          /\ pc \in AfterSignals /\ folds # << >>
                          /\ pc \notin {"rejected", "load"}
  BY <1>1 DEF PoolSound, FoldsMade, AfterSignals, AfterPool
<1>4. pc # "done" => holdout \in ReportType /\ holdout.scaled = 0
  BY <1>1 DEF ReportsSound
<1>5. \A p \in AfterPool : p \in AfterSignals /\ p # "rejected" /\ p # "failed"
  BY DEF AfterSignals, AfterPool
<1>6. CASE FullSignals
  <2>1. /\ pc = "full" /\ pc' = "holdout" /\ holdout' = holdout /\ regime' = regime
        /\ full' = [d \in Given(days) |-> Seen(days, d)] /\ days' = days
        /\ UNCHANGED <<inputs, folds, weights, pooled, inSample, poolVars>>
    BY <1>6 DEF FullSignals, inputs
  <2>2. Given(days) \subseteq days /\ \A d : Seen(days, d) \subseteq days
    BY <1>1, <1>2, GivenDays DEF Seen
  <2>3. FullSound'
    BY <1>1, <2>1, <2>2 DEF FullSound
  <2>4. "full" \in AfterPool /\ "holdout" \in AfterPool
    BY DEF AfterPool
  <2> QED
    BY <1>3, <1>4, <1>5, <2>1, <2>3, <2>4, Onward
<1>7. CASE ReportHoldout
  <2>1. /\ pc = "holdout" /\ pc' = "stress" /\ holdout' = WindowReport(full, HoldoutDays)
        /\ UNCHANGED <<inputs, folds, weights, pooled, inSample, poolVars, full, regime>>
    BY <1>7 DEF ReportHoldout
  <2>2. "holdout" \in AfterPool /\ "stress" \in AfterPool
    BY DEF AfterPool
  <2>3. HoldoutDays \in SUBSET days /\ HoldoutDays # {}
    BY <1>1, <1>3, <2>1, <2>2, SomeFold, Halves
  <2>4. DOMAIN full \subseteq days /\ \A d \in DOMAIN full : full[d] \subseteq days
    BY <1>1 DEF FullSound
  <2>5. holdout' \in ReportType /\ holdout'.scaled = 0
    BY <1>1, <2>1, <2>3, <2>4, WindowReportReads
  <2>6. FullSound'
    BY <1>1, <2>1, KeepFull
  <2> QED
    BY <1>3, <1>5, <2>1, <2>2, <2>5, <2>6, Onward
<1>8. CASE Stress
  <2>1. /\ pc = "stress" /\ pc' = "haircut" /\ holdout' = holdout /\ full' = full /\ days' = days
        /\ UNCHANGED <<inputs, folds, weights, pooled, inSample, poolVars>>
    BY <1>8 DEF Stress, inputs
  <2>2. "stress" \in AfterPool /\ "haircut" \in AfterPool
    BY DEF AfterPool
  <2>3. PICK passed \in BOOLEAN :
          regime' = [reads |-> UNION {NetReturn(full, days, d) : d \in Crash},
                     passed |-> passed /\ Crash # {}]
    BY <1>8 DEF Stress
  <2>4. UNION {NetReturn(full, days, d) : d \in Crash} \in SUBSET days
    <3>1. DOMAIN full \subseteq days /\ \A e \in DOMAIN full : full[e] \subseteq days
      BY <1>1 DEF FullSound
    <3>2. ASSUME NEW d \in Crash, NEW x \in NetReturn(full, days, d)
          PROVE  x \in days
      <4>1. d \in days
        BY DEF Crash
      <4> QED
        BY <1>1, <1>2, <3>1, <3>2, <4>1, NetFrom
    <3> QED
      BY <3>2
  <2>5. FullSound'
    BY <1>1, <2>1, <2>3, <2>4 DEF FullSound
  <2> QED
    BY <1>3, <1>4, <1>5, <2>1, <2>2, <2>5, Onward
<1>9. CASE NoHaircut
  <2>1. /\ pc = "haircut" /\ pc' = "done" /\ holdout' = holdout
        /\ UNCHANGED <<inputs, folds, weights, pooled, inSample, poolVars, full, regime>>
    BY <1>9 DEF NoHaircut
  <2>2. "haircut" \in AfterPool /\ "done" \in AfterPool
    BY DEF AfterPool
  <2>3. FullSound'
    BY <1>1, <2>1, KeepFull
  <2> QED
    BY <1>3, <1>4, <1>5, <2>1, <2>2, <2>3, Onward
<1> QED
  BY <1>6, <1>7, <1>8, <1>9, ApplyHaircutSafe DEF Conclude

LEMMA StepSafe ==
  ASSUME EvaluationInv, Next
  PROVE  EvaluationInv'
<1>1. CASE LoadFails \/ TooShort
  BY <1>1, FailsSafely DEF LoadFails, TooShort
<1>2. CASE Partition
  BY <1>2, PartitionSafe
<1>3. CASE Raises
  BY <1>3, FailsSafely DEF Raises
<1>4. ASSUME NEW i \in DOMAIN folds, FoldSignals(i)
      PROVE  EvaluationInv'
  BY <1>4, FoldSignalsSafe
<1>5. CASE PassPrescreen
  <2>1. /\ pc = "prescreen" /\ pc' = "pool" /\ holdout' = holdout
        /\ UNCHANGED <<inputs, folds, weights, pooled, inSample, poolVars, full, regime>>
    BY <1>5 DEF PassPrescreen
  <2>2. "prescreen" \in AfterSignals /\ "pool" \in AfterSignals /\ "pool" \notin AfterPool
    BY DEF AfterSignals, AfterPool
  <2>3. FullSound' /\ holdout' \in ReportType /\ holdout'.scaled = 0
    BY <2>1, KeepFull DEF EvaluationInv, ReportsSound
  <2> QED
    BY <2>1, <2>2, <2>3, Onward
<1> QED
  BY <1>1, <1>2, <1>3, <1>4, <1>5, RunBacktestSafe, RejectEarlySafe, PoolSafe, ConcludeSafe
     DEF Next, Prepare, Signals

LEMMA StutterSafe ==
  ASSUME EvaluationInv, UNCHANGED vars
  PROVE  EvaluationInv'
<1>1. UNCHANGED <<inputs, pc, folds, weights, pooled, inSample, poolVars, full, holdout, regime>>
  BY DEF vars
<1>2. UNCHANGED <<days, strategy, pc, folds, weights, pooled, inSample, tasks, reports,
                  full, holdout, regime>>
  BY <1>1 DEF inputs, poolVars
<1>3. /\ Typed /\ Phases /\ FoldsMade /\ PoolSound /\ WeightsSound /\ PooledSound
      /\ ReportsSound /\ FullSound
  BY DEF EvaluationInv
<1>4. Typed' /\ Phases' /\ FoldsMade' /\ WeightsSound' /\ PooledSound' /\ FullSound'
  <2>1. FoldsMade'
    BY <1>2, <1>3, SameCalendar DEF FoldsMade
  <2> QED
    BY <1>1, <1>2, <1>3, <2>1, KeepWeights, KeepPooled, KeepFull DEF Typed, Phases
<1>5. PoolSound'
  <2>1. Running' = Running /\ ReportType' = ReportType
    BY <1>2, SameCalendar DEF Running
  <2> QED
    BY <1>2, <1>3, <2>1 DEF PoolSound
<1>6. ReportsSound'
  <2>1. Earned' = Earned /\ ReportType' = ReportType /\ BenchmarkHistory' = BenchmarkHistory
    BY <1>1, <1>2, KeepEarned, SameCalendar
  <2>2. \A i : TestStart(i)' = TestStart(i) /\ TestEnd(i)' = TestEnd(i)
    BY <1>2, SameFolds
  <2> QED
    BY <1>2, <1>3, <2>1, <2>2 DEF ReportsSound
<1> QED
  BY <1>4, <1>5, <1>6 DEF EvaluationInv

-----------------------------------------------------------------------------
(* The theorems *)

(* What is known of folds, weights, pooled returns, pool, reports and the  *)
(* whole period's signals in each phase of evaluate_strategy_detailed.     *)
THEOREM EvaluationInvariance == Spec => []EvaluationInv
<1>1. EvaluationInv /\ [Next]_vars => EvaluationInv'
  BY StepSafe, StutterSafe
<1> QED
  BY Starting, <1>1, PTL DEF Spec

(* Every variable of an evaluation keeps its type, no fold is empty, and   *)
(* the thread pool runs at most MaxWorkers folds at once.                  *)
THEOREM TypeCorrect == Spec => []TypeOK
BY EvaluationInvariance, Types, PTL

(* For any calendar and any strategy, one that looks ahead included, the   *)
(* pooled returns, the in-sample ratios before the haircut and the         *)
(* objective of numeric optimisation depend on no holdout price, and the   *)
(* haircut adds the holdout's first day only.                              *)
THEOREM SearchIsBlind == Spec => []SearchBlindToHoldout
BY EvaluationInvariance, Blind, PTL

(* The objective of numeric optimisation and the in-sample ratios depend   *)
(* on the same days.                                                       *)
THEOREM ObjectivesAgree == Spec => []ObjectiveAgrees
BY EvaluationInvariance, Agreement, PTL

(* For any number of threads and any order in which they finish, report i  *)
(* is that of fold i and reads no later price.                             *)
THEOREM ReportsInOrder == Spec => []FoldReportsInOrder
BY EvaluationInvariance, ReportOrder, PTL

(* If neighbouring trading days are never a training period apart, no      *)
(* day's return is earned with knowledge of its own day, and none depends  *)
(* on prices after the end of a fold that tests the day.                   *)
THEOREM NothingAhead == Unbroken => (Spec => []NoLookahead)
<1> SUFFICES ASSUME Unbroken PROVE Spec => []NoLookahead
  OBVIOUS
<1>1. EvaluationInv => NoLookahead
  BY Lookahead
<1> QED
  BY EvaluationInvariance, <1>1, PTL

(* On such calendars, with the test periods of one year that               *)
(* evaluate_strategy_detailed asks for, every in-sample day from the first *)
(* test on is tested with the weights of a fold that was trained before    *)
(* it, and twice only where two tests meet or around a 29 February that    *)
(* DateOffset moved: a last 1 March after a missing one alone can be lost. *)
THEOREM DaysTestedOnce == Unbroken /\ TestYears = 1 => (Spec => []EachDayTestedOnce)
<1> SUFFICES ASSUME Unbroken, TestYears = 1 PROVE Spec => []EachDayTestedOnce
  OBVIOUS
<1>1. EvaluationInv => EachDayTestedOnce
  BY TestedOnce
<1> QED
  BY EvaluationInvariance, <1>1, PTL
=============================================================================
