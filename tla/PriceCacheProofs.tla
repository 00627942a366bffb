-------------------------- MODULE PriceCacheProofs --------------------------
(***************************************************************************)
(* Proofs about PriceCache, for any number of readers and days.            *)
(*                                                                         *)
(* An answer lacks only days taken as covered without asking because the   *)
(* rows and the range believed covered never have another day with a price *)
(* and no row between them (Linked), which each way of extending the range *)
(* keeps.  The files have this by Honest, a request in its way by Sound.   *)
(***************************************************************************)
EXTENDS PriceCacheProperties, Extrema, TLAPS

Ordered(c) == c.from <= c.to

\* Every day of D between the rows in S and the ends of c has a row in S.
LinkedIn(D, S, c) ==
  \A d \in D :
    /\ (\E x \in S : x <= d) \/ (c # NoMeta /\ c.from <= d)
    /\ (\E y \in S : d <= y) \/ (c # NoMeta /\ d <= c.to)
    => d \in S

\* The days that no request has taken as covered without asking
Sought == DataDays \ seams

Linked(S, c) == LinkedIn(Sought, S, c)

-----------------------------------------------------------------------------
(* Types *)

\* What a request knows of itself, whatever happens around it
WellFormed(q) ==
  /\ q.step \in Updating /\ q.plan # "full" => q.cover # NoMeta
  /\ q.step \in {"read_metadata", "fetch"} => ~ q.empty
  /\ q.step = "write_parquet" => q.rows # {} /\ ~ q.empty
  /\ q.step = "save_metadata" /\ ~ q.empty => q.rows # {}
  /\ q.step = "fetch" /\ q.plan = "prefix" => q.cover.from - 1 \in Days

Typed == TypeOK /\ \A r \in Readers : WellFormed(req[r])

(* A set of days has a first and a last one.                               *)
LEMMA DaysExtrema ==
  ASSUME NEW S \in SUBSET Days, S # {}
  PROVE  /\ Min(S) \in S /\ Max(S) \in S
         /\ \A d \in S : Min(S) <= d /\ d <= Max(S)
<1>1. IsFiniteSet(Days)
  BY FS_Interval, PriceCacheAssumption DEF Days
<1>2. IsFiniteSet(S)
  BY <1>1, FS_Subset
<1>3. S \in SUBSET Int
  BY PriceCacheAssumption DEF Days
<1> QED
  BY <1>2, <1>3, FiniteMax, FiniteMin

(* The window is a range of days that ends after it starts.                *)
LEMMA WindowTyped ==
  ASSUME TypeOK
  PROVE  /\ window \in Ranges /\ window.from \in Days /\ window.to \in Days
         /\ window.from < window.to /\ Days \subseteq Nat
<1>1. window \in Ranges /\ window.from < window.to
  BY PriceCacheAssumption DEF TypeOK
<1> QED
  BY <1>1, PriceCacheAssumption DEF Ranges, Days

(* The provider answers with days.                                         *)
LEMMA AnswerTyped == \A a, b : Answer(a, b) \subseteq Days
<1> QED
  BY PriceCacheAssumption DEF Answer

(* So are the rows a request fetches.                                      *)
LEMMA FetchedTyped == \A r : Fetched(r) \subseteq Days
<1> QED
  BY AnswerTyped DEF Fetched

(* A request believes a range of days covered, or nothing.                 *)
LEMMA BelievedTyped ==
  ASSUME TypeOK, NEW r \in Readers
  PROVE  Believed(r) \in Ranges \cup {NoMeta}
<1>1. req[r].rows \in SUBSET Days
  BY DEF TypeOK, Requests
<1>2. CASE meta = NoMeta /\ req[r].rows # {}
  <2>1. Min(req[r].rows) \in Days /\ Max(req[r].rows) \in Days
    BY <1>1, <1>2, DaysExtrema
  <2> QED
    BY <1>2, <2>1 DEF Believed, Ranges
<1>3. CASE meta # NoMeta
  BY <1>3 DEF Believed, TypeOK
<1>4. CASE meta = NoMeta /\ req[r].rows = {}
  BY <1>4 DEF Believed
<1> QED
  BY <1>2, <1>3, <1>4

(* What a request puts on record is a range of days.                       *)
LEMMA NewRangeTyped ==
  ASSUME Typed, NEW r \in Readers, req[r].step = "save_metadata"
  PROVE  NewRange(r) \in Ranges
<1> DEFINE q == req[r]
<1>1. /\ q.rows \in SUBSET Days /\ window.from \in Days /\ window.to \in Days
      /\ q.plan # "full" => q.cover.from \in Days /\ q.cover.to \in Days
      /\ q.plan \in {"full", "suffix", "prefix"}
  BY WindowTyped DEF Typed, TypeOK, Requests, WellFormed, Ranges, Updating
<1>2. ~ q.empty => Min(q.rows) \in Days /\ Max(q.rows) \in Days
  BY <1>1, DaysExtrema DEF Typed, WellFormed
<1>3. FirstCovered(r) \in Days
  BY <1>1, <1>2 DEF FirstCovered
<1>4. LastCovered(r) \in Days
  BY <1>1, <1>2 DEF LastCovered
<1> QED
  BY <1>3, <1>4 DEF NewRange, Ranges

(* A step that leaves one well-formed request keeps the requests so.       *)
LEMMA ReplacedTyped ==
  ASSUME Typed, NEW r \in Readers, NEW n \in Requests, WellFormed(n),
         req' = [req EXCEPT ![r] = n]
  PROVE  req' \in [Readers -> Requests] /\ \A s \in Readers : WellFormed(req'[s])
<1> QED
  BY DEF Typed, TypeOK

(* A request that returns has its types.                                   *)
LEMMA ReturnTyped ==
  ASSUME Typed, NEW r \in Readers, NEW b \in BOOLEAN, Return(r, b)
  PROVE  /\ req' \in [Readers -> Requests] /\ \A s \in Readers : WellFormed(req'[s])
         /\ req'[r].step = "answered" /\ req'[r].rows = req[r].rows /\ req'[r].failed = b
         /\ \A s \in Readers : s # r => req'[s] = req[s]
<1> DEFINE n == [Idle EXCEPT !.step = "answered", !.rows = req[r].rows, !.failed = b]
<1>1. /\ n \in Requests /\ n.step = "answered" /\ n.rows = req[r].rows /\ n.failed = b
  BY DEF Typed, TypeOK, Requests, Idle, Resting, Busy, Updating, Ranges
<1>2. req' = [req EXCEPT ![r] = n]
  BY DEF Return
<1> HIDE DEF n
<1>3. WellFormed(n)
  BY <1>1 DEF WellFormed, Updating
<1>4. req' \in [Readers -> Requests] /\ \A s \in Readers : WellFormed(req'[s])
  BY <1>1, <1>2, <1>3, ReplacedTyped
<1> QED
  BY <1>1, <1>2, <1>4 DEF Typed, TypeOK

RestTyped ==
  /\ parquet \subseteq Days /\ corrupt \in BOOLEAN
  /\ meta \in Ranges \cup {NoMeta} /\ confirmed \in BOOLEAN
  /\ window \in Windows /\ seams \subseteq Days
  /\ calm \in BOOLEAN

RequestsTyped ==
  req \in [Readers -> Requests] /\ \A r \in Readers : WellFormed(req[r])

(* What a request passes over are days.                                    *)
LEMMA PassedTyped ==
  ASSUME Typed, NEW r \in Readers, req[r].step = "fetch", NEW nothing \in BOOLEAN
  PROVE  Skipped(r) \subseteq Days /\ EndLeftOut(r, nothing) \subseteq Days
<1>1. window.to \in Days
  BY PriceCacheAssumption DEF Typed, TypeOK, Ranges
<1> QED
  BY <1>1 DEF Typed, WellFormed, Skipped, EndLeftOut, Between

(* Each step of a request keeps the types.                                 *)
LEMMA RequestKeepsTypes ==
  \A r \in Readers : Typed /\ Request(r) => RestTyped' /\ RequestsTyped'
<1> SUFFICES ASSUME NEW r \in Readers, Typed, Request(r) PROVE RestTyped' /\ RequestsTyped'
  OBVIOUS
<1> DEFINE q == req[r]
<1>1. RestTyped /\ q \in Requests /\ WellFormed(q)
  BY DEF Typed, TypeOK, RestTyped
<1>2. CASE ReadParquet(r)
  <2> DEFINE n == [Idle EXCEPT !.step = IF corrupt THEN "fetch" ELSE "read_metadata",
                               !.rows = parquet]
  <2>1. n \in Requests /\ n.step \in {"fetch", "read_metadata"} /\ n.plan = "full" /\ ~ n.empty
    BY <1>1 DEF RestTyped, Requests, Idle, Resting, Busy, Updating, Ranges
  <2>2. req' = [req EXCEPT ![r] = n]
    BY <1>2 DEF ReadParquet
  <2> HIDE DEF n
  <2>3. WellFormed(n)
    BY <2>1 DEF WellFormed, Updating
  <2>4. RequestsTyped'
    BY <2>1, <2>2, <2>3, ReplacedTyped DEF RequestsTyped
  <2> QED
    BY <1>1, <1>2, <2>4 DEF ReadParquet, RestTyped, fileVars
<1>3. CASE ReadMetadata(r)
  <2>1. RestTyped'
    BY <1>1, <1>3 DEF ReadMetadata, RestTyped, fileVars
  <2>2. CASE Hit(Believed(r))
    <3>1. Return(r, FALSE)
      BY <1>3, <2>2 DEF ReadMetadata
    <3> QED
      BY <2>1, <3>1, ReturnTyped DEF RequestsTyped
  <2>3. CASE ~ Hit(Believed(r))
    <3> DEFINE c == Believed(r)
               n == [q EXCEPT !.step = "fetch", !.cover = c, !.plan = Strategy(c)]
    <3>1. c \in Ranges \cup {NoMeta}
      BY BelievedTyped DEF Typed
    <3>2. Strategy(c) \in {"full", "suffix", "prefix"} /\ (Strategy(c) # "full" => c # NoMeta)
      BY DEF Strategy
    <3>3. req' = [req EXCEPT ![r] = n] /\ q.step = "read_metadata"
      BY <1>3, <2>3 DEF ReadMetadata
    <3> HIDE DEF c
    <3>4. /\ n \in Requests /\ n.step = "fetch" /\ n.cover = c /\ n.plan = Strategy(c)
          /\ n.empty = q.empty
      BY <1>1, <3>1, <3>2 DEF Requests, Busy, Updating
    <3> HIDE DEF n
    <3>5. ~ q.empty
      BY <1>1, <3>3 DEF WellFormed
    <3>8. c # NoMeta /\ c.from > window.from => c.from - 1 \in Days
      <4>1. window.from \in Days
        BY WindowTyped DEF Typed
      <4>2. ASSUME c # NoMeta, c.from > window.from PROVE c.from - 1 \in Days
        <5>1. c.from \in Days
          BY <3>1, <4>2 DEF Ranges
        <5>2. c.from \in Nat /\ window.from \in Nat /\ 1 <= window.from /\ c.from <= Horizon
          BY <4>1, <5>1, PriceCacheAssumption DEF Days
        <5> QED
          BY <4>2, <5>2, PriceCacheAssumption DEF Days
      <4> QED
        BY <4>2
    <3>9. Strategy(c) = "prefix" => c # NoMeta /\ c.from > window.from
      BY DEF Strategy
    <3>6. WellFormed(n)
      BY <3>2, <3>4, <3>5, <3>8, <3>9 DEF WellFormed
    <3>7. RequestsTyped'
      BY <3>3, <3>4, <3>6, ReplacedTyped DEF RequestsTyped
    <3> QED
      BY <2>1, <3>7
  <2> QED
    BY <2>2, <2>3
<1>4. CASE SkipFetch(r) \/ FetchNothing(r)
  <2> DEFINE n == [q EXCEPT !.step = "save_metadata", !.empty = TRUE]
  <2>1. req' = [req EXCEPT ![r] = n] /\ q.step = "fetch"
    BY <1>4 DEF SkipFetch, FetchNothing, Asks
  <2>2. /\ n \in Requests /\ n.step = "save_metadata" /\ n.empty /\ n.plan = q.plan
        /\ n.cover = q.cover
    BY <1>1 DEF Requests, Busy, Updating
  <2> HIDE DEF n
  <2>3. WellFormed(n)
    BY <1>1, <2>1, <2>2 DEF WellFormed, Updating
  <2>4. RequestsTyped'
    BY <2>1, <2>2, <2>3, ReplacedTyped DEF RequestsTyped
  <2>5. seams' \subseteq Days
    BY <1>1, <1>4, <2>1, PassedTyped DEF SkipFetch, FetchNothing, RestTyped
  <2> QED
    BY <1>1, <1>4, <2>4, <2>5 DEF SkipFetch, FetchNothing, RestTyped, fileVars
<1>5. CASE FetchRows(r)
  <2> DEFINE n == [q EXCEPT !.step = "write_parquet", !.rows = Merged(r)]
  <2>1. req' = [req EXCEPT ![r] = n] /\ q.step = "fetch" /\ Fetched(r) # {}
    BY <1>5 DEF FetchRows, Asks
  <2>2. Merged(r) \subseteq Days /\ Merged(r) # {}
    BY <1>1, <2>1, FetchedTyped DEF Merged, Requests
  <2>3. /\ n \in Requests /\ n.step = "write_parquet" /\ n.empty = q.empty /\ n.plan = q.plan
        /\ n.cover = q.cover /\ n.rows = Merged(r)
    BY <1>1, <2>2 DEF Requests, Busy, Updating
  <2> HIDE DEF n
  <2>4. WellFormed(n)
    BY <1>1, <2>1, <2>2, <2>3 DEF WellFormed, Updating
  <2>5. RequestsTyped'
    BY <2>1, <2>3, <2>4, ReplacedTyped DEF RequestsTyped
  <2>6. seams' \subseteq Days
    BY <1>1, <1>5, <2>1, PassedTyped DEF FetchRows, RestTyped
  <2> QED
    BY <1>1, <1>5, <2>5, <2>6 DEF FetchRows, RestTyped, fileVars
<1>6. CASE FetchFails(r)
  <2>1. Return(r, TRUE)
    BY <1>6 DEF FetchFails
  <2> QED
    BY <1>1, <1>6, <2>1, ReturnTyped DEF FetchFails, RequestsTyped, RestTyped, fileVars
<1>7. CASE WriteParquet(r)
  <2> DEFINE n == [q EXCEPT !.step = "save_metadata"]
  <2>1. req' = [req EXCEPT ![r] = n] /\ q.step = "write_parquet"
    BY <1>7 DEF WriteParquet, Step
  <2>2. /\ n \in Requests /\ n.step = "save_metadata" /\ n.empty = q.empty /\ n.plan = q.plan
        /\ n.cover = q.cover /\ n.rows = q.rows
    BY <1>1 DEF Requests, Busy, Updating
  <2> HIDE DEF n
  <2>3. WellFormed(n)
    BY <1>1, <2>1, <2>2 DEF WellFormed, Updating
  <2>4. RequestsTyped'
    BY <2>1, <2>2, <2>3, ReplacedTyped DEF RequestsTyped
  <2>5. q.rows \subseteq Days
    BY <1>1 DEF Requests
  <2> QED
    BY <1>1, <1>7, <2>4, <2>5 DEF WriteParquet, RestTyped
<1>8. CASE SaveMetadata(r)
  <2>1. Return(r, FALSE) /\ NewRange(r) \in Ranges /\ q.empty \in BOOLEAN
    BY <1>1, <1>8, NewRangeTyped DEF SaveMetadata, Requests
  <2>2. RequestsTyped'
    BY <2>1, ReturnTyped DEF RequestsTyped
  <2>3. meta' \in Ranges \cup {NoMeta} /\ confirmed' \in BOOLEAN /\ calm' \in BOOLEAN
    BY <1>1, <1>8, <2>1 DEF SaveMetadata, RestTyped
  <2> QED
    BY <1>1, <1>8, <2>2, <2>3 DEF SaveMetadata, RestTyped
<1> QED
  BY <1>2, <1>3, <1>4, <1>5, <1>6, <1>7, <1>8 DEF Request

(* So does what happens around the requests.                               *)
LEMMA SurroundingsKeepTypes ==
  Typed /\ ((\E r \in Readers : Crash(r)) \/ NewCommand \/ Expire \/ Corrupt)
    => RestTyped' /\ RequestsTyped'
<1> SUFFICES ASSUME Typed, (\E r \in Readers : Crash(r)) \/ NewCommand \/ Expire \/ Corrupt
             PROVE  RestTyped' /\ RequestsTyped'
  OBVIOUS
<1>1. Idle \in Requests /\ Idle.step = "idle"
  BY DEF Requests, Idle, Resting, Busy, Updating, Ranges
<1>2. WellFormed(Idle)
  BY <1>1 DEF WellFormed, Updating
<1>3. RestTyped /\ RequestsTyped
  BY DEF Typed, TypeOK, RestTyped, RequestsTyped
<1>4. CASE \E r \in Readers : Crash(r)
  <2>1. PICK r \in Readers : Crash(r)
    BY <1>4
  <2>2. RequestsTyped'
    BY <1>1, <1>2, <2>1, ReplacedTyped DEF Crash, RequestsTyped
  <2> QED
    BY <1>3, <2>1, <2>2 DEF Crash, RestTyped, fileVars
<1>5. CASE NewCommand
  <2>1. RequestsTyped'
    BY <1>1, <1>2, <1>5 DEF NewCommand, RequestsTyped
  <2> QED
    BY <1>3, <1>5, <2>1 DEF NewCommand, RestTyped, fileVars
<1>6. CASE Expire
  BY <1>3, <1>6 DEF Expire, RestTyped, RequestsTyped
<1>7. CASE Corrupt
  BY <1>3, <1>7 DEF Corrupt, RestTyped, RequestsTyped
<1> QED
  BY <1>4, <1>5, <1>6, <1>7

(* Every variable keeps its type, whatever fails and whoever overlaps.     *)
THEOREM TypesKept == Spec => []Typed
<1>1. Init => Typed
  <2> SUFFICES ASSUME Init PROVE Typed
    OBVIOUS
  <2>1. Idle \in Requests /\ Idle.step = "idle"
    BY DEF Requests, Idle, Resting, Busy, Updating, Ranges
  <2>2. WellFormed(Idle)
    BY <2>1 DEF WellFormed, Updating
  <2>3. \A r \in Readers : req[r] = Idle
    BY DEF Init
  <2>4. req \in [Readers -> Requests]
    BY <2>1 DEF Init
  <2>5. /\ parquet \subseteq Days /\ seams \subseteq Days /\ meta \in Ranges \cup {NoMeta}
        /\ {corrupt, confirmed, calm, broken} \subseteq BOOLEAN
    BY DEF Init
  <2>6. TypeOK
    BY <2>4, <2>5 DEF Init, TypeOK
  <2> QED
    BY <2>2, <2>3, <2>6 DEF Typed
<1>2. Typed /\ [Next]_vars => Typed'
  <2> SUFFICES ASSUME Typed, [Next]_vars PROVE Typed'
    OBVIOUS
  <2>1. CASE Next
    <3>1. RestTyped' /\ RequestsTyped'
      BY <2>1, RequestKeepsTypes, SurroundingsKeepTypes DEF Next
    <3>2. broken' \in BOOLEAN
      BY <2>1 DEF Next, Typed, TypeOK
    <3> QED
      BY <3>1, <3>2 DEF Typed, TypeOK, RestTyped, RequestsTyped
  <2>2. CASE UNCHANGED vars
    BY <2>2 DEF vars, fileVars, Typed, TypeOK, WellFormed
  <2> QED
    BY <2>1, <2>2
<1> QED
  BY <1>1, <1>2, PTL DEF Spec

(* TypeOK is one part of it.                                               *)
THEOREM TypeCorrect == Spec => []TypeOK
<1>1. Typed => TypeOK
  BY DEF Typed
<1> QED
  BY <1>1, TypesKept, PTL

-----------------------------------------------------------------------------
(* Extending a range *)

(* Rows without a gap reaching the ends of a range have none reaching ends *)
(* within it.                                                              *)
LEMMA Narrow ==
  ASSUME NEW D \in SUBSET Days, NEW S \in SUBSET Days, NEW h \in Ranges,
         NEW c \in Ranges, LinkedIn(D, S, h),
         h.from <= c.from \/ \E x \in S : x <= c.from,
         c.to <= h.to \/ \E y \in S : c.to <= y
  PROVE  LinkedIn(D, S, c)
<1>1. \A d \in Days : d \in Int
  BY PriceCacheAssumption DEF Days
<1>2. h # NoMeta /\ c # NoMeta
  BY PriceCacheAssumption
<1>3. h.from \in Int /\ h.to \in Int /\ c.from \in Int /\ c.to \in Int
  BY <1>1 DEF Ranges
<1> SUFFICES ASSUME NEW d \in D,
                    (\E x \in S : x <= d) \/ c.from <= d,
                    (\E y \in S : d <= y) \/ d <= c.to
             PROVE  d \in S
  BY <1>2 DEF LinkedIn
<1>4. d \in Int /\ \A x \in S : x \in Int
  BY <1>1
<1>5. (\E x \in S : x <= d) \/ h.from <= d
  <2>1. CASE c.from <= d /\ h.from <= c.from
    BY <1>3, <1>4, <2>1
  <2>2. CASE c.from <= d /\ \E x \in S : x <= c.from
    BY <1>3, <1>4, <2>2
  <2> QED
    BY <2>1, <2>2
<1>6. (\E y \in S : d <= y) \/ d <= h.to
  <2>1. CASE d <= c.to /\ c.to <= h.to
    BY <1>3, <1>4, <2>1
  <2>2. CASE d <= c.to /\ \E y \in S : c.to <= y
    BY <1>3, <1>4, <2>2
  <2> QED
    BY <2>1, <2>2
<1> QED
  BY <1>2, <1>5, <1>6 DEF LinkedIn

(* Nor do they among themselves.                                           *)
LEMMA Gapless == \A S, c : Linked(S, c) => Linked(S, NoMeta)
<1> QED
  BY DEF Linked, LinkedIn

(* So the range of the rows may stand for missing metadata.                *)
LEMMA RowsRange ==
  ASSUME NEW S \in SUBSET Days, S # {}, Linked(S, NoMeta)
  PROVE  LET c == [from |-> Min(S), to |-> Max(S)]
         IN  c \in Ranges /\ Ordered(c) /\ Linked(S, c)
<1>1. Min(S) \in S /\ Max(S) \in S /\ \A d \in S : Min(S) <= d /\ d <= Max(S)
  BY DaysExtrema
<1> DEFINE c == [from |-> Min(S), to |-> Max(S)]
<1>2. c \in Ranges /\ Ordered(c) /\ c.from \in S /\ c.to \in S
  BY <1>1 DEF Ranges, Ordered
<1> HIDE DEF c
<1>3. Linked(S, c)
  BY <1>2 DEF Linked, LinkedIn
<1> QED
  BY <1>2, <1>3 DEF c

(* The next trading day to ask for lies after the covered range.           *)
LEMMA NextDayIsNext ==
  ASSUME NEW c \in Ranges, window \in Windows, c.to < window.to
  PROVE  NextDay(c) \in c.to + 1 .. window.to + 1
<1>1. c.to \in Nat /\ window.to \in Nat /\ TradingDays \subseteq Nat
  BY PriceCacheAssumption DEF Ranges, Days
<1> DEFINE S == {d \in c.to + 1 .. window.to + 1 : d \in TradingDays \/ d > window.to}
<1>2. S \in SUBSET Nat /\ window.to + 1 \in S
  BY <1>1
<1>3. PICK d \in S : \A e \in S : d <= e
  <2> HIDE DEF S
  <2> QED
    BY <1>2, LeastExists
<1>4. \A e \in c.to + 1 .. d - 1 : e \notin TradingDays
  <2> SUFFICES ASSUME NEW e \in c.to + 1 .. d - 1, e \in TradingDays PROVE FALSE
    OBVIOUS
  <2>1. d \in c.to + 1 .. window.to + 1
    BY <1>3
  <2>2. e \in c.to + 1 .. window.to + 1 /\ e \in TradingDays /\ ~ (d <= e)
    BY <1>1, <2>1
  <2> QED
    BY <1>3, <2>2
<1> DEFINE P(x) == /\ x \in TradingDays \/ x > window.to
                   /\ \A e \in c.to + 1 .. x - 1 : e \notin TradingDays
<1>5. d \in c.to + 1 .. window.to + 1 /\ P(d)
  BY <1>3, <1>4
<1>6. NextDay(c) = CHOOSE x \in c.to + 1 .. window.to + 1 : P(x)
  BY DEF NextDay
<1> HIDE DEF P
<1> QED
  BY <1>5, <1>6

\* What a request gains from its fetch, if it asks at all
Gained(r) == IF OnlyHolidaysLeft(r) THEN {} ELSE Fetched(r)

\* The last day it may claim if it does not extend backwards: the last day of
\* the question, or its excluded end if there was no answer
Top(r, nothing) ==
  IF nothing /\ req[r].plan # "prefix" THEN window.to ELSE window.to - 1

\* The days it lacks, going by the range it believes covered
Lacking(r, nothing) ==
  CASE req[r].plan = "suffix" -> [from |-> req[r].cover.to + 1, to |-> Top(r, nothing)]
    [] req[r].plan = "prefix" -> [from |-> window.from, to |-> req[r].cover.from - 1]
    [] OTHER                  -> [from |-> window.from, to |-> Top(r, nothing)]

\* The range the request believes covered, extended to its window
Hull(r, nothing) ==
  LET c == req[r].cover
  IN  [from |-> IF c # NoMeta /\ c.from <= window.from THEN c.from ELSE window.from,
       to   |-> IF c # NoMeta /\ c.to >= window.to THEN c.to ELSE Top(r, nothing)]

\* A request that is about to fetch
Fetching(r) ==
  LET q == req[r]
  IN  /\ q.plan = Strategy(q.cover) /\ ~ Hit(q.cover)
      /\ q.cover # NoMeta => Ordered(q.cover) /\ Linked(q.rows, q.cover)
      /\ q.cover = NoMeta => q.rows = {}

\* D: the days that neither this request nor another takes as covered unasked
Unpassed(r, nothing, D) ==
  /\ D \subseteq Sought
  /\ D \cap Skipped(r) = {} /\ D \cap EndLeftOut(r, nothing) = {}
  /\ nothing <=> Gained(r) = {}

(* It gains the priced days of D it lacks, and no day it does not lack.    *)
LEMMA GainedLacking ==
  ASSUME TypeOK, NEW r \in Readers, Fetching(r), NEW nothing \in BOOLEAN,
         NEW D, Unpassed(r, nothing, D)
  PROVE  LET l == Lacking(r, nothing)
         IN  /\ \A d \in D : l.from <= d /\ d <= l.to => d \in Gained(r)
             /\ \A d \in Gained(r) : d \in Days /\ l.from <= d /\ d <= l.to
<1> DEFINE q == req[r]
           c == q.cover
           lo == Lacking(r, nothing).from
           hi == Lacking(r, nothing).to
<1> SUFFICES /\ \A d \in D : lo <= d /\ d <= hi => d \in Gained(r)
             /\ \A d \in Gained(r) : d \in Days /\ lo <= d /\ d <= hi
  OBVIOUS
<1> HIDE DEF lo, hi
<1>1. /\ window \in Windows /\ window.from \in Nat /\ window.to \in Nat
      /\ DataDays \subseteq Days /\ Days \subseteq Nat /\ c \in Ranges \cup {NoMeta}
      /\ window.from \in Days /\ window.to \in Days
  BY WindowTyped, PriceCacheAssumption DEF TypeOK, Requests
<1>7. \A d \in DataDays : d \in Days /\ d \in Nat
  BY <1>1
<1>2. ASSUME NEW a \in Int, NEW b \in Int
      PROVE  Answer(a, b) = {d \in DataDays : a <= d /\ d < b}
  <2>1. \A d \in DataDays : d < b <=> d <= b - 1
    BY <1>7
  <2> QED
    BY <1>7, <2>1 DEF Answer, Between
<1>3. \A d \in D : d \in DataDays /\ d \in Days /\ d \in Nat
  BY <1>1 DEF Unpassed, Sought
<1>4. CASE q.plan = "suffix"
  <2>1. c \in Ranges /\ c.to < window.to /\ c.to \in Nat
    BY <1>1, <1>4 DEF Fetching, Strategy, Ranges, Days
  <2>2. NextDay(c) \in c.to + 1 .. window.to + 1 /\ NextDay(c) \in Nat
    BY <1>1, <2>1, NextDayIsNext
  <2>3. lo = c.to + 1 /\ hi = (IF nothing THEN window.to ELSE window.to - 1)
    BY <1>4 DEF Lacking, Top, lo, hi
  <2>4. \A d \in D : c.to + 1 <= d => NextDay(c) <= d
    <3> SUFFICES ASSUME NEW d \in D, c.to + 1 <= d, ~ (NextDay(c) <= d) PROVE FALSE
      OBVIOUS
    <3>1. d \in Days /\ d \in Nat
      BY <1>1, <1>3
    <3>2. d <= NextDay(c) - 1
      BY <2>2, <3>1
    <3>3. d \in Skipped(r)
      BY <1>4, <3>1, <3>2 DEF Skipped, Between
    <3> QED
      BY <3>3 DEF Unpassed
  <2>5. CASE NextDay(c) > window.to
    <3>1. Gained(r) = {}
      BY <1>4, <2>5 DEF Gained, OnlyHolidaysLeft
    <3>2. \A d \in D : ~ (c.to + 1 <= d /\ d <= window.to)
      BY <1>1, <1>3, <2>1, <2>2, <2>4, <2>5
    <3>3. nothing
      BY <3>1 DEF Unpassed
    <3> QED
      BY <2>3, <3>1, <3>2, <3>3
  <2>6. CASE ~ (NextDay(c) > window.to)
    <3>1. Gained(r) = {d \in DataDays : NextDay(c) <= d /\ d < window.to}
      BY <1>1, <1>2, <1>4, <2>2, <2>6 DEF Gained, OnlyHolidaysLeft, Fetched
    <3>2. nothing => window.to \notin D
      BY <1>4 DEF Unpassed, EndLeftOut
    <3>3. \A d \in D : lo <= d /\ d <= hi => d \in Gained(r)
      BY <1>1, <1>3, <2>3, <2>4, <3>1, <3>2
    <3>4. Gained(r) # {} => ~ nothing
      BY DEF Unpassed
    <3>6. NextDay(c) >= c.to + 1
      BY <2>1, <2>2
    <3>5. ASSUME NEW d \in Gained(r) PROVE d \in Days /\ lo <= d /\ d <= hi
      <4>1. d \in Days /\ d \in Nat /\ NextDay(c) <= d /\ d < window.to /\ ~ nothing
        BY <1>7, <3>1, <3>4, <3>5
      <4> QED
        BY <1>1, <2>1, <2>2, <2>3, <3>6, <4>1
    <3> QED
      BY <3>3, <3>5
  <2> QED
    BY <2>5, <2>6
<1>5. CASE q.plan = "prefix"
  <2>1. c \in Ranges /\ c.from \in Nat
    BY <1>1, <1>5 DEF Fetching, Strategy, Ranges, Days
  <2>2. Gained(r) = {d \in DataDays : window.from <= d /\ d < c.from - 1}
    BY <1>1, <1>2, <1>5, <2>1 DEF Gained, OnlyHolidaysLeft, Fetched
  <2>3. c.from - 1 \notin D
    BY <1>5 DEF Unpassed, EndLeftOut
  <2>4. lo = window.from /\ hi = c.from - 1
    BY <1>5 DEF Lacking, lo, hi
  <2>5. \A d \in D : lo <= d /\ d <= hi => d \in Gained(r)
    BY <1>1, <1>3, <1>7, <2>1, <2>2, <2>3, <2>4
  <2>6. ASSUME NEW d \in Gained(r) PROVE d \in Days /\ lo <= d /\ d <= hi
    <3>1. d \in Days /\ d \in Nat
      BY <1>7, <2>1, <2>2, <2>6
    <3> QED
      BY <1>1, <2>1, <2>2, <2>3, <2>4, <2>6, <3>1
  <2> QED
    BY <2>5, <2>6
<1>6. CASE q.plan \notin {"suffix", "prefix"}
  <2>1. Gained(r) = {d \in DataDays : window.from <= d /\ d < window.to}
    BY <1>1, <1>2, <1>6 DEF Gained, OnlyHolidaysLeft, Fetched
  <2>2. nothing => window.to \notin D
    BY <1>6 DEF Unpassed, EndLeftOut
  <2>3. lo = window.from /\ hi = (IF nothing THEN window.to ELSE window.to - 1)
    BY <1>6 DEF Lacking, Top, lo, hi
  <2>4. Gained(r) # {} => ~ nothing
    BY DEF Unpassed
  <2>5. \A d \in D : lo <= d /\ d <= hi => d \in Gained(r)
    BY <1>1, <1>3, <1>7, <2>1, <2>2, <2>3, <2>4
  <2>6. ASSUME NEW d \in Gained(r) PROVE d \in Days /\ lo <= d /\ d <= hi
    <3>1. d \in Days /\ d \in Nat
      BY <1>7, <2>1, <2>2, <2>6
    <3> QED
      BY <1>1, <2>1, <2>2, <2>3, <2>4, <2>6, <3>1
  <2> QED
    BY <2>5, <2>6
<1> QED
  BY <1>4, <1>5, <1>6

(* With them its rows reach over its window without a gap.                 *)
LEMMA GainedLinks ==
  ASSUME TypeOK, NEW r \in Readers, Fetching(r), NEW nothing \in BOOLEAN,
         NEW D, Unpassed(r, nothing, D)
  PROVE  LET h == Hull(r, nothing)
         IN  /\ LinkedIn(D, req[r].rows \cup Gained(r), h)
             /\ h \in Ranges
             /\ h.from <= window.from /\ Top(r, nothing) <= h.to
             /\ req[r].cover # NoMeta => /\ h.from <= req[r].cover.from
                                         /\ req[r].cover.to <= h.to
<1> DEFINE q == req[r]
           c == q.cover
           h == Hull(r, nothing)
           t == Top(r, nothing)
           S == q.rows \cup Gained(r)
           lo == Lacking(r, nothing).from
           hi == Lacking(r, nothing).to
<1>1. /\ window.from \in Days /\ window.to \in Days /\ window.from < window.to
      /\ Days \subseteq Nat /\ c \in Ranges \cup {NoMeta} /\ q.rows \subseteq Days
  BY PriceCacheAssumption DEF TypeOK, Requests, Ranges, Days
<1>2. /\ \A d \in D : lo <= d /\ d <= hi => d \in Gained(r)
      /\ \A d \in Gained(r) : d \in Days /\ lo <= d /\ d <= hi
  <2> HIDE DEF lo, hi
  <2> QED
    BY GainedLacking DEF lo, hi
<1>3. D \subseteq Days
  BY PriceCacheAssumption DEF Unpassed, Sought
<1>4. /\ t \in {window.to - 1, window.to} /\ t \in Days /\ window.from <= t
      /\ q.plan = "prefix" => t = window.to - 1
  <2>1. t \in {window.to - 1, window.to} /\ (q.plan = "prefix" => t = window.to - 1)
    BY DEF Top
  <2>2. \A x \in {window.to - 1, window.to} : x \in Days /\ window.from <= x
    BY <1>1, PriceCacheAssumption DEF Days
  <2> HIDE DEF t
  <2> QED
    BY <2>1, <2>2
<1>5. /\ h.from = (IF c # NoMeta /\ c.from <= window.from THEN c.from ELSE window.from)
      /\ h.to = (IF c # NoMeta /\ c.to >= window.to THEN c.to ELSE t)
  BY DEF Hull
<1>6. c # NoMeta => c \in Ranges /\ c.from \in Days /\ c.to \in Days /\ c.from <= c.to
  BY <1>1 DEF Fetching, Ordered, Ranges
<1>7. h.from \in Days /\ h.to \in Days
  <2> HIDE DEF t
  <2> QED
    BY <1>1, <1>4, <1>5, <1>6
<1>8. h \in Ranges
  BY <1>7 DEF Hull, Ranges
<1>9. h # NoMeta
  BY <1>8, PriceCacheAssumption
<1>10. {window.from, window.to, t, h.from, h.to} \subseteq Nat
       /\ (c # NoMeta => {c.from, c.to} \subseteq Nat)
  BY <1>1, <1>4, <1>6, <1>7
<1> HIDE DEF h, t
<1>11. /\ h.from <= window.from /\ t <= h.to
       /\ c # NoMeta => h.from <= c.from /\ c.to <= h.to
  BY <1>4, <1>5, <1>10
<1>12. ASSUME NEW d \in D,
              (\E x \in S : x <= d) \/ h.from <= d,
              (\E y \in S : d <= y) \/ d <= h.to
       PROVE  d \in S
  <2>1. d \in Nat /\ \A x \in q.rows : x \in Nat
    BY <1>1, <1>3
  <2>2. \A x \in S : x \in q.rows \/ (x \in Nat /\ lo <= x /\ x <= hi)
    BY <1>1, <1>2
  <2>3. (lo <= d /\ d <= hi) => d \in S
    BY <1>2
  <2>4. /\ c # NoMeta
        /\ (\E x \in q.rows : x <= d) \/ c.from <= d
        /\ (\E y \in q.rows : d <= y) \/ d <= c.to
        => d \in q.rows
    BY DEF Fetching, Linked, LinkedIn, Unpassed
  <2>5. CASE c = NoMeta
    <3>1. q.rows = {} /\ q.plan = "full"
      BY <2>5 DEF Fetching, Strategy
    <3>2. lo = window.from /\ hi = t
      BY <3>1 DEF Lacking, t
    <3>3. h.from = window.from /\ h.to = t
      BY <1>5, <2>5
    <3> HIDE DEF lo, hi, S
    <3> QED
      BY <1>10, <1>12, <2>1, <2>2, <2>3, <3>1, <3>2, <3>3
  <2>6. CASE c # NoMeta /\ q.plan = "suffix"
    <3>1. c.from <= window.from /\ c.to < window.to
      BY <2>6 DEF Fetching, Strategy
    <3>2. lo = c.to + 1 /\ hi = t
      BY <2>6 DEF Lacking, t
    <3>3. h.from = c.from /\ h.to = t
      BY <1>5, <1>10, <2>6, <3>1
    <3> HIDE DEF lo, hi, S
    <3>4. CASE d <= c.to
      BY <1>10, <1>12, <2>1, <2>2, <2>4, <2>6, <3>1, <3>2, <3>3, <3>4 DEF S
    <3>5. CASE c.to < d /\ d <= t
      BY <1>10, <2>1, <2>3, <2>6, <3>2, <3>5
    <3>6. CASE t < d
      BY <1>4, <1>10, <1>11, <1>12, <2>1, <2>2, <2>4, <2>6, <3>1, <3>2, <3>3, <3>6 DEF S
    <3> QED
      BY <1>10, <2>1, <2>6, <3>4, <3>5, <3>6
  <2>7. CASE c # NoMeta /\ q.plan = "prefix"
    <3>1. c.from > window.from /\ c.to >= window.to
      BY <2>7 DEF Fetching, Strategy
    <3>2. lo = window.from /\ hi = c.from - 1
      BY <2>7 DEF Lacking
    <3>3. h.from = window.from /\ h.to = c.to
      BY <1>5, <1>10, <2>7, <3>1
    <3> HIDE DEF lo, hi, S
    <3>4. CASE c.from <= d
      BY <1>6, <1>10, <1>12, <2>1, <2>2, <2>4, <2>7, <3>1, <3>2, <3>3, <3>4 DEF S
    <3>5. CASE window.from <= d /\ d < c.from
      BY <1>10, <2>1, <2>3, <2>7, <3>2, <3>5
    <3>6. CASE d < window.from
      BY <1>6, <1>10, <1>12, <2>1, <2>2, <2>4, <2>7, <3>1, <3>2, <3>3, <3>6 DEF S
    <3> QED
      BY <1>10, <2>1, <2>7, <3>4, <3>5, <3>6
  <2>8. CASE c # NoMeta /\ q.plan \notin {"suffix", "prefix"}
    <3>1. c.from > window.from /\ c.to < window.to
      BY <1>10, <2>8 DEF Fetching, Strategy, Hit
    <3>2. lo = window.from /\ hi = t
      BY <2>8 DEF Lacking, t
    <3>3. h.from = window.from /\ h.to = t
      BY <1>5, <1>10, <2>8, <3>1
    <3>7. c.from <= t /\ c.to <= t
      BY <1>4, <1>6, <1>10, <2>8, <3>1
    <3> HIDE DEF lo, hi, S
    <3>4. CASE d < window.from
      BY <1>6, <1>10, <1>12, <2>1, <2>2, <2>4, <2>8, <3>1, <3>2, <3>3, <3>4, <3>7 DEF S
    <3>5. CASE window.from <= d /\ d <= t
      BY <1>10, <2>1, <2>3, <3>2, <3>5
    <3>6. CASE t < d
      BY <1>6, <1>10, <1>12, <2>1, <2>2, <2>4, <2>8, <3>1, <3>2, <3>3, <3>6, <3>7 DEF S
    <3> QED
      BY <1>10, <2>1, <3>4, <3>5, <3>6
  <2> QED
    BY <2>5, <2>6, <2>7, <2>8
<1>13. LinkedIn(D, S, h)
  <2> HIDE DEF S
  <2> QED
    BY <1>9, <1>12 DEF LinkedIn
<1> QED
  BY <1>8, <1>11, <1>13 DEF h, t

\* What NewRange claims after the fetch, of rows S
Claim(r, S, nothing) ==
  [from |-> CASE req[r].plan = "suffix" -> req[r].cover.from
              [] req[r].plan # "suffix" /\ nothing -> window.from
              [] OTHER -> Min(S),
   to   |-> CASE req[r].plan = "prefix" -> req[r].cover.to
              [] req[r].plan # "prefix" /\ nothing -> window.to
              [] OTHER -> Max(S)]

(* Going by them, it may claim that.                                       *)
LEMMA GainedRange ==
  ASSUME TypeOK, NEW r \in Readers, Fetching(r), NEW empty \in BOOLEAN,
         NEW D, Unpassed(r, empty, D),
         req[r].plan # "full" => req[r].cover # NoMeta
  PROVE  LET S == req[r].rows \cup Gained(r)
             c == Claim(r, S, empty)
         IN  /\ LinkedIn(D, S, c) /\ Ordered(c)
             /\ Answer(window.from, window.to) \cap D \subseteq S
             /\ req[r].cover # NoMeta => LinkedIn(D, S, req[r].cover)
<1> DEFINE q == req[r]
           S == q.rows \cup Gained(r)
           c == Claim(r, S, empty)
           h == Hull(r, empty)
           t == Top(r, empty)
           lo == Lacking(r, empty).from
           hi == Lacking(r, empty).to
<1>1. /\ window.from \in Days /\ window.to \in Days /\ window.from < window.to
      /\ Days \subseteq Nat /\ q.cover \in Ranges \cup {NoMeta}
      /\ q.rows \subseteq Days /\ q.plan \in {"full", "suffix", "prefix"}
      /\ D \in SUBSET Days
  BY PriceCacheAssumption DEF TypeOK, Requests, Ranges, Days, Unpassed, Sought
<1>2. /\ \A d \in Gained(r) : d \in Days /\ lo <= d /\ d <= hi
      /\ S \in SUBSET Days
  <2>1. \A d \in Gained(r) : d \in Days /\ lo <= d /\ d <= hi
    <3> HIDE DEF lo, hi
    <3> QED
      BY GainedLacking DEF lo, hi
  <2> QED
    BY <1>1, <2>1
<1>3. /\ LinkedIn(D, S, h) /\ h \in Ranges /\ h.from <= window.from /\ t <= h.to
      /\ q.cover # NoMeta => h.from <= q.cover.from /\ q.cover.to <= h.to
  <2> HIDE DEF h, t
  <2> QED
    BY GainedLinks DEF h, t
<1>14. t = (IF empty /\ q.plan # "prefix" THEN window.to ELSE window.to - 1)
  BY DEF Top
<1>15. empty <=> Gained(r) = {}
  BY DEF Unpassed
<1> HIDE DEF h, t
<1>4. ~ empty => /\ Min(S) \in S /\ Max(S) \in S
                 /\ \A d \in S : Min(S) <= d /\ d <= Max(S)
  BY <1>2, <1>15, DaysExtrema
<1>16. \A d \in Gained(r) : d \in S
  OBVIOUS
<1> HIDE DEF S
<1>11. /\ c.from = (CASE q.plan = "suffix" -> q.cover.from
                     [] q.plan # "suffix" /\ empty -> window.from
                     [] OTHER -> Min(S))
       /\ c.to = (CASE q.plan = "prefix" -> q.cover.to
                   [] q.plan # "prefix" /\ empty -> window.to
                   [] OTHER -> Max(S))
       /\ DOMAIN c = {"from", "to"} /\ c = [from |-> c.from, to |-> c.to]
  BY DEF Claim
<1> HIDE DEF c
<1>12. c.from \in Days /\ c.to \in Days /\ c \in Ranges
  <2>1. q.cover # NoMeta => q.cover.from \in Days /\ q.cover.to \in Days
    BY <1>1 DEF Ranges
  <2>2. ~ empty => Min(S) \in Days /\ Max(S) \in Days
    BY <1>2, <1>4
  <2>3. c.from \in Days /\ c.to \in Days
    BY <1>1, <1>11, <2>1, <2>2
  <2> QED
    BY <1>11, <2>3 DEF Ranges
<1>5. {h.from, h.to, c.from, c.to, window.from, window.to} \subseteq Nat
      /\ (q.cover # NoMeta => {q.cover.from, q.cover.to} \subseteq Nat)
      /\ S \subseteq Nat
  BY <1>1, <1>2, <1>3, <1>12 DEF Ranges
<1>6. h.from <= c.from \/ \E x \in S : x <= c.from
  <2>1. CASE c.from \in S
    BY <1>5, <2>1
  <2>2. CASE c.from \in {q.cover.from, window.from} /\ (c.from = window.from \/ q.cover # NoMeta)
    BY <1>3, <2>2
  <2> QED
    BY <1>4, <1>11, <2>1, <2>2
<1>7. c.to <= h.to \/ \E y \in S : c.to <= y
  <2>1. CASE c.to \in S
    BY <1>5, <2>1
  <2>2. CASE c.to = q.cover.to /\ q.cover # NoMeta
    BY <1>3, <2>2
  <2>3. CASE c.to = window.to /\ q.plan # "prefix" /\ empty
    BY <1>3, <1>14, <2>3
  <2> QED
    BY <1>1, <1>4, <1>11, <2>1, <2>2, <2>3
<1>8. LinkedIn(D, S, c)
  <2>1. D \in SUBSET Days /\ S \in SUBSET Days /\ h \in Ranges /\ LinkedIn(D, S, h)
    BY <1>1, <1>2, <1>3
  <2> HIDE DEF lo, hi, q
  <2> QED
    BY <1>6, <1>7, <1>12, <2>1, Narrow
<1>9. Answer(window.from, window.to) \cap D \subseteq S
  <2>1. h # NoMeta
    BY <1>3, PriceCacheAssumption
  <2> SUFFICES ASSUME NEW d \in D, d \in Days, window.from <= d, d <= window.to - 1
               PROVE  d \in S
    BY DEF Answer, Between
  <2>2. h.from <= d /\ d <= h.to
    BY <1>1, <1>3, <1>5, <1>14
  <2> QED
    BY <1>3, <2>1, <2>2 DEF LinkedIn
<1>10. Ordered(c)
  <2>1. q.cover # NoMeta => q.cover.from <= q.cover.to
    BY DEF Fetching, Ordered
  <2>2. CASE q.plan = "suffix"
    <3>1. q.cover # NoMeta /\ q.cover.from <= window.from /\ q.cover.to < window.to
          /\ c.from = q.cover.from /\ lo = q.cover.to + 1
      BY <1>11, <2>2 DEF Fetching, Strategy, Lacking
    <3> HIDE DEF lo, hi
    <3>2. CASE empty
      BY <1>1, <1>5, <1>11, <2>2, <3>1, <3>2 DEF Ordered
    <3>3. CASE ~ empty
      <4>1. PICK d \in Gained(r) : d \in S /\ q.cover.to + 1 <= d
        BY <1>2, <1>15, <1>16, <3>1, <3>3
      <4>2. d <= c.to
        BY <1>4, <1>11, <2>2, <3>3, <4>1
      <4>3. d \in Nat
        BY <1>5, <4>1
      <4> QED
        BY <1>5, <2>1, <3>1, <4>1, <4>2, <4>3 DEF Ordered
    <3> QED
      BY <3>2, <3>3
  <2>3. CASE q.plan = "prefix"
    <3>1. q.cover # NoMeta /\ q.cover.from > window.from /\ q.cover.to >= window.to
          /\ c.to = q.cover.to /\ hi = q.cover.from - 1
      BY <1>11, <2>3 DEF Fetching, Strategy, Lacking
    <3> HIDE DEF lo, hi
    <3>2. CASE empty
      BY <1>1, <1>5, <1>11, <2>3, <3>1, <3>2 DEF Ordered
    <3>3. CASE ~ empty
      <4>1. PICK d \in Gained(r) : d \in S /\ d <= q.cover.from - 1
        BY <1>2, <1>15, <1>16, <3>1, <3>3
      <4>2. c.from <= d
        BY <1>4, <1>11, <2>3, <3>3, <4>1
      <4>3. d \in Nat
        BY <1>5, <4>1
      <4> QED
        BY <1>5, <2>1, <3>1, <4>1, <4>2, <4>3 DEF Ordered
    <3> QED
      BY <3>2, <3>3
  <2>4. CASE q.plan = "full"
    <3>1. CASE empty
      BY <1>1, <1>5, <1>11, <2>4, <3>1 DEF Ordered
    <3>2. CASE ~ empty
      BY <1>4, <1>11, <2>4, <3>2 DEF Ordered
    <3> QED
      BY <3>1, <3>2
  <2> QED
    BY <1>1, <2>2, <2>3, <2>4
<1>13. q.cover # NoMeta => LinkedIn(D, S, q.cover)
  BY <1>1, <1>2, <1>3, Narrow
<1> QED
  BY <1>8, <1>9, <1>10, <1>13 DEF c, S

-----------------------------------------------------------------------------
(* The invariant *)

\* What the metadata still says when a request has rows to write
MayCover(r) ==
  req[r].cover # NoMeta =>
    meta \in {NoMeta, req[r].cover} /\ Linked(req[r].rows, req[r].cover)

Whole(r) == Missing(r) \subseteq seams

Current(r) == ~ corrupt => req[r].rows = parquet

Claims(r) == Linked(req[r].rows, NewRange(r)) /\ Ordered(NewRange(r)) /\ Whole(r)

Sound(r) ==
  LET q == req[r]
  IN  /\ q.step = "read_metadata" => Linked(q.rows, meta) /\ Current(r)
      /\ q.step = "fetch" => Fetching(r) /\ MayCover(r) /\ Current(r)
      /\ q.step = "write_parquet" => MayCover(r) /\ Claims(r)
      /\ q.step = "save_metadata" => Claims(r) /\ Current(r)
      /\ q.step = "answered" /\ ~ q.failed => Whole(r)

Honest == ~ corrupt /\ (\A r \in Readers : ~ Outdated(r)) => Linked(parquet, meta)

MetaOrdered == meta # NoMeta => Ordered(meta)

FilesSound == (corrupt => parquet = {}) /\ Honest /\ MetaOrdered

CacheInv ==
  ~ broken => ~ Overlap /\ FilesSound /\ \A r \in Readers : Sound(r)

-----------------------------------------------------------------------------
(* A range without a gap has none where more days are passed over.         *)
LEMMA SeamsGrow ==
  ASSUME seams \subseteq seams'
  PROVE  \A S, c : Linked(S, c) => Linked(S, c)'
<1> QED
  BY DEF Linked, LinkedIn, Sought

(* A step that leaves the files and a request alone leaves it sound.       *)
LEMMA OthersSound ==
  ASSUME NEW s \in Readers, Sound(s), req'[s] = req[s],
         UNCHANGED <<parquet, corrupt, meta, window>>, seams \subseteq seams'
  PROVE  Sound(s)'
<1>1. \A S, c : Linked(S, c) => Linked(S, c)'
  BY SeamsGrow
<1>2. /\ Fetching(s) => Fetching(s)'
      /\ MayCover(s) => MayCover(s)'
      /\ Current(s) => Current(s)'
  BY <1>1 DEF Fetching, MayCover, Current, Strategy, Hit, Ordered
<1>3. Whole(s) => Whole(s)'
  BY DEF Whole, Missing, Answer
<1>4. NewRange(s)' = NewRange(s)
  BY DEF NewRange, FirstCovered, LastCovered
<1>5. Claims(s) => Claims(s)'
  BY <1>1, <1>3, <1>4 DEF Claims, Ordered
<1> QED
  BY <1>1, <1>2, <1>3, <1>5 DEF Sound

(* A request at rest is sound, whatever becomes of the files.              *)
LEMMA RestingSound ==
  ASSUME NEW s \in Readers, Sound(s), req[s].step \in Resting, req'[s] = req[s],
         UNCHANGED window, seams \subseteq seams'
  PROVE  Sound(s)'
<1> QED
  BY DEF Sound, Resting, Whole, Missing, Answer

(* Nobody else is busy while a request updates the files.                  *)
LEMMA Alone ==
  ASSUME Typed, ~ Overlap, NEW r \in Readers, req[r].step \in Updating
  PROVE  \A s \in Readers : s # r => req[s].step \in Resting /\ ~ Outdated(s)
<1> QED
  BY DEF Overlap, Typed, TypeOK, Requests, Busy, Updating, Resting, Outdated

(* A step of one request that leaves the files alone leaves them sound, and *)
(* the other requests.                                                     *)
LEMMA FilesUntouched ==
  ASSUME Typed, FilesSound, \A s \in Readers : Sound(s), ~ LeftOutdated,
         NEW r \in Readers, NEW n, req' = [req EXCEPT ![r] = n],
         req[r].step = "save_metadata" => n.step # "save_metadata",
         UNCHANGED <<parquet, corrupt, meta, window>>, seams \subseteq seams'
  PROVE  FilesSound' /\ \A s \in Readers : s # r => Sound(s)'
<1>1. req'[r] = n /\ \A s \in Readers : s # r => req'[s] = req[s]
  BY DEF Typed, TypeOK
<1>2. \A s \in Readers : s # r => Sound(s)'
  BY <1>1, OthersSound
<1>3. (\A s \in Readers : ~ Outdated(s)') => \A s \in Readers : ~ Outdated(s)
  <2> SUFFICES ASSUME \A s \in Readers : ~ Outdated(s)', NEW s \in Readers, Outdated(s)
               PROVE  FALSE
    OBVIOUS
  <2>1. CASE s # r
    BY <1>1, <2>1 DEF Outdated
  <2>2. CASE s = r
    BY <1>1, <2>2 DEF Outdated, LeftOutdated
  <2> QED
    BY <2>1, <2>2
<1>4. Honest'
  BY <1>3, SeamsGrow DEF FilesSound, Honest
<1> QED
  BY <1>2, <1>4 DEF FilesSound, MetaOrdered, Ordered

-----------------------------------------------------------------------------
(* Each step of a request keeps the files and the requests sound.          *)

SoundAll == FilesSound /\ \A s \in Readers : Sound(s)

\* A step that neither overlaps nor leaves outdated metadata behind
Careful == Typed /\ SoundAll /\ ~ Overlap /\ ~ Overlap' /\ ~ LeftOutdated

(* It starts with the rows of a file that is up to date.                   *)
LEMMA ReadParquetSound ==
  ASSUME Careful, NEW r \in Readers, ReadParquet(r)
  PROVE  SoundAll'
<1> DEFINE n == [Idle EXCEPT !.step = IF corrupt THEN "fetch" ELSE "read_metadata",
                             !.rows = parquet]
<1>1. /\ req' = [req EXCEPT ![r] = n] /\ req[r].step \in Resting
      /\ UNCHANGED <<parquet, corrupt, meta, window, seams>>
  BY DEF ReadParquet, fileVars
<1>2. /\ n.step = (IF corrupt THEN "fetch" ELSE "read_metadata") /\ n.rows = parquet
      /\ n.cover = NoMeta /\ n.plan = "full" /\ ~ n.empty
  BY DEF Idle
<1> HIDE DEF n
<1>3. req[r].step # "save_metadata"
  BY <1>1 DEF Resting
<1>4. FilesSound' /\ \A s \in Readers : s # r => Sound(s)'
  BY <1>1, <1>3, FilesUntouched DEF Careful, SoundAll
<1>5. req'[r] = n /\ \A s \in Readers : s # r => req'[s] = req[s]
  BY <1>1 DEF Careful, Typed, TypeOK
<1>6. CASE corrupt
  <2>1. parquet = {} /\ n.step = "fetch"
    BY <1>2, <1>6 DEF Careful, SoundAll, FilesSound
  <2>2. Fetching(r)'
    BY <1>2, <1>5, <2>1 DEF Fetching, Strategy, Hit
  <2>3. MayCover(r)' /\ Current(r)'
    BY <1>1, <1>2, <1>5 DEF MayCover, Current
  <2>4. Sound(r)'
    BY <1>5, <2>1, <2>2, <2>3 DEF Sound
  <2> QED
    BY <1>4, <2>4 DEF SoundAll
<1>7. CASE ~ corrupt
  <2>1. n.step = "read_metadata"
    BY <1>2, <1>7
  <2>2. ASSUME NEW s \in Readers, Outdated(s) PROVE FALSE
    <3>1. s # r /\ req[s].step \in Updating
      BY <1>3, <2>2 DEF Outdated, Updating
    <3>2. req'[s].step \in Updating /\ req'[r].step \in Busy
      BY <1>5, <2>1, <3>1 DEF Busy
    <3> QED
      BY <3>1, <3>2 DEF Careful, Overlap
  <2>3. Linked(parquet, meta)
    BY <1>7, <2>2 DEF Careful, SoundAll, FilesSound, Honest
  <2>4. Current(r)'
    BY <1>1, <1>2, <1>5 DEF Current
  <2>5. Linked(req'[r].rows, meta')
    BY <1>1, <1>2, <1>5, <2>3
  <2>7. Linked(req[r].rows, meta)'
    BY <1>1, <2>5 DEF Linked, LinkedIn, Sought
  <2>6. Sound(r)'
    BY <1>5, <2>1, <2>4, <2>7 DEF Sound
  <2> QED
    BY <1>4, <2>6 DEF SoundAll
<1> QED
  BY <1>6, <1>7

(* Rows that cover the window are whole; what is believed covered is.      *)
LEMMA ReadMetadataSound ==
  ASSUME Careful, NEW r \in Readers, ReadMetadata(r)
  PROVE  SoundAll'
<1> DEFINE q == req[r]
           c == Believed(r)
<1>1. /\ q.step = "read_metadata" /\ Linked(q.rows, meta) /\ Current(r)
      /\ q.rows \in SUBSET Days /\ Typed
      /\ UNCHANGED <<parquet, corrupt, meta, window, seams>>
  BY DEF ReadMetadata, fileVars, Careful, SoundAll, Sound, Typed, TypeOK, Requests
<1>2. /\ c \in Ranges \cup {NoMeta}
      /\ c # NoMeta => Ordered(c) /\ Linked(q.rows, c) /\ meta \in {NoMeta, c}
      /\ c = NoMeta => q.rows = {}
  <2>1. CASE meta # NoMeta
    <3>1. c = meta
      BY <2>1 DEF Believed
    <3> QED
      BY <1>1, <2>1, <3>1 DEF Careful, SoundAll, FilesSound, MetaOrdered, Typed, TypeOK
  <2>2. CASE meta = NoMeta /\ q.rows # {}
    <3>1. c = [from |-> Min(q.rows), to |-> Max(q.rows)]
      BY <2>2 DEF Believed
    <3>2. c \in Ranges /\ Ordered(c) /\ Linked(q.rows, c)
      BY <1>1, <2>2, <3>1, RowsRange
    <3> QED
      BY <2>2, <3>2, PriceCacheAssumption
  <2>3. CASE meta = NoMeta /\ q.rows = {}
    BY <2>3 DEF Believed
  <2> QED
    BY <2>1, <2>2, <2>3
<1>3. CASE Hit(c)
  <2>1. Return(r, FALSE)
    BY <1>3 DEF ReadMetadata
  <2> DEFINE n == [Idle EXCEPT !.step = "answered", !.rows = req[r].rows, !.failed = FALSE]
  <2>2. req' = [req EXCEPT ![r] = n] /\ n.step = "answered"
    BY <2>1 DEF Return, Idle
  <2> HIDE DEF n
  <2>3. FilesSound' /\ \A s \in Readers : s # r => Sound(s)'
    BY <1>1, <2>2, FilesUntouched DEF Careful, SoundAll
  <2>4. req'[r].step = "answered" /\ req'[r].rows = q.rows
    BY <1>1, <2>1, ReturnTyped
  <2>5. Answer(window.from, window.to) \cap Sought \subseteq q.rows
    <3> SUFFICES ASSUME NEW d \in Sought, d \in Days, window.from <= d, d <= window.to - 1
                 PROVE  d \in q.rows
      BY DEF Answer, Between
    <3>1. /\ window.from \in Days /\ window.to \in Days /\ Days \subseteq Nat
          /\ c # NoMeta => c \in Ranges
      BY <1>1, <1>2, PriceCacheAssumption DEF Ranges, Days, Typed, TypeOK
    <3>2. c # NoMeta /\ c.from <= window.from /\ c.to >= window.to
      BY <1>3 DEF Hit
    <3>5. c \in Ranges
      BY <3>1, <3>2
    <3>6. c.from \in Days /\ c.to \in Days
      <4> HIDE DEF c
      <4> QED
        BY <3>5 DEF Ranges
    <3>3. {d, c.from, c.to, window.from, window.to} \subseteq Nat
      <4> HIDE DEF c
      <4> QED
        BY <3>1, <3>6
    <3>4. c.from <= d /\ d <= c.to
      BY <3>2, <3>3
    <3> QED
      BY <1>2, <3>2, <3>4 DEF Linked, LinkedIn
  <2>6. Whole(r)'
    BY <1>1, <2>4, <2>5 DEF Whole, Missing, Answer, Sought
  <2>7. Sound(r)'
    BY <2>4, <2>6 DEF Sound
  <2> QED
    BY <2>3, <2>7 DEF SoundAll
<1>4. CASE ~ Hit(c)
  <2> DEFINE n == [q EXCEPT !.step = "fetch", !.cover = c, !.plan = Strategy(c)]
  <2>1. req' = [req EXCEPT ![r] = n]
    BY <1>4 DEF ReadMetadata
  <2> HIDE DEF c
  <2>2. n.step = "fetch" /\ n.cover = c /\ n.plan = Strategy(c) /\ n.rows = q.rows
    BY <1>1 DEF Typed, TypeOK, Requests
  <2> HIDE DEF n
  <2>3. FilesSound' /\ \A s \in Readers : s # r => Sound(s)'
    BY <1>1, <2>1, FilesUntouched DEF Careful, SoundAll
  <2>4. req'[r] = n
    BY <1>1, <2>1 DEF Typed, TypeOK
  <2>8. \A S, e : Linked(S, e)' <=> Linked(S, e)
    BY <1>1 DEF Linked, LinkedIn, Sought
  <2>5. Fetching(r)'
    BY <1>1, <1>2, <1>4, <2>2, <2>4, <2>8 DEF Fetching, Strategy, Hit, Ordered
  <2>6. MayCover(r)' /\ Current(r)'
    BY <1>1, <1>2, <2>2, <2>4, <2>8 DEF MayCover, Current
  <2>7. Sound(r)'
    BY <2>2, <2>4, <2>5, <2>6 DEF Sound
  <2> QED
    BY <2>3, <2>7 DEF SoundAll
<1> QED
  BY <1>3, <1>4

\* The days that remain to be asked for after a fetch
Left(r, nothing) == Sought \ (Skipped(r) \cup EndLeftOut(r, nothing))

(* Where there is nothing to gain, the rows are whole as they are.         *)
LEMMA NothingGainedSound ==
  ASSUME Careful, NEW r \in Readers, SkipFetch(r) \/ FetchNothing(r)
  PROVE  SoundAll'
<1> DEFINE q == req[r]
           n == [q EXCEPT !.step = "save_metadata", !.empty = TRUE]
<1>1. /\ req' = [req EXCEPT ![r] = n] /\ q.step = "fetch" /\ Gained(r) = {}
      /\ UNCHANGED <<parquet, corrupt, meta, window>>
  BY DEF SkipFetch, FetchNothing, Asks, Gained, fileVars
<1>11. seams \subseteq seams' /\ Sought' = Left(r, TRUE)
  <2>1. CASE FetchNothing(r)
    BY <2>1 DEF FetchNothing, Left, Sought
  <2>2. CASE SkipFetch(r)
    <3>1. /\ q.plan = "suffix" /\ NextDay(q.cover) > window.to
          /\ seams' = seams \cup Skipped(r)
      BY <2>2 DEF SkipFetch, OnlyHolidaysLeft
    <3>2. q.cover \in Ranges /\ window \in Windows /\ q.cover.to < window.to
      BY <1>1, <3>1 DEF Careful, SoundAll, Sound, Fetching, Strategy, Typed, TypeOK, Requests
    <3>3. NextDay(q.cover) \in q.cover.to + 1 .. window.to + 1
      BY <3>2, NextDayIsNext
    <3>7. \A d \in Days : d \in Int
      BY PriceCacheAssumption DEF Days
    <3>8. window.to \in Days /\ q.cover.to \in Days
      BY <3>2, PriceCacheAssumption DEF Ranges
    <3>9. window.to \in Int /\ q.cover.to \in Int
      BY <3>7, <3>8
    <3>10. NextDay(q.cover) \in Int
      <4> HIDE DEF q
      <4> QED
        BY <3>3, <3>9
    <3>4. q.cover.to + 1 <= window.to /\ window.to <= NextDay(q.cover) - 1
      BY <3>1, <3>2, <3>9, <3>10
    <3>5. window.to \in Skipped(r)
      BY <3>1, <3>4, <3>8 DEF Skipped, Between
    <3>6. EndLeftOut(r, TRUE) \subseteq Skipped(r)
      BY <3>1, <3>5 DEF EndLeftOut
    <3> QED
      BY <3>1, <3>6 DEF Left, Sought
  <2> QED
    BY <2>1, <2>2
<1>12. Unpassed(r, TRUE, Left(r, TRUE))
  BY <1>1 DEF Unpassed, Left
<1>2. /\ Fetching(r) /\ Current(r) /\ TypeOK /\ q \in Requests
      /\ q.plan # "full" => q.cover # NoMeta
  BY <1>1 DEF Careful, SoundAll, Sound, Typed, TypeOK, WellFormed, Updating
<1>3. /\ n.step = "save_metadata" /\ n.empty /\ n.rows = q.rows /\ n.cover = q.cover
      /\ n.plan = q.plan
  BY <1>2 DEF Requests
<1> HIDE DEF n
<1>4. req'[r] = n
  BY <1>1, <1>2 DEF TypeOK
<1>5. FilesSound' /\ \A s \in Readers : s # r => Sound(s)'
  BY <1>1, <1>11, FilesUntouched DEF Careful, SoundAll
<1> DEFINE c == Claim(r, q.rows, TRUE)
<1>6. q.rows = q.rows \cup Gained(r)
  BY <1>1
<1> DEFINE D == Left(r, TRUE)
<1>13. Unpassed(r, TRUE, D)
  BY <1>12
<1> HIDE DEF D
<1>7. /\ LinkedIn(Left(r, TRUE), q.rows, c) /\ Ordered(c)
      /\ Answer(window.from, window.to) \cap Left(r, TRUE) \subseteq q.rows
  <2>1. /\ LinkedIn(D, q.rows, c) /\ Ordered(c)
        /\ Answer(window.from, window.to) \cap D \subseteq q.rows
    BY <1>1, <1>2, <1>6, <1>13, GainedRange
  <2> HIDE DEF c
  <2> QED
    BY <2>1 DEF D
<1>8. NewRange(r)' = c
  BY <1>1, <1>3, <1>4 DEF NewRange, FirstCovered, LastCovered, Claim
<1> HIDE DEF c
<1>9. Claims(r)'
  <2>2. Whole(r)'
    BY <1>1, <1>3, <1>4, <1>7, <1>11 DEF Whole, Missing, Answer, Sought
  <2> QED
    BY <1>3, <1>4, <1>7, <1>8, <1>11, <2>2 DEF Claims, Linked, Ordered
<1>10. Sound(r)'
  BY <1>1, <1>2, <1>3, <1>4, <1>9 DEF Sound, Current
<1> QED
  BY <1>5, <1>10 DEF SoundAll

(* What is gained makes the rows whole.                                    *)
LEMMA FetchRowsSound ==
  ASSUME Careful, NEW r \in Readers, FetchRows(r)
  PROVE  SoundAll'
<1> DEFINE q == req[r]
           S == Merged(r)
           n == [q EXCEPT !.step = "write_parquet", !.rows = S]
<1>1. /\ req' = [req EXCEPT ![r] = n] /\ q.step = "fetch" /\ Gained(r) # {}
      /\ S = q.rows \cup Gained(r) /\ UNCHANGED <<parquet, corrupt, meta, window>>
  BY DEF FetchRows, Asks, Gained, Merged, fileVars
<1>11. seams \subseteq seams' /\ Sought' = Left(r, FALSE)
  BY DEF FetchRows, Left, Sought
<1>12. Unpassed(r, FALSE, Left(r, FALSE))
  BY <1>1 DEF Unpassed, Left
<1>2. /\ Fetching(r) /\ MayCover(r) /\ TypeOK /\ q \in Requests /\ ~ q.empty
      /\ q.plan # "full" => q.cover # NoMeta
  BY <1>1 DEF Careful, SoundAll, Sound, Typed, TypeOK, WellFormed, Updating
<1> HIDE DEF S
<1>3. /\ n.step = "write_parquet" /\ ~ n.empty /\ n.rows = S /\ n.cover = q.cover
      /\ n.plan = q.plan
  BY <1>2 DEF Requests
<1> HIDE DEF n
<1>4. req'[r] = n
  BY <1>1, <1>2 DEF TypeOK
<1>5. FilesSound' /\ \A s \in Readers : s # r => Sound(s)'
  BY <1>1, <1>11, FilesUntouched DEF Careful, SoundAll
<1> DEFINE c == Claim(r, S, FALSE)
<1> DEFINE D == Left(r, FALSE)
<1>13. Unpassed(r, FALSE, D)
  BY <1>12
<1> HIDE DEF D
<1>6. /\ LinkedIn(Left(r, FALSE), S, c) /\ Ordered(c)
      /\ Answer(window.from, window.to) \cap Left(r, FALSE) \subseteq S
      /\ q.cover # NoMeta => LinkedIn(Left(r, FALSE), S, q.cover)
  <2>1. /\ LinkedIn(D, S, c) /\ Ordered(c)
        /\ Answer(window.from, window.to) \cap D \subseteq S
        /\ q.cover # NoMeta => LinkedIn(D, S, q.cover)
    BY <1>1, <1>2, <1>13, GainedRange
  <2> HIDE DEF c
  <2> QED
    BY <2>1 DEF D
<1>7. NewRange(r)' = c
  BY <1>1, <1>3, <1>4 DEF NewRange, FirstCovered, LastCovered, Claim
<1> HIDE DEF c
<1>8. Claims(r)'
  <2>1. Whole(r)'
    BY <1>1, <1>3, <1>4, <1>6, <1>11 DEF Whole, Missing, Answer, Sought
  <2> QED
    BY <1>3, <1>4, <1>6, <1>7, <1>11, <2>1 DEF Claims, Linked, Ordered
<1>9. MayCover(r)'
  BY <1>1, <1>2, <1>3, <1>4, <1>6, <1>11 DEF MayCover, Linked
<1>10. Sound(r)'
  BY <1>3, <1>4, <1>8, <1>9 DEF Sound
<1> QED
  BY <1>5, <1>10 DEF SoundAll

(* A request that fails promises nothing.                                  *)
LEMMA StoppedSound ==
  ASSUME Careful, NEW r \in Readers, FetchFails(r) \/ Crash(r)
  PROVE  SoundAll'
<1>1. UNCHANGED <<parquet, corrupt, meta, window>>
  BY DEF FetchFails, Crash, fileVars
<1>6. seams \subseteq seams'
  BY DEF FetchFails, Crash
<1>2. PICK n : /\ req' = [req EXCEPT ![r] = n]
               /\ n.step = "idle" \/ (n.step = "answered" /\ n.failed)
  <2>1. CASE FetchFails(r)
    <3> DEFINE m == [Idle EXCEPT !.step = "answered", !.rows = req[r].rows, !.failed = TRUE]
    <3>1. req' = [req EXCEPT ![r] = m] /\ m.step = "answered" /\ m.failed
      BY <2>1 DEF FetchFails, Return, Idle
    <3> HIDE DEF m
    <3> QED
      BY <3>1
  <2>2. CASE Crash(r)
    <3>1. req' = [req EXCEPT ![r] = Idle] /\ Idle.step = "idle"
      BY <2>2 DEF Crash, Idle
    <3> QED
      BY <3>1
  <2> QED
    BY <2>1, <2>2
<1>3. FilesSound' /\ \A s \in Readers : s # r => Sound(s)'
  BY <1>1, <1>2, <1>6, FilesUntouched DEF Careful, SoundAll
<1>4. req'[r] = n
  BY <1>2 DEF Careful, Typed, TypeOK
<1>5. Sound(r)'
  BY <1>2, <1>4 DEF Sound
<1> QED
  BY <1>3, <1>5 DEF SoundAll

(* The rows written agree with what the metadata says, or make it outdated. *)
LEMMA WriteParquetSound ==
  ASSUME Careful, NEW r \in Readers, WriteParquet(r)
  PROVE  SoundAll'
<1> DEFINE q == req[r]
           n == [q EXCEPT !.step = "save_metadata"]
<1>1. /\ req' = [req EXCEPT ![r] = n] /\ q.step = "write_parquet"
      /\ parquet' = q.rows /\ ~ corrupt' /\ UNCHANGED <<meta, window, seams>>
  BY DEF WriteParquet, Step
<1>2. /\ MayCover(r) /\ Claims(r) /\ q \in Requests
      /\ \A s \in Readers : s # r => req[s].step \in Resting
  BY <1>1, Alone DEF Careful, SoundAll, Sound, Typed, TypeOK, Updating
<1>3. /\ n.step = "save_metadata" /\ n.empty = q.empty /\ n.rows = q.rows
      /\ n.cover = q.cover /\ n.plan = q.plan
  BY <1>2 DEF Requests
<1> HIDE DEF n
<1>4. req'[r] = n /\ \A s \in Readers : s # r => req'[s] = req[s]
  BY <1>1 DEF Careful, Typed, TypeOK
<1>5. \A s \in Readers : s # r => Sound(s)'
  BY <1>1, <1>2, <1>4, RestingSound DEF Careful, SoundAll
<1>6. NewRange(r)' = NewRange(r)
  BY <1>1, <1>3, <1>4 DEF NewRange, FirstCovered, LastCovered
<1>7. Claims(r)'
  BY <1>1, <1>2, <1>3, <1>4, <1>6 DEF Claims, Whole, Linked, LinkedIn, Sought, Ordered, Missing, Answer
<1>8. Sound(r)'
  BY <1>1, <1>3, <1>4, <1>7 DEF Sound, Current
<1>9. Honest'
  <2> SUFFICES ASSUME \A s \in Readers : ~ Outdated(s)' PROVE Linked(q.rows, meta)
    BY <1>1 DEF Honest, Linked, LinkedIn, Sought
  <2>1. CASE q.cover # NoMeta
    BY <1>2, <2>1, Gapless DEF MayCover
  <2>2. CASE q.cover = NoMeta
    <3>1. meta = NoMeta
      BY <1>1, <1>3, <1>4, <2>2 DEF Outdated
    <3> QED
      BY <1>2, <3>1, Gapless DEF Claims
  <2> QED
    BY <2>1, <2>2
<1>10. FilesSound'
  BY <1>1, <1>9 DEF Careful, SoundAll, FilesSound, MetaOrdered, Ordered
<1> QED
  BY <1>5, <1>8, <1>10 DEF SoundAll

(* What is put on record is what the rows cover.                           *)
LEMMA SaveMetadataSound ==
  ASSUME Careful, NEW r \in Readers, SaveMetadata(r)
  PROVE  SoundAll'
<1> DEFINE q == req[r]
           n == [Idle EXCEPT !.step = "answered", !.rows = req[r].rows, !.failed = FALSE]
<1>1. /\ q.step = "save_metadata" /\ Return(r, FALSE) /\ req' = [req EXCEPT ![r] = n]
      /\ n.step = "answered" /\ UNCHANGED <<parquet, corrupt, window, seams>>
  BY DEF SaveMetadata, Return, Idle
<1> HIDE DEF n
<1>2. /\ Claims(r) /\ Current(r)
      /\ \A s \in Readers : s # r => req[s].step \in Resting
  BY <1>1, Alone DEF Careful, SoundAll, Sound, Updating
<1>3. /\ req'[r].step = "answered" /\ req'[r].rows = q.rows
      /\ \A s \in Readers : s # r => req'[s] = req[s]
  BY <1>1, ReturnTyped DEF Careful
<1>4. \A s \in Readers : s # r => Sound(s)'
  BY <1>1, <1>2, <1>3, RestingSound DEF Careful, SoundAll
<1>5. Sound(r)'
  BY <1>1, <1>2, <1>3 DEF Sound, Claims, Whole, Missing, Answer
<1>6. CASE meta' = NewRange(r)
  <2>1. Honest'
    BY <1>1, <1>2, <1>6 DEF Honest, Claims, Current, Linked, LinkedIn, Sought
  <2>2. MetaOrdered'
    BY <1>2, <1>6 DEF MetaOrdered, Claims, Ordered
  <2>3. FilesSound'
    BY <1>1, <2>1, <2>2 DEF Careful, SoundAll, FilesSound
  <2> QED
    BY <1>4, <1>5, <2>3 DEF SoundAll
<1>7. CASE meta' = meta
  <2>1. FilesSound'
    BY <1>1, <1>7, FilesUntouched DEF Careful, SoundAll
  <2> QED
    BY <1>4, <1>5, <2>1 DEF SoundAll
<1> QED
  BY <1>6, <1>7 DEF SaveMetadata

(* Between commands the files say what they say.                           *)
LEMMA NewCommandSound ==
  ASSUME Careful, NewCommand
  PROVE  SoundAll'
<1>1. /\ \A s \in Readers : req'[s] = Idle /\ ~ Outdated(s)
      /\ UNCHANGED <<parquet, corrupt, meta, seams>>
  BY DEF NewCommand, Outdated, Resting, fileVars
<1>2. \A s \in Readers : Sound(s)'
  BY <1>1 DEF Sound, Idle
<1>3. FilesSound'
  BY <1>1 DEF Careful, SoundAll, FilesSound, Honest, MetaOrdered, Linked, LinkedIn, Sought, Ordered
<1> QED
  BY <1>2, <1>3 DEF SoundAll

(* Expired metadata leaves rows without a gap.                             *)
LEMMA ExpireSound ==
  ASSUME Careful, Expire
  PROVE  SoundAll'
<1>1. meta' = NoMeta /\ UNCHANGED <<parquet, corrupt, window, req, seams>>
  BY DEF Expire
<1>2. Honest'
  <2> SUFFICES ASSUME ~ corrupt PROVE Linked(parquet, NoMeta)
    BY <1>1 DEF Honest, Linked, LinkedIn, Sought
  <2>1. CASE \A s \in Readers : ~ Outdated(s)
    BY <2>1, Gapless DEF Careful, SoundAll, FilesSound, Honest
  <2>2. CASE \E s \in Readers : Outdated(s)
    BY <2>2, Gapless DEF Careful, SoundAll, Sound, Outdated, Claims, Current
  <2> QED
    BY <2>1, <2>2
<1>3. FilesSound'
  BY <1>1, <1>2 DEF Careful, SoundAll, FilesSound, MetaOrdered
<1>4. ASSUME NEW s \in Readers PROVE Sound(s)'
  <2>1. Sound(s)
    BY DEF Careful, SoundAll
  <2>2. req[s].step = "read_metadata" => Linked(req[s].rows, NoMeta) /\ Current(s)'
    BY <1>1, <2>1, Gapless DEF Sound, Current
  <2>3. req[s].step = "fetch" => Fetching(s)' /\ MayCover(s)' /\ Current(s)'
    BY <1>1, <2>1 DEF Sound, Fetching, MayCover, Current, Strategy, Hit, Linked, LinkedIn, Sought
  <2>4. req[s].step = "write_parquet" => MayCover(s)' /\ Claims(s)'
    BY <1>1, <2>1 DEF Sound, MayCover, Claims, Whole, Missing, Answer, Linked, LinkedIn, Sought, NewRange, FirstCovered,
                      LastCovered
  <2>5. req[s].step = "save_metadata" => Claims(s)' /\ Current(s)'
    BY <1>1, <2>1 DEF Sound, Claims, Current, Whole, Missing, Answer, Linked, LinkedIn, Sought, NewRange, FirstCovered,
                      LastCovered
  <2>6. req[s].step = "answered" /\ ~ req[s].failed => Whole(s)'
    BY <1>1, <2>1 DEF Sound, Whole, Missing, Answer
  <2> QED
    BY <1>1, <2>2, <2>3, <2>4, <2>5, <2>6 DEF Sound, Linked, LinkedIn, Sought
<1> QED
  BY <1>3, <1>4 DEF SoundAll

(* A damaged file is no file.                                              *)
LEMMA CorruptSound ==
  ASSUME Careful, Corrupt
  PROVE  SoundAll'
<1>1. parquet' = {} /\ corrupt' /\ UNCHANGED <<meta, window, req, seams>>
  BY DEF Corrupt
<1>2. FilesSound'
  BY <1>1 DEF Careful, SoundAll, FilesSound, Honest, MetaOrdered, Ordered
<1>3. ASSUME NEW s \in Readers PROVE Sound(s)'
  <2>1. Sound(s) /\ Current(s)'
    BY <1>1 DEF Careful, SoundAll, Current
  <2>2. (Fetching(s) => Fetching(s)') /\ (MayCover(s) => MayCover(s)')
    BY <1>1 DEF Fetching, MayCover, Strategy, Hit, Linked, LinkedIn, Sought
  <2>3. (Claims(s) => Claims(s)') /\ (Whole(s) => Whole(s)')
    BY <1>1 DEF Claims, Whole, Missing, Answer, Linked, LinkedIn, Sought, NewRange, FirstCovered, LastCovered
  <2> QED
    BY <1>1, <2>1, <2>2, <2>3 DEF Sound, Linked, LinkedIn, Sought
<1> QED
  BY <1>2, <1>3 DEF SoundAll

-----------------------------------------------------------------------------
(* The theorems *)

(* The files and every request stay sound as long as nothing happens that  *)
(* the cache does not survive.                                             *)
THEOREM CacheStaysSound ==
  Spec => []CacheInv
<1>1. Init => CacheInv
  <2> SUFFICES ASSUME Init PROVE CacheInv
    OBVIOUS
  <2>1. \A s \in Readers : req[s].step = "idle"
    BY DEF Init, Idle
  <2>2. ~ Overlap /\ \A s \in Readers : Sound(s)
    BY <2>1 DEF Overlap, Updating, Sound
  <2>3. meta = NoMeta /\ parquet = {} /\ ~ corrupt
    BY DEF Init
  <2>4. Linked({}, NoMeta)
    BY DEF Linked, LinkedIn
  <2> QED
    BY <2>2, <2>3, <2>4 DEF CacheInv, FilesSound, Honest, MetaOrdered
<1>2. Typed /\ CacheInv /\ [Next]_vars => CacheInv'
  <2> SUFFICES ASSUME Typed, CacheInv, [Next]_vars PROVE CacheInv'
    OBVIOUS
  <2>1. CASE Next
    <3> SUFFICES ASSUME ~ broken' PROVE ~ Overlap' /\ SoundAll'
      BY DEF CacheInv, SoundAll
    <3>1. ~ Overlap' /\ Careful
      BY <2>1 DEF Next, CacheInv, Careful, SoundAll, Typed, TypeOK
    <3>2. CASE \E r \in Readers : Request(r) \/ Crash(r)
      BY <3>1, <3>2, ReadParquetSound, ReadMetadataSound, NothingGainedSound, FetchRowsSound,
         StoppedSound, WriteParquetSound, SaveMetadataSound DEF Request
    <3>3. CASE NewCommand \/ Expire \/ Corrupt
      BY <3>1, <3>3, NewCommandSound, ExpireSound, CorruptSound
    <3> QED
      BY <2>1, <3>1, <3>2, <3>3 DEF Next
  <2>2. CASE UNCHANGED vars
    <3>1. UNCHANGED <<parquet, corrupt, meta, window, req, seams, broken>>
      BY <2>2 DEF vars, fileVars
    <3>2. (\A s \in Readers : Sound(s)) => \A s \in Readers : Sound(s)'
      BY <3>1, OthersSound
    <3> QED
      BY <3>1, <3>2 DEF CacheInv, FilesSound, Honest, MetaOrdered, Linked, LinkedIn, Sought,
                        Ordered, Overlap,
                        Outdated
  <2> QED
    BY <2>1, <2>2
<1> QED
  BY <1>1, <1>2, TypesKept, PTL DEF Spec

(* AnswersComplete: a request whose fetch succeeded lacks only days at which *)
(* a range was extended without asking, for any number of readers and days, *)
(* any prices, trading days and windows.                                   *)
THEOREM WholeAnswers ==
  Spec => []AnswersComplete
<1>1. CacheInv => AnswersComplete
  BY DEF CacheInv, AnswersComplete, Sound, Answered, Whole
<1> QED
  BY <1>1, CacheStaysSound, PTL

(* CoverageHonest: the metadata claims no other priced day without a row,  *)
(* and the rows have no other gap.                                         *)
THEOREM HonestCoverage ==
  Spec => []CoverageHonest
<1>1. Typed /\ CacheInv => CoverageHonest
  <2> SUFFICES ASSUME Typed, CacheInv, ~ broken, ~ corrupt,
                      \A r \in Readers : ~ Outdated(r)
               PROVE  /\ meta # NoMeta => InRange(DataDays, meta) \subseteq parquet \cup seams
                      /\ parquet # {} =>
                           InRange(DataDays, [from |-> Min(parquet), to |-> Max(parquet)])
                             \subseteq parquet \cup seams
    BY DEF CoverageHonest
  <2>1. Linked(parquet, meta) /\ parquet \in SUBSET Days
    BY DEF CacheInv, FilesSound, Honest, Typed, TypeOK
  <2>2. meta # NoMeta => InRange(DataDays, meta) \subseteq parquet \cup seams
    BY <2>1 DEF Linked, LinkedIn, Sought, InRange, Between
  <2>3. CASE parquet # {}
    <3>1. Min(parquet) \in parquet /\ Max(parquet) \in parquet
      BY <2>1, <2>3, DaysExtrema
    <3>2. \A d \in DataDays : Min(parquet) <= d /\ d <= Max(parquet) => d \in parquet \cup seams
      BY <2>1, <3>1 DEF Linked, LinkedIn, Sought
    <3> QED
      BY <2>2, <3>2 DEF InRange, Between
  <2> QED
    BY <2>2, <2>3
<1> QED
  BY <1>1, CacheStaysSound, TypesKept, PTL

=============================================================================
