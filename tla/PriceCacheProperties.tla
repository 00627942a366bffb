------------------------ MODULE PriceCacheProperties ------------------------
(***************************************************************************)
(* What the price cache must guarantee, stated over PriceCache.            *)
(***************************************************************************)
EXTENDS PriceCache

Answered(r) == req[r].step = "answered" /\ ~ req[r].failed

\* the days of its window that a request should have returned and has not
Missing(r) == Answer(window.from, window.to) \ req[r].rows

-----------------------------------------------------------------------------
(* Unless a request updated the files during another one, or an unreadable *)
(* file was replaced without its metadata, a request whose fetch succeeded *)
(* lacks no row of its window that any request asked the provider for,     *)
(* whatever earlier commands asked for and whichever of their steps failed:*)
(* what it lacks are days at which the range was extended without asking.  *)
AnswersComplete ==
  \A r \in Readers : ~ broken /\ Answered(r) => Missing(r) \subseteq seams

(* The metadata never claims another day that has a price and no row, and  *)
(* the rows have no other gap: a day lost here is not fetched again,       *)
(* because later requests only extend the covered range.                   *)
CoverageHonest ==
  ~ broken /\ ~ corrupt /\ (\A r \in Readers : ~ Outdated(r)) =>
    /\ meta # NoMeta => InRange(DataDays, meta) \subseteq parquet \cup seams
    /\ parquet # {} =>
         InRange(DataDays, [from |-> Min(parquet), to |-> Max(parquet)])
           \subseteq parquet \cup seams

-----------------------------------------------------------------------------
(* Statements of the repository that the code does not keep *)

(* get_prices: "Get prices from cache, fetching missing dates              *)
(* incrementally if necessary."                                            *)
MissingDatesFetched == \A r \in Readers : Answered(r) => Missing(r) = {}

(* The same where no day is left out by a single request and nothing       *)
(* fails, with the "per-path locks for thread-safe cache writes".          *)
ThreadsGetTheirDates ==
  \A r \in Readers : calm /\ Answered(r) => Missing(r) \subseteq seams
=============================================================================
