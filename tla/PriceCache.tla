----------------------------- MODULE PriceCache -----------------------------
(***************************************************************************)
(* The price cache of data/cache.py for one ticker: a parquet file of rows *)
(* and a JSON file that says which range of days those rows cover.         *)
(*                                                                         *)
(* Commands follow one another, each with one backtest window; the worker  *)
(* threads of a command ask for that window in any number and order.  A    *)
(* request reads the two files one after the other, may ask the provider   *)
(* for the days it believes missing, and writes the two files one after    *)
(* the other.  Each write is atomic and holds a lock, a request is and     *)
(* does not.                                                               *)
(*                                                                         *)
(* A row is its day; prices and the cleaning of outliers are left out.     *)
(*                                                                         *)
(* An operator named Slip... is the definition after it with a plausible   *)
(* mistake; no specification uses one.  They show that each property       *)
(* would notice.                                                           *)
(***************************************************************************)
EXTENDS Integers, FiniteSets, FiniteSetsExt

CONSTANTS
  Readers,       \* worker threads
  Horizon,       \* the days are 1 .. Horizon
  TradingDays,   \* the days is_trading_day answers True for
  DataDays,      \* the days the provider has a price of, trading days or not
  Windows,       \* the backtest windows that commands ask for
  NoMeta         \* stands for missing or expired metadata

Days   == 1 .. Horizon
Ranges == [from : Days, to : Days]

ASSUME PriceCacheAssumption ==
  /\ Horizon \in Nat
  /\ TradingDays \subseteq Days
  /\ DataDays \subseteq Days
  /\ Windows \subseteq {w \in Ranges : w.from < w.to}
  /\ NoMeta \notin Ranges

VARIABLES
  (* the files *)
  parquet,    \* the days with a row, {} when there is no file
  corrupt,    \* is the parquet file unreadable?
  meta,       \* what the JSON file claims to be covered
  confirmed,  \* was it confirmed empty, so that it expires?
  (* the command *)
  window,     \* the backtest window every request of the command asks for
  req,        \* each reader's request
  (* history, read by no action *)
  seams,      \* the days that some request took as covered without asking
  calm,       \* no failure, expiry, corruption or crash since the command began
  broken      \* has anything happened that the cache does not survive?

fileVars == <<parquet, corrupt, meta, confirmed>>
vars == <<fileVars, window, req, seams, calm, broken>>

-----------------------------------------------------------------------------
Between(a, b) == {d \in Days : a <= d /\ d <= b}

InRange(S, w) == S \cap Between(w.from, w.to)

Updating == {"fetch", "write_parquet", "save_metadata"}
Busy     == {"read_metadata"} \cup Updating
Resting  == {"idle", "answered"}

\* rows: what the request holds; cover: the range it believes covered;
\* plan: how it extends that range; empty: the provider had nothing new.
Requests == [step : Busy \cup Resting, rows : SUBSET Days, failed : BOOLEAN,
             cover : Ranges \cup {NoMeta}, plan : {"full", "suffix", "prefix"},
             empty : BOOLEAN]

Idle == [step |-> "idle", rows |-> {}, failed |-> FALSE,
         cover |-> NoMeta, plan |-> "full", empty |-> FALSE]

TypeOK ==
  /\ parquet \subseteq Days /\ corrupt \in BOOLEAN
  /\ meta \in Ranges \cup {NoMeta} /\ confirmed \in BOOLEAN
  /\ window \in Windows
  /\ req \in [Readers -> Requests]
  /\ seams \subseteq Days
  /\ calm \in BOOLEAN /\ broken \in BOOLEAN

Init ==
  /\ parquet = {} /\ corrupt = FALSE /\ meta = NoMeta /\ confirmed = FALSE
  /\ window \in Windows
  /\ req = [r \in Readers |-> Idle]
  /\ seams = {} /\ calm = TRUE /\ broken = FALSE

-----------------------------------------------------------------------------
(* One request: _get_ticker_prices *)

\* YFinanceProvider.get_prices(start = a, end = b): the end is exclusive.
Answer(a, b) == DataDays \cap Between(a, b - 1)

Step(r, step) == req' = [req EXCEPT ![r].step = step]

\* The request ends and returns the rows it holds.
Return(r, failure) ==
  req' = [req EXCEPT ![r] = [Idle EXCEPT !.step = "answered", !.rows = req[r].rows,
                                         !.failed = failure]]

\* A parquet file that cannot be read is no file, and its metadata is ignored.
ReadParquet(r) ==
  /\ req[r].step \in Resting
  /\ req' = [req EXCEPT ![r] =
       [Idle EXCEPT !.step = IF corrupt THEN "fetch" ELSE "read_metadata",
                    !.rows = parquet]]
  /\ UNCHANGED <<fileVars, window, seams, calm>>

\* The metadata's range, or without metadata the range of the rows.
Believed(r) ==
  CASE meta # NoMeta                      -> meta
    [] meta = NoMeta /\ req[r].rows # {} -> [from |-> Min(req[r].rows),
                                             to   |-> Max(req[r].rows)]
    [] OTHER                              -> NoMeta

Hit(c) == c # NoMeta /\ c.from <= window.from /\ c.to >= window.to

Strategy(c) ==
  CASE c # NoMeta /\ c.from <= window.from /\ c.to < window.to -> "suffix"
    [] c # NoMeta /\ c.from > window.from /\ c.to >= window.to -> "prefix"
    [] OTHER                                                   -> "full"

(* The cached rows are the answer, or the files have to be extended.       *)
ReadMetadata(r) ==
  /\ req[r].step = "read_metadata"
  /\ IF Hit(Believed(r))
       THEN Return(r, FALSE)
       ELSE req' = [req EXCEPT ![r].step = "fetch", ![r].cover = Believed(r),
                               ![r].plan = Strategy(Believed(r))]
  /\ UNCHANGED <<fileVars, window, seams, calm>>

\* The first trading day after the covered range, or the day after the window.
NextDay(c) ==
  CHOOSE d \in c.to + 1 .. window.to + 1 :
    /\ d \in TradingDays \/ d > window.to
    /\ \A e \in c.to + 1 .. d - 1 : e \notin TradingDays

OnlyHolidaysLeft(r) == req[r].plan = "suffix" /\ NextDay(req[r].cover) > window.to

\* What a request adds to the covered range without asking for it: days that
\* is_trading_day refuses, and the end of a question that is not in its answer.
Skipped(r) ==
  IF req[r].plan = "suffix"
    THEN Between(req[r].cover.to + 1, NextDay(req[r].cover) - 1) ELSE {}

EndLeftOut(r, nothing) ==
  IF req[r].plan = "prefix" THEN {req[r].cover.from - 1}
  ELSE IF nothing THEN {window.to} ELSE {}

(* _update_suffix asks for nothing when only holidays are left.            *)
SkipFetch(r) ==
  /\ req[r].step = "fetch" /\ OnlyHolidaysLeft(r)
  /\ req' = [req EXCEPT ![r].step = "save_metadata", ![r].empty = TRUE]
  /\ seams' = seams \cup Skipped(r)
  /\ UNCHANGED <<fileVars, window, calm>>

Asks(r) == req[r].step = "fetch" /\ ~ OnlyHolidaysLeft(r)

Fetched(r) ==
  CASE req[r].plan = "suffix" -> Answer(NextDay(req[r].cover), window.to)
    [] req[r].plan = "prefix" -> Answer(window.from, req[r].cover.from - 1)
    [] OTHER                  -> Answer(window.from, window.to)

SlipReplaced(r) == Fetched(r)

Merged(r) == req[r].rows \cup Fetched(r)

FetchRows(r) ==
  /\ Asks(r) /\ Fetched(r) # {}
  /\ req' = [req EXCEPT ![r].step = "write_parquet", ![r].rows = Merged(r)]
  /\ seams' = seams \cup Skipped(r) \cup EndLeftOut(r, FALSE)
  /\ UNCHANGED <<fileVars, window, calm>>

FetchNothing(r) ==
  /\ Asks(r) /\ Fetched(r) = {}
  /\ req' = [req EXCEPT ![r].step = "save_metadata", ![r].empty = TRUE]
  /\ seams' = seams \cup Skipped(r) \cup EndLeftOut(r, TRUE)
  /\ UNCHANGED <<fileVars, window, calm>>

(* _safe_fetch swallows the exception: the cached rows are the answer.     *)
FetchFails(r) ==
  /\ Asks(r)
  /\ Return(r, TRUE)
  /\ calm' = FALSE
  /\ UNCHANGED <<fileVars, window, seams>>

WriteParquet(r) ==
  /\ req[r].step = "write_parquet"
  /\ parquet' = req[r].rows /\ corrupt' = FALSE
  /\ Step(r, "save_metadata")
  /\ UNCHANGED <<meta, confirmed, window, seams, calm>>

SlipDayAfter(r) ==
  CASE req[r].plan = "prefix" -> req[r].cover.to
    [] req[r].plan # "prefix" /\ req[r].empty -> window.to + 1
    [] OTHER -> Max(req[r].rows) + 1

FirstCovered(r) ==
  CASE req[r].plan = "suffix" -> req[r].cover.from
    [] req[r].plan # "suffix" /\ req[r].empty -> window.from
    [] OTHER -> Min(req[r].rows)

SlipToWindowEnd(r) == IF req[r].plan = "prefix" THEN req[r].cover.to ELSE window.to

LastCovered(r) ==
  CASE req[r].plan = "prefix" -> req[r].cover.to
    [] req[r].plan # "prefix" /\ req[r].empty -> window.to
    [] OTHER -> Max(req[r].rows)

\* The range on record after a request: it reaches to the window's end where
\* the provider had nothing, and to the last row where it had something.
NewRange(r) == [from |-> FirstCovered(r), to |-> LastCovered(r)]

(* A failure to write the metadata is logged and ignored.                  *)
SaveMetadata(r) ==
  /\ req[r].step = "save_metadata"
  /\ \/ /\ meta' = NewRange(r) /\ confirmed' = req[r].empty
        /\ UNCHANGED calm
     \/ calm' = FALSE /\ UNCHANGED <<meta, confirmed>>
  /\ Return(r, FALSE)
  /\ UNCHANGED <<parquet, corrupt, window, seams>>

-----------------------------------------------------------------------------
(* The surroundings *)

(* The next command, with its own window.                                  *)
NewCommand ==
  /\ \A r \in Readers : req[r].step \in Resting
  /\ window' \in Windows
  /\ req' = [r \in Readers |-> Idle]
  /\ calm' = TRUE
  /\ UNCHANGED <<fileVars, seams>>

(* Seven days pass: confirmed-empty metadata reads as none from now on.    *)
Expire ==
  /\ meta # NoMeta /\ confirmed
  /\ meta' = NoMeta /\ confirmed' = FALSE
  /\ calm' = FALSE
  /\ UNCHANGED <<parquet, corrupt, window, req, seams>>

(* Something else damages the parquet file.                                *)
Corrupt ==
  /\ parquet # {}
  /\ parquet' = {} /\ corrupt' = TRUE
  /\ calm' = FALSE
  /\ UNCHANGED <<meta, confirmed, window, req, seams>>

(* A request ends without an answer: the process is killed, or writing the *)
(* parquet file fails.                                                     *)
Crash(r) ==
  /\ req[r].step \in Busy
  /\ req' = [req EXCEPT ![r] = Idle]
  /\ calm' = FALSE
  /\ UNCHANGED <<fileVars, window, seams>>

Request(r) ==
  \/ ReadParquet(r) \/ ReadMetadata(r) \/ SkipFetch(r)
  \/ FetchRows(r) \/ FetchNothing(r) \/ FetchFails(r)
  \/ WriteParquet(r) \/ SaveMetadata(r)

\* A request updates the files during another one.
Overlap ==
  \E q, r \in Readers : q # r /\ req[q].step \in Updating /\ req[r].step \in Busy

\* An unreadable file has been replaced, and the metadata still speaks of it.
Outdated(r) == req[r].step = "save_metadata" /\ req[r].cover = NoMeta /\ meta # NoMeta

\* ... and stays, because the request dies or fails to write it.
LeftOutdated ==
  \E r \in Readers : Outdated(r) /\ req'[r].step # "save_metadata" /\ meta' = meta

Next ==
  /\ \/ \E r \in Readers : Request(r) \/ Crash(r)
     \/ NewCommand \/ Expire \/ Corrupt
  /\ broken' = (broken \/ Overlap' \/ LeftOutdated)

Spec == Init /\ [][Next]_vars
=============================================================================
