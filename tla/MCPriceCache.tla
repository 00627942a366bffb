---------------------------- MODULE MCPriceCache ----------------------------
(***************************************************************************)
(* Constants of the TLC runs of PriceCache.                                *)
(***************************************************************************)
EXTENDS PriceCacheProperties, TLC

CONSTANTS r1, r2

\* Day 1 precedes the ticker's listing or is a holiday; on day 4, though a
\* federal holiday, the exchange was open; on day 3, though a trading day, it
\* was closed.
SixTrading == {2, 3, 5, 6}
SixPrices  == {2, 4, 5, 6}

Window(a, b) == [from |-> a, to |-> b]

\* Windows that overlap, touch, contain each other and lie apart; the first
\* starts and the second ends on a day without a price.
SixWindows == {Window(1, 6), Window(2, 3), Window(2, 5), Window(4, 6), Window(5, 6)}

AllWindows == {w \in Ranges : w.from < w.to}

\* Days without a surprise
AllFive == {1, 2, 3, 4, 5}

EitherReader == Permutations(Readers)

\* Bound: a cache that was broken is not followed further.
Unbroken == ~ broken
=============================================================================
