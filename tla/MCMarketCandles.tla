--------------------------- MODULE MCMarketCandles ---------------------------
(* MarketCandles on small instances. *)
EXTENDS MarketCandles, TLC

CONSTANTS pool, hourly, r1, r2

RequestSymmetry == Permutations(Request)

\* No trade is made in one bar of the history and in one that opens later.
SomeTraded == [v \in View |-> {1, 3, 4, 6}]

=============================================================================
