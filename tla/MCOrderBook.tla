---------------------------- MODULE MCOrderBook ----------------------------
(* Three bids at one price, a better bid and an ask that crosses them all. *)
EXTENDS OrderBook, TLC

CONSTANTS b1, b2, b3, b4, ask

MCside == [o \in {b1, b2, b3, b4} |-> "Bid"] @@ (ask :> "Ask")
MCpx == [o \in {b1, b2, b3} |-> 1] @@ (b4 :> 2) @@ (ask :> 1)
\* The three differ in nothing but their name.
AnyBid == Permutations({b1, b2, b3})
=============================================================================
