-------------------------- MODULE MCOrderBookState --------------------------
(* Small instances of OrderBookState.                                      *)
EXTENDS OrderBookState, TLC

\* Three orders at one level: queue positions and insertBefore anchors.
OneLevelSide == [o \in Oid |-> "Bid"]
OneLevelPx == [o \in Oid |-> 1]

\* The orders of OneLevel differ in nothing but their name.
AnyOrder == Permutations(Oid)

\* A bid and two asks; the bid crosses the lower ask.
TwoSidesSide == [o \in Oid |-> IF o = 1 THEN "Bid" ELSE "Ask"]
TwoSidesPx == [o \in Oid |-> IF o = 3 THEN 3 ELSE 2]
=============================================================================
