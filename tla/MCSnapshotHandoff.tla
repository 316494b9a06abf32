------------------------- MODULE MCSnapshotHandoff -------------------------
(* A small instance of SnapshotHandoff.                                    *)
EXTENDS SnapshotHandoff

\* A bid, an ask that crosses it, and an ask that does not.
BidAndAsks == [o \in Oid |-> IF o = 1 THEN "Bid" ELSE "Ask"]
CrossedPx == [o \in Oid |-> IF o = 3 THEN 2 ELSE 1]
=============================================================================
