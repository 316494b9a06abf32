------------------------------- MODULE Orders -------------------------------
(***************************************************************************)
(* Orders and the queues they stand in: what the node's book, the server's *)
(* abstract book (Book) and its slab-backed one (OrderBook) have in common.*)
(***************************************************************************)
EXTENDS Naturals, Sequences, FiniteSets

CONSTANTS
  Oid,       \* order ids; the node never reuses one
  NoOid,     \* "no anchor"
  side,      \* Oid -> {"Bid", "Ask"}
  px,        \* Oid -> limit price
  Size       \* the sizes an order may have

ASSUME OrdersAssumption ==
  /\ NoOid \notin Oid
  /\ side \in [Oid -> {"Bid", "Ask"}]
  /\ px \in [Oid -> Nat]
  /\ Size \subseteq Nat \ {0}

Level == {<<side[o], px[o]>> : o \in Oid}
LevelOf(o) == <<side[o], px[o]>>

\* A taker and a resting order trade when the bid is at or above the ask.
Crosses(o, m) ==
  \/ side[o] = "Bid" /\ side[m] = "Ask" /\ px[o] >= px[m]
  \/ side[o] = "Ask" /\ side[m] = "Bid" /\ px[o] <= px[m]

\* The position of oid o in queue q; 0 when it is not there.
PosIn(q, o) == IF \E i \in DOMAIN q : q[i] = o THEN CHOOSE i \in DOMAIN q : q[i] = o ELSE 0

InsertAt(q, i, o) == SubSeq(q, 1, i - 1) \o <<o>> \o SubSeq(q, i, Len(q))
DeleteAt(q, i) == SubSeq(q, 1, i - 1) \o SubSeq(q, i + 1, Len(q))
=============================================================================
