-------------------------------- MODULE Book --------------------------------
(***************************************************************************)
(* What the book of one coin promises (order_book/mod.rs): sizes by oid,   *)
(* one FIFO queue per side and price, price-time priority when an incoming *)
(* order trades.  OrderBookState builds on these operations; OrderBook,    *)
(* with its index, slabs and running sums, is shown to implement them.     *)
(***************************************************************************)
EXTENDS Orders, FiniteSetsExt

VARIABLES
  sz,         \* Oid -> size in the book, 0 when not resting
  queue,      \* Level -> FIFO queue of the level's orders
  insert_before_fallbacks \* an anchor was missing since the last install

bookVars == <<sz, queue, insert_before_fallbacks>>

-----------------------------------------------------------------------------
(* OrderBook::add_order_before, match_order and add_order_to_book.         *)

\* The resting orders an incoming order o trades against before it rests.
Makers(o) == {m \in Oid : sz[m] > 0 /\ Crosses(o, m)}

\* Price priority, then the queue: does maker n trade before maker m?
TradesBefore(n, m) ==
  \/ side[m] = "Ask" /\ px[n] < px[m]
  \/ side[m] = "Bid" /\ px[n] > px[m]
  \/ px[n] = px[m] /\ PosIn(queue[LevelOf(m)], n) < PosIn(queue[LevelOf(m)], m)

SizeOf(S) == MapThenSumSet(LAMBDA m : sz[m], S)

\* What maker m gives up to a taker of size s.
Traded(o, s, m) ==
  LET ahead == SizeOf({n \in Makers(o) \ {m} : TradesBefore(n, m)})
  IN  IF ahead >= s THEN 0 ELSE IF sz[m] <= s - ahead THEN sz[m] ELSE s - ahead

\* What is left of the taker.
Remaining(o, s) ==
  IF Makers(o) = {} THEN s
  ELSE IF SizeOf(Makers(o)) >= s THEN 0 ELSE s - SizeOf(Makers(o))

\* The sizes and queues once o has traded; the filled makers of a level are
\* the front of its queue.
SzAfterMatch(o, s) ==
  [m \in Oid |-> IF m \in Makers(o) THEN sz[m] - Traded(o, s, m) ELSE sz[m]]

QueueAfterMatch(o, s) ==
  [l \in Level |->
     SubSeq(queue[l],
            1 + Cardinality({m \in Makers(o) : LevelOf(m) = l /\ Traded(o, s, m) = sz[m]}),
            Len(queue[l]))]

\* A Some anchor that is not at the level: the order rests at the back.
AnchorMissing(q, b) == b # NoOid /\ PosIn(q, b) = 0

\* Where an order with anchor b goes into queue q.
RestAtBack(q, b) == Len(q) + 1   \* mutant: the anchor is not looked at
RestAt(q, b) == IF PosIn(q, b) = 0 THEN Len(q) + 1 ELSE PosIn(q, b)

AddOrderBefore(o, s, b) ==
  IF sz[o] > 0
    THEN UNCHANGED bookVars    \* the duplicate-oid guard
    ELSE LET r == Remaining(o, s)
             q == QueueAfterMatch(o, s)[LevelOf(o)]
         IN  /\ sz' = [SzAfterMatch(o, s) EXCEPT ![o] = r]
             /\ queue' = IF r = 0 THEN QueueAfterMatch(o, s)
                         ELSE [QueueAfterMatch(o, s) EXCEPT ![LevelOf(o)] = InsertAt(q, RestAt(q, b), o)]
             \* counted in a metric; it never marks the book
             /\ insert_before_fallbacks' =
                  (insert_before_fallbacks \/ (r > 0 /\ AnchorMissing(q, b)))

\* OrderBook::cancel_order, for an order that is in the book.
CancelOrder(o) ==
  LET q == queue[LevelOf(o)]
  IN  /\ sz' = [sz EXCEPT ![o] = 0]
      /\ queue' = [queue EXCEPT ![LevelOf(o)] = DeleteAt(q, PosIn(q, o))]
      /\ UNCHANGED insert_before_fallbacks

\* OrderBook::modify_sz, for an order that is in the book: in place, or a cancel
\* when the new size is 0.
ModifySzKeepsZero(o, s) ==   \* mutant: a size of 0 leaves the order where it is
  /\ sz' = IF s = 0 THEN sz ELSE [sz EXCEPT ![o] = s]
  /\ UNCHANGED <<queue, insert_before_fallbacks>>

ModifySz(o, s) ==
  \/ s = 0 /\ CancelOrder(o)
  \/ s > 0 /\ sz' = [sz EXCEPT ![o] = s] /\ UNCHANGED <<queue, insert_before_fallbacks>>

-----------------------------------------------------------------------------
(* The book by itself: any order may be added, in front of any other,      *)
(* cancelled and resized.                                                  *)

BookInit ==
  /\ sz = [o \in Oid |-> 0]
  /\ queue = [l \in Level |-> <<>>]
  /\ insert_before_fallbacks = FALSE

BookNext ==
  \E o \in Oid :
     \/ \E s \in Size, b \in Oid \cup {NoOid} : AddOrderBefore(o, s, b)
     \/ sz[o] > 0 /\ CancelOrder(o)
     \/ \E s \in Size \cup {0} : sz[o] > 0 /\ ModifySz(o, s)

BookSpec == BookInit /\ [][BookNext]_bookVars
=============================================================================
