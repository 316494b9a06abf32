------------------------------ MODULE OrderBook ------------------------------
(***************************************************************************)
(* The book of one coin as it is stored (order_book/mod.rs), inside the    *)
(* map of all coins' books (order_book/multi_book.rs): an index of the     *)
(* resting oids, and price levels with a slab, links and a running sum     *)
(* each.  It is shown to implement Book, which knows only sizes and        *)
(* queues.  Price and side never change for an oid, so the index is the    *)
(* set of its keys.                                                        *)
(***************************************************************************)
EXTENDS PriceLevel, FiniteSetsExt
SX == INSTANCE SequencesExt

VARIABLES
  book,        \* [oid_to_side_px, levels]: the index, and Level -> price level
  present,     \* the coin has an entry in the map of books
  insert_before_fallbacks

vars == <<book, present, insert_before_fallbacks>>

NewBook == [oid_to_side_px |-> {}, levels |-> <<>>]

-----------------------------------------------------------------------------
(* Price levels in priority order (the two BTreeMaps).                     *)

Better(k, l) == IF l[1] = "Bid" THEN k[2] > l[2] ELSE k[2] < l[2]

BestFirst(bk, sd) ==
  LET on   == {l \in DOMAIN bk.levels : l[1] = sd}
      rank == [l \in on |-> Cardinality({k \in on : Better(k, l)})]
  IN  [i \in 1..Cardinality(on) |-> CHOOSE l \in on : rank[l] = i - 1]

\* mutant: an order that trades a level away leaves it behind, empty
KeepLevel(bk, l, level) == [bk EXCEPT !.levels = With(@, l, level)]

\* Store a level, or drop it from the map once it is empty.
PutLevel(bk, l, level) ==
  [bk EXCEPT !.levels = IF IsEmpty(level) THEN Without(@, l) ELSE With(@, l, level)]

-----------------------------------------------------------------------------
(* match_order: the crossing levels, best price first, until the taker is  *)
(* used up.                                                                *)

CrossedStrictly(o, l) ==   \* mutant: an order does not trade at its own limit
  /\ side[o] # l[1]
  /\ IF side[o] = "Ask" THEN l[2] > px[o] ELSE l[2] < px[o]

CrossedBy(o, l) ==
  /\ side[o] # l[1]
  /\ IF side[o] = "Ask" THEN l[2] >= px[o] ELSE l[2] <= px[o]

MatchLevel(m, l) ==
  LET r == match_against(m.book.levels[l], m.taker)
  IN  IF m.taker = 0 THEN m
      ELSE [book   |-> PutLevel(m.book, l, r.level),
            taker  |-> r.taker,
            filled |-> m.filled \cup r.filled]

match_order(bk, o, s) ==
  LET q == BestFirst(bk, IF side[o] = "Ask" THEN "Bid" ELSE "Ask")
      met[i \in 0..Len(q)] ==
        IF i = 0 THEN [book |-> bk, taker |-> s, filled |-> {}]
        ELSE IF CrossedBy(o, q[i]) THEN MatchLevel(met[i - 1], q[i])
        ELSE met[i - 1]
  IN  met[Len(q)]

\* mutant: the filled makers stay in the index
FilledStay(m) == m.book

\* The filled makers leave the index.
Filled(m) == [m.book EXCEPT !.oid_to_side_px = @ \ m.filled]

-----------------------------------------------------------------------------
(* add_order_before, cancel_order, modify_sz.                              *)

LevelAt(bk, o) ==
  IF LevelOf(o) \in DOMAIN bk.levels THEN bk.levels[LevelOf(o)] ELSE NewLevel(0)

\* add_order_to_book: in front of the anchor, or at the back.
add_order_to_book(bk, o, s, b) ==
  LET level == LevelAt(bk, o)
  IN  PutLevel(bk, LevelOf(o),
               IF b \in DOMAIN level.key_to_sid THEN insert_before(level, b, o, s)
                                                ELSE push_back(level, o, s))

\* The book once o has been added, and whether a Some anchor was not found.
add_order_before(bk, o, s, b) ==
  LET m == match_order(bk, o, s)
      f == Filled(m)
  IN  IF o \in bk.oid_to_side_px THEN [book |-> bk, fell_back |-> FALSE]
      ELSE IF m.taker = 0 THEN [book |-> f, fell_back |-> FALSE]
      ELSE [book |-> add_order_to_book([f EXCEPT !.oid_to_side_px = @ \cup {o}], o, m.taker, b),
            fell_back |-> b # NoOid /\ b \notin DOMAIN LevelAt(f, o).key_to_sid]

cancel_order(bk, o) ==
  IF o \notin bk.oid_to_side_px THEN bk
  ELSE PutLevel([bk EXCEPT !.oid_to_side_px = @ \ {o}], LevelOf(o), remove(LevelAt(bk, o), o))

modify_sz(bk, o, s) ==
  IF s = 0 THEN cancel_order(bk, o)
  ELSE IF o \notin bk.oid_to_side_px THEN bk
  ELSE PutLevel(bk, LevelOf(o), modify_order_sz(LevelAt(bk, o), o, s))

-----------------------------------------------------------------------------
(* Reading the book: the best bid and offer, and the dump of its orders.   *)

\* The best level of a side as (price, size, orders), as a sequence of at most one.
get_bbo(sd) ==
  LET q == BestFirst(book, sd)
  IN  IF q = <<>> THEN <<>>
      ELSE LET l == book.levels[Head(q)]
           IN  <<[px |-> Head(q)[2], sz |-> l.total_sz, n |-> LenOf(l)]>>

\* to_snapshot_in_band: one side's orders, those that trade first in front.
to_snapshot_in_band(sd, lo, hi) ==
  LET q == BestFirst(book, sd)
      orders(l) == LET w == Slots(l) IN [j \in DOMAIN w |-> l.slab[w[j]]]
  IN  SX!FlattenSeq([i \in DOMAIN q |->
                       IF q[i][2] \in lo..hi THEN orders(book.levels[q[i]]) ELSE <<>>])

KeepsTriggers(s, other) == s   \* mutant: the stop orders are taken for resting ones

\* extract_triggers: from the back of a side, the orders listed on both sides.
WithoutTriggers(s, other) ==
  LET both(n) == \E j \in DOMAIN other : other[j].key = n.key
      kept    == {i \in DOMAIN s : ~both(s[i])}
  IN  IF kept = {} THEN <<>> ELSE SubSeq(s, 1, Max(kept))

\* from_snapshot: the orders are added anew, bids first.
from_snapshot(bids, asks) ==
  LET all == WithoutTriggers(bids, asks) \o WithoutTriggers(asks, bids)
      built[i \in 0..Len(all)] ==
        IF i = 0 THEN NewBook
        ELSE add_order_before(built[i - 1], all[i].key, all[i].sz, NoOid).book
  IN  built[Len(all)]

\* The book built from its own dump, in which the stop orders trig stand at the
\* back of both sides (the older of the node's two formats).
Redumped(trig) ==
  LET stops == [i \in DOMAIN trig |-> [key |-> trig[i], sz |-> 1, next |-> None, prev |-> None]]
      all(sd) == to_snapshot_in_band(sd, 0, Max({px[o] : o \in Oid})) \o stops
  IN  from_snapshot(all("Bid"), all("Ask"))

-----------------------------------------------------------------------------
(* The operations of the map of books on this coin (OrderBooks).           *)

Init == book = NewBook /\ present = FALSE /\ insert_before_fallbacks = FALSE

AddOrder(o, s, b) ==
  LET r == add_order_before(book, o, s, b)
  IN  /\ book' = r.book
      /\ present' = TRUE
      /\ insert_before_fallbacks' = (insert_before_fallbacks \/ r.fell_back)

\* A book without orders leaves the map after a cancel or a change of size.
EvictIfEmpty == present' = (present /\ book'.oid_to_side_px # {})

CancelOrder(o) ==
  /\ present
  /\ book' = cancel_order(book, o)
  /\ EvictIfEmpty
  /\ UNCHANGED insert_before_fallbacks

ModifySz(o, s) ==
  /\ present
  /\ book' = modify_sz(book, o, s)
  /\ EvictIfEmpty
  /\ UNCHANGED insert_before_fallbacks

\* compact_all, on the maintenance timer.
CompactAll ==
  /\ book' = [book EXCEPT !.levels = [l \in DOMAIN @ |-> compact(@[l])]]
  /\ EvictIfEmpty
  /\ UNCHANGED insert_before_fallbacks

\* The book is dumped and built again from the dump.
Rebuild ==
  /\ present
  /\ book' = Redumped(<<>>)
  /\ UNCHANGED <<present, insert_before_fallbacks>>

Next ==
  \/ \E o \in Oid, s \in Size, b \in Oid \cup {NoOid} : AddOrder(o, s, b)
  \/ \E o \in Oid : CancelOrder(o)
  \/ \E o \in Oid, s \in Size \cup {0} : ModifySz(o, s)
  \/ CompactAll
  \/ Rebuild

Spec == Init /\ [][Next]_vars

-----------------------------------------------------------------------------
(* What it implements, and what must hold of the stored form.              *)

\* The order's size, 0 when the book does not have it.
SzIn(bk, o) ==
  LET l == LevelAt(bk, o)
  IN  IF o \in bk.oid_to_side_px /\ o \in DOMAIN l.key_to_sid
        THEN l.slab[l.key_to_sid[o]].sz ELSE 0

SzOf(o) == SzIn(book, o)

QueueIn(bk, l) == IF l \in DOMAIN bk.levels THEN to_vec(bk.levels[l]) ELSE <<>>

Abstract ==
  INSTANCE Book WITH
    sz <- [o \in Oid |-> SzOf(o)],
    queue <- [l \in Level |-> QueueIn(book, l)]

\* The slabs, links, index and level maps behave as the book of sizes and FIFO
\* queues: every add (with its matching, best price and front of the queue
\* first), cancel and resize is the abstract one, and compaction and the eviction
\* of an empty book change nothing.
ImplementsBook == Abstract!BookSpec

\* Links and slots: the walk from the head meets every order once, each node's
\* back link names the node before it, the tail is the last, the map finds each
\* order in its slot, and no slot is both vacant and used.
LinksOK ==
  \A k \in DOMAIN book.levels :
    LET l == book.levels[k]
        w == Slots(l)
    IN  /\ {w[i] : i \in DOMAIN w} = DOMAIN l.slab /\ Len(w) = Cardinality(DOMAIN l.slab)
        /\ \A i \in DOMAIN w :
             /\ l.slab[w[i]].prev = (IF i = 1 THEN None ELSE w[i - 1])
             /\ l.key_to_sid[l.slab[w[i]].key] = w[i]
        /\ l.tail = w[Len(w)]
        /\ LenOf(l) = Len(w)
        /\ \A i \in DOMAIN l.vacant : l.vacant[i] \notin DOMAIN l.slab
        /\ Len(l.vacant) + Len(w) <= l.capacity

\* The index has exactly the orders that stand in some level, each in the level
\* of its price, and no level is left empty: a stale entry would swallow a later
\* add as a duplicate, an empty level would be quoted as the best price.
IndexExact ==
  /\ book.oid_to_side_px = UNION {DOMAIN book.levels[k].key_to_sid : k \in DOMAIN book.levels}
  /\ \A k \in DOMAIN book.levels :
       /\ ~IsEmpty(book.levels[k])
       /\ \A o \in DOMAIN book.levels[k].key_to_sid : LevelOf(o) = k
  /\ book.oid_to_side_px # {} => present

\* What debug_validate asserts, as far as it is true: the running sum is the sum
\* of the sizes as long as it has not been cut at the largest u64, and never more.
AggregateExact ==
  \A k \in DOMAIN book.levels :
    LET l   == book.levels[k]
        sum == MapThenSumSet(LAMBDA sid : l.slab[sid].sz, DOMAIN l.slab)
    IN  l.total_sz <= sum /\ (~l.saturated => l.total_sz = sum)

\* The best bid and offer quoted is the level that an order sweeping the other
\* side meets first, with the number of orders the level has; and bid and offer
\* never cross.
BboIsTop ==
  /\ \A sd \in {"Bid", "Ask"} :
       LET on == {o \in Oid : side[o] = sd /\ SzOf(o) > 0}
       IN  IF on = {} THEN get_bbo(sd) = <<>>
           ELSE LET top == {o \in on : \A n \in on :
                                      IF sd = "Bid" THEN px[n] <= px[o] ELSE px[n] >= px[o]}
                IN  /\ get_bbo(sd) # <<>>
                    /\ \A o \in top : get_bbo(sd)[1].px = px[o]
                    /\ get_bbo(sd)[1].n = Cardinality(top)
  /\ get_bbo("Bid") # <<>> /\ get_bbo("Ask") # <<>> => get_bbo("Bid")[1].px < get_bbo("Ask")[1].px

\* A book built from the dump of another has the same orders, sizes and queues,
\* whatever stop orders trail the dump: adding them again one by one matches
\* nothing, and the stop orders are taken off the back and not rested.
RebuildIsFaithful ==
  \A trig \in {<<>>} \cup {<<o>> : o \in Oid \ book.oid_to_side_px} :
    LET bk == Redumped(trig)
    IN  /\ bk.oid_to_side_px = book.oid_to_side_px
        /\ \A o \in Oid : SzIn(bk, o) = SzOf(o)
        /\ \A l \in Level : QueueIn(bk, l) = QueueIn(book, l)

\* A dump within a band of prices lists exactly the resting orders in the band,
\* each before every order that would trade after it.
DumpInPriority ==
  \A sd \in {"Bid", "Ask"}, lo \in {px[o] : o \in Oid}, hi \in {px[o] : o \in Oid} :
    LET d == to_snapshot_in_band(sd, lo, hi)
    IN  /\ {d[i].key : i \in DOMAIN d}
             = {o \in Oid : side[o] = sd /\ px[o] \in lo..hi /\ SzOf(o) > 0}
        /\ \A i, j \in DOMAIN d : i < j => Abstract!TradesBefore(d[i].key, d[j].key)

\* What a dump says of the book, and what can be made of it again (l4Book, the
\* install of a snapshot): the two above.
DumpIsFaithful == DumpInPriority /\ RebuildIsFaithful
=============================================================================
