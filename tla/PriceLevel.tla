----------------------------- MODULE PriceLevel -----------------------------
(***************************************************************************)
(* One price level: the orders in a slab, doubly linked in queue order, a  *)
(* map from oids to slots, and a running sum of the sizes                  *)
(* (order_book/linked_list.rs, order_book/price_level.rs).                 *)
(*                                                                         *)
(* Slots are numbered from 1 and 0 is None.  A vacated slot is the next    *)
(* one used (the slab crate keeps its vacant slots in a stack).            *)
(***************************************************************************)
EXTENDS Orders, Functions

CONSTANTS
  GrowMin,       \* the least capacity a Vec grows to (4 in the standard library)
  CompactSlack,  \* capacity tolerated beyond twice the orders (64)
  SzMax          \* u64::MAX, where the sum of sizes saturates

ASSUME PriceLevelAssumption ==
  /\ GrowMin \in Nat \ {0} /\ CompactSlack \in Nat /\ SzMax \in Nat

None == 0

\* Function f with v at x, and without x.
With(f, x, v) == [y \in DOMAIN f \cup {x} |-> IF y = x THEN v ELSE f[y]]
Without(f, x) == Restrict(f, DOMAIN f \ {x})

SatAdd(a, b) == IF a + b > SzMax THEN SzMax ELSE a + b
SatSub(a, b) == IF a > b THEN a - b ELSE 0

\* LinkedList::new with room for c orders, in PriceLevel::new; saturated is a
\* history variable: the sum has been cut at SzMax.
NewLevel(c) ==
  [key_to_sid |-> <<>>, slab |-> <<>>, vacant |-> <<>>, capacity |-> c,
   head |-> None, tail |-> None, total_sz |-> 0, saturated |-> FALSE]

LenOf(l) == Cardinality(DOMAIN l.key_to_sid)
IsEmpty(l) == l.head = None

-----------------------------------------------------------------------------
(* The slab crate, with the map that is kept beside it.                    *)

NextSlot(l) == IF l.vacant = <<>> THEN Cardinality(DOMAIN l.slab) + 1 ELSE Head(l.vacant)

Capacity(l) ==
  IF l.vacant # <<>> \/ Cardinality(DOMAIN l.slab) < l.capacity THEN l.capacity
  ELSE IF 2 * l.capacity > GrowMin THEN 2 * l.capacity ELSE GrowMin

SlabInsert(l, node) ==
  [l EXCEPT !.slab = With(@, NextSlot(l), node),
            !.key_to_sid = With(@, node.key, NextSlot(l)),
            !.vacant = IF @ = <<>> THEN @ ELSE Tail(@),
            !.capacity = Capacity(l)]

SlabRemove(l, o) ==
  LET sid == l.key_to_sid[o]
  IN  [l EXCEPT !.slab = Without(@, sid), !.key_to_sid = Without(@, o), !.vacant = <<sid>> \o @]

-----------------------------------------------------------------------------
(* LinkedList: the four ways the links change.                             *)

SetNext(l, sid, next) == [l EXCEPT !.slab[sid].next = next]
SetPrev(l, sid, prev) == [l EXCEPT !.slab[sid].prev = prev]

ListPushBack(l, o, s) ==
  LET sid == NextSlot(l)
      in  == [SlabInsert(l, [key |-> o, sz |-> s, next |-> None, prev |-> l.tail])
                EXCEPT !.tail = sid]
  IN  IF l.tail = None THEN [in EXCEPT !.head = sid] ELSE SetNext(in, l.tail, sid)

ListInsertBefore(l, b, o, s) ==
  LET at   == l.key_to_sid[b]
      prev == l.slab[at].prev
      sid  == NextSlot(l)
      in   == SetPrev(SlabInsert(l, [key |-> o, sz |-> s, next |-> at, prev |-> prev]), at, sid)
  IN  IF prev = None THEN [in EXCEPT !.head = sid] ELSE SetNext(in, prev, sid)

\* mutant: the node behind keeps its link to the vacated slot
UnlinkForward(l, n) ==
  LET out == IF n.prev = None THEN [l EXCEPT !.head = n.next] ELSE SetNext(l, n.prev, n.next)
  IN  IF n.next = None THEN [out EXCEPT !.tail = n.prev] ELSE out

\* The links around a node n that has left the slab.
Unlink(l, n) ==
  LET out == IF n.prev = None THEN [l EXCEPT !.head = n.next] ELSE SetNext(l, n.prev, n.next)
  IN  IF n.next = None THEN [out EXCEPT !.tail = n.prev] ELSE SetPrev(out, n.next, n.prev)

\* remove_node; remove_front is the same of the head.
ListRemove(l, o) == Unlink(SlabRemove(l, o), l.slab[l.key_to_sid[o]])

\* The slots met from the head on.  (Bounded by the number of orders, and a
\* link to a vacant slot ends it: the code would panic there.)
Slots(l) ==
  LET n == Cardinality(DOMAIN l.slab)
      nextOf == [sid \in Nat |-> IF sid \in DOMAIN l.slab THEN l.slab[sid].next ELSE None]
      at[i \in 0..n] == IF i = 0 THEN l.head ELSE nextOf[at[i - 1]]
  IN  [i \in 1..Cardinality({j \in 0..n : at[j] \in DOMAIN l.slab}) |-> at[i - 1]]

to_vec(l) == LET w == Slots(l) IN [i \in DOMAIN w |-> l.slab[w[i]].key]

\* compact: the list is pushed into a fresh slab when the old one is mostly vacant.
compact(l) ==
  LET w == Slots(l)
      fresh[i \in 0..Len(w)] ==
        IF i = 0 THEN NewLevel(LenOf(l))
        ELSE ListPushBack(fresh[i - 1], l.slab[w[i]].key, l.slab[w[i]].sz)
  IN  IF l.capacity <= 2 * LenOf(l) + CompactSlack THEN l
      ELSE [fresh[Len(w)] EXCEPT !.total_sz = l.total_sz, !.saturated = l.saturated]

-----------------------------------------------------------------------------
(* PriceLevel: the same operations with the running sum.                   *)

Counted(l, s) ==
  [l EXCEPT !.total_sz = SatAdd(@, s), !.saturated = @ \/ l.total_sz + s > SzMax]

push_back(l, o, s) ==
  IF o \in DOMAIN l.key_to_sid THEN l ELSE Counted(ListPushBack(l, o, s), s)

insert_before(l, b, o, s) ==
  IF o \in DOMAIN l.key_to_sid \/ b \notin DOMAIN l.key_to_sid THEN l
  ELSE Counted(ListInsertBefore(l, b, o, s), s)

remove(l, o) ==
  IF o \notin DOMAIN l.key_to_sid THEN l
  ELSE [ListRemove(l, o) EXCEPT !.total_sz = SatSub(@, l.slab[l.key_to_sid[o]].sz)]

\* mutant: the new size is added, the old one stays in the sum
AddNewSize(l, o, s) ==
  IF o \notin DOMAIN l.key_to_sid THEN l
  ELSE Counted([l EXCEPT !.slab[l.key_to_sid[o]].sz = s], SatSub(s, l.slab[l.key_to_sid[o]].sz))

modify_order_sz(l, o, s) ==
  IF o \notin DOMAIN l.key_to_sid THEN l
  ELSE LET sid == l.key_to_sid[o]
       IN  Counted([l EXCEPT !.slab[sid].sz = s, !.total_sz = SatSub(@, l.slab[sid].sz)], s)

\* One turn of match_against's loop: the taker against the head of the queue.
MatchHead(m) ==
  LET maker == m.level.slab[m.level.head]
      fill  == IF maker.sz < m.taker THEN maker.sz ELSE m.taker
      left  == [m.level EXCEPT !.slab[m.level.head].sz = @ - fill,
                               !.total_sz = SatSub(@, fill)]
  IN  IF m.taker = 0 \/ IsEmpty(m.level) THEN m
      ELSE [level  |-> IF fill = maker.sz THEN ListRemove(left, maker.key) ELSE left,
            taker  |-> m.taker - fill,
            filled |-> IF fill = maker.sz THEN m.filled \cup {maker.key} ELSE m.filled]

\* A taker of size s against the whole level: what is left of each, and the
\* makers it filled.
match_against(l, s) ==
  LET turn[n \in 0..LenOf(l)] ==
        IF n = 0 THEN [level |-> l, taker |-> s, filled |-> {}] ELSE MatchHead(turn[n - 1])
  IN  turn[LenOf(l)]
=============================================================================
