--------------------------- MODULE OrderBookState ---------------------------
(***************************************************************************)
(* listeners/order_book/state.rs: OrderBookState, the book the server      *)
(* builds from the node's two files.  An order rests once both halves of   *)
(* it have been read: a status (who and at what price) and a New diff (how *)
(* much and where in the queue).  Whichever half comes first waits in      *)
(* pending_order_statuses or pending_new_diffs.  Later diffs change the    *)
(* order where it is: in the book, or in pending_new_diffs.                *)
(*                                                                         *)
(* The two files are read independently (dpos, spos), in any interleaving. *)
(* The loop over a batch's events is one step per event.  Every order here *)
(* belongs to one coin's book; books of different coins share no state     *)
(* but the pending maps, which are keyed by oid.                           *)
(***************************************************************************)
EXTENDS NodeStreams, Book

CONSTANTS
  MAX_PENDING_ORDERS,   \* cap on pending_order_statuses
  MAX_PENDING_DIFFS,    \* cap on pending_new_diffs
  ZEROED_WINDOW_BLOCKS  \* how long a zeroing Update is remembered

ASSUME StateAssumption ==
  /\ MAX_PENDING_ORDERS \in Nat
  /\ MAX_PENDING_DIFFS \in Nat
  /\ ZEROED_WINDOW_BLOCKS \in Nat

VARIABLES
  ready,      \* a snapshot has been installed
  dpos,       \* diffs read
  spos,       \* statuses read
  pending_order_statuses, \* Oid -> when the status was put there, 0 when absent
  pending_new_diffs,      \* Oid -> the waiting New, NoNew when absent
  zeroed,     \* Oid -> the diff that zeroed the order, 0 when not remembered
  untriggered_orders,     \* stop orders waiting for their trigger price
  loss,       \* the listener has been told of a loss since the last install
  aged        \* history: orders whose waiting status aged out

stateVars == <<ready, dpos, spos, sz, queue, pending_order_statuses,
               pending_new_diffs, zeroed, untriggered_orders,
               insert_before_fallbacks, loss, aged>>
vars == <<nodeVars, stateVars>>

NoNew == [sz |-> 0, before |-> NoOid, at |-> 0]
PendingNew == [sz : Nat, before : Oid \cup {NoOid}, at : Nat]

WaitingStatus(o) == pending_order_statuses[o] > 0
WaitingNew(o) == pending_new_diffs[o].at > 0

-----------------------------------------------------------------------------
(* apply_order_statuses_hft: one order status.                             *)

InsertedWhenOpen(e) == e.kind = "open"   \* mutant: a triggered stop order is overlooked
is_inserted_into_book(e) == e.kind \in {"open", "triggered"}

NextStatus == slog[spos + 1]

TrackUntriggered(e) ==
  untriggered_orders' =
    IF e.kind = "openTrigger" THEN untriggered_orders \cup {e.oid}
    ELSE IF e.kind \in {"triggered", "terminal"} THEN untriggered_orders \ {e.oid}
    ELSE untriggered_orders

ReadStatus ==
  /\ ready
  /\ spos < Len(slog)
  /\ spos' = spos + 1
  /\ TrackUntriggered(NextStatus)

\* Any status completes a New that waits; otherwise one that says the order is
\* in the book waits for its New.
StatusCompletesNew ==
  LET o == NextStatus.oid IN
  /\ ReadStatus
  /\ WaitingNew(o)
  /\ AddOrderBefore(o, pending_new_diffs[o].sz, pending_new_diffs[o].before)
  /\ pending_new_diffs' = [pending_new_diffs EXCEPT ![o] = NoNew]
  /\ UNCHANGED <<nodeVars, ready, dpos, pending_order_statuses, zeroed, loss, aged>>

StatusWaits ==
  LET o == NextStatus.oid IN
  /\ ReadStatus
  /\ ~WaitingNew(o)
  /\ is_inserted_into_book(NextStatus)
  /\ pending_order_statuses' = [pending_order_statuses EXCEPT ![o] = spos + 1]
  /\ UNCHANGED <<nodeVars, ready, dpos, bookVars, pending_new_diffs, zeroed, loss, aged>>

StatusIgnored ==
  /\ ReadStatus
  /\ ~WaitingNew(NextStatus.oid)
  /\ ~is_inserted_into_book(NextStatus)
  /\ UNCHANGED <<nodeVars, ready, dpos, bookVars, pending_order_statuses,
                 pending_new_diffs, zeroed, loss, aged>>

\* The status cannot be converted to an order: the New it was taken for is gone,
\* the batch is abandoned and the listener marks the book.
StatusFails ==
  LET o == NextStatus.oid IN
  /\ ReadStatus
  /\ WaitingNew(o)
  /\ pending_new_diffs' = [pending_new_diffs EXCEPT ![o] = NoNew]
  /\ loss' = TRUE
  /\ UNCHANGED <<nodeVars, ready, dpos, bookVars, pending_order_statuses, zeroed, aged>>

-----------------------------------------------------------------------------
(* apply_order_diffs_hft: one diff.                                        *)

NextDiff == dlog[dpos + 1]

\* The block that wrote diff i.
BlockOf(i) == CHOOSE b \in DOMAIN cuts : /\ cuts[b].d >= i
                                         /\ \A c \in DOMAIN cuts : cuts[c].d >= i => b <= c

\* The zeroings that are still remembered when diff i is read.
Remembered(i) ==
  [o \in Oid |-> IF BlockOf(zeroed[o]) + ZEROED_WINDOW_BLOCKS >= BlockOf(i) THEN zeroed[o] ELSE 0]

ReadDiff(kind) ==
  /\ ready
  /\ dpos < Len(dlog)
  /\ NextDiff.kind = kind
  /\ dpos' = dpos + 1
  /\ UNCHANGED <<nodeVars, ready, spos, untriggered_orders, aged>>

\* mutant: a New always waits, whether its status came first or not.
ApplyNewUnpaired ==
  LET o == NextDiff.oid IN
  /\ ReadDiff("New")
  /\ zeroed' = Remembered(dpos + 1)
  /\ pending_new_diffs' =
       [pending_new_diffs EXCEPT ![o] = [sz |-> NextDiff.sz, before |-> NextDiff.before, at |-> dpos + 1]]
  /\ UNCHANGED <<bookVars, pending_order_statuses, loss>>

\* A New whose status waits rests at once; otherwise it waits itself.
ApplyNew ==
  LET o == NextDiff.oid IN
  /\ ReadDiff("New")
  /\ zeroed' = Remembered(dpos + 1)
  /\ \/ /\ WaitingStatus(o)
        /\ pending_order_statuses' = [pending_order_statuses EXCEPT ![o] = 0]
        /\ AddOrderBefore(o, NextDiff.sz, NextDiff.before)
        /\ UNCHANGED <<pending_new_diffs, loss>>
     \/ /\ ~WaitingStatus(o)
        /\ pending_new_diffs' =
             [pending_new_diffs EXCEPT ![o] = [sz |-> NextDiff.sz, before |-> NextDiff.before, at |-> dpos + 1]]
        /\ UNCHANGED <<bookVars, pending_order_statuses, loss>>

\* mutant: a diff of an order that is not in the book is dropped.
DropDiffOfPendingNew(o, s) == UNCHANGED pending_new_diffs

\* Carry an Update or a Remove over to a New that still waits; new size 0 drops it.
apply_diff_to_pending_new(o, s) ==
  pending_new_diffs' =
    IF ~WaitingNew(o) THEN pending_new_diffs
    ELSE [pending_new_diffs EXCEPT ![o] = IF s > 0 THEN [@ EXCEPT !.sz = s] ELSE NoNew]

ApplyUpdate ==
  LET o == NextDiff.oid
      s == NextDiff.sz
  IN
  /\ ReadDiff("Update")
  /\ \/ /\ sz[o] > 0
        /\ ModifySz(o, s)
        /\ zeroed' = IF s > 0 THEN Remembered(dpos + 1)
                     ELSE [Remembered(dpos + 1) EXCEPT ![o] = IF @ > 0 THEN @ ELSE dpos + 1]
        /\ UNCHANGED pending_new_diffs
     \/ /\ sz[o] = 0
        /\ apply_diff_to_pending_new(o, s)
        /\ zeroed' = Remembered(dpos + 1)
        /\ UNCHANGED bookVars
  /\ UNCHANGED <<pending_order_statuses, loss>>

ApplyRemove ==
  LET o == NextDiff.oid IN
  /\ ReadDiff("Remove")
  /\ \/ /\ sz[o] > 0
        /\ CancelOrder(o)
        /\ zeroed' = Remembered(dpos + 1)
        /\ UNCHANGED pending_new_diffs
     \/ /\ sz[o] = 0
        /\ Remembered(dpos + 1)[o] > 0
        /\ zeroed' = [Remembered(dpos + 1) EXCEPT ![o] = 0]
        /\ UNCHANGED <<bookVars, pending_new_diffs>>
     \/ /\ sz[o] = 0
        /\ Remembered(dpos + 1)[o] = 0
        /\ apply_diff_to_pending_new(o, 0)
        /\ zeroed' = Remembered(dpos + 1)
        /\ UNCHANGED bookVars
  /\ UNCHANGED <<pending_order_statuses, loss>>

\* A diff that cannot be converted abandons its batch, and so does a New whose
\* waiting status cannot be, which is gone then; the listener marks the book.
DiffFails ==
  LET o == NextDiff.oid IN
  /\ \E kind \in {"New", "Update", "Remove"} : ReadDiff(kind)
  /\ zeroed' = Remembered(dpos + 1)
  /\ loss' = TRUE
  /\ \/ UNCHANGED pending_order_statuses
     \/ /\ NextDiff.kind = "New" /\ WaitingStatus(o)
        /\ pending_order_statuses' = [pending_order_statuses EXCEPT ![o] = 0]
  /\ UNCHANGED <<bookVars, pending_new_diffs>>

-----------------------------------------------------------------------------
(* cleanup_stale_pending: age first, then the size caps.                   *)

\* The n oldest members of S, where at[o] is when o was put in the map.
Oldest(S, n, at) == {o \in S : Cardinality({p \in S : at[p] < at[o]}) < n}

\* What an over-full map loses.
Excess(S, cap, at) == Oldest(S, IF Cardinality(S) > cap THEN Cardinality(S) - cap ELSE 0, at)

\* What of this cleanup the listener is told to be a loss: a status that aged out
\* is none (its order may never have rested), nor is a protocol order's New.
LostToAgeOnly(agedNews, overStatuses, overNews) == agedNews \ Protocol # {}   \* mutant: evictions are silent
Lost(agedNews, overStatuses, overNews) ==
  agedNews \ Protocol # {} \/ overStatuses # {} \/ overNews # {}

cleanup_stale_pending(oldStatus, oldDiff) ==
  LET statusAt == pending_order_statuses
      newAt == [o \in Oid |-> pending_new_diffs[o].at]
      agedStatuses == {o \in Oid : WaitingStatus(o) /\ statusAt[o] <= oldStatus}
      agedNews == {o \in Oid : WaitingNew(o) /\ newAt[o] <= oldDiff}
      overStatuses == Excess({o \in Oid : WaitingStatus(o)} \ agedStatuses, MAX_PENDING_ORDERS, statusAt)
      overNews == Excess({o \in Oid : WaitingNew(o)} \ agedNews, MAX_PENDING_DIFFS, newAt)
  IN
  /\ ready
  /\ pending_order_statuses' =
       [o \in Oid |-> IF o \in agedStatuses \cup overStatuses THEN 0 ELSE pending_order_statuses[o]]
  /\ pending_new_diffs' =
       [o \in Oid |-> IF o \in agedNews \cup overNews THEN NoNew ELSE pending_new_diffs[o]]
  /\ loss' = (loss \/ Lost(agedNews, overStatuses, overNews))
  /\ aged' = aged \cup agedStatuses
  /\ UNCHANGED <<nodeVars, ready, dpos, spos, bookVars, zeroed, untriggered_orders>>

-----------------------------------------------------------------------------
(* from_snapshot and the hand-off to the live stream.                      *)

\* The stop orders that wait for their trigger after the first n statuses.
ArmedAfter(n) ==
  {o \in Oid : \E i \in 1..n : /\ slog[i] = [oid |-> o, kind |-> "openTrigger"]
                               /\ \A j \in (i + 1)..n : slog[j].oid # o}

\* The entries of the two files at or below block c are not read again.
SkipOneStatus(c) == [cuts[c] EXCEPT !.s = @ + 1]   \* mutant: off by one
SkipOneDiff(c) == [cuts[c] EXCEPT !.d = IF @ < Len(dlog) THEN @ + 1 ELSE @]   \* mutant: off by one
ResumeAfter(c) == cuts[c]

\* The book is dumped at the end of block d and reading starts right after
\* block c.  Depending on its version the node dumps its stop orders or leaves
\* them out; a dump without any keeps the previous table
\* (carry_forward_untriggered).
InstallAt(c, d) ==
  /\ ~ready \/ loss
  /\ ready' = TRUE
  /\ dpos' = ResumeAfter(c).d
  /\ spos' = ResumeAfter(c).s
  /\ sz' = nodeSz[cuts[d].d + 1]
  /\ queue' = nodeQueue[cuts[d].d + 1]
  /\ pending_order_statuses' = [o \in Oid |-> 0]
  /\ pending_new_diffs' = [o \in Oid |-> NoNew]
  /\ zeroed' = [o \in Oid |-> 0]
  /\ \E dumped \in {{}, ArmedAfter(cuts[d].s)} :
       untriggered_orders' = IF dumped = {} THEN untriggered_orders ELSE dumped
  /\ insert_before_fallbacks' = FALSE
  /\ loss' = FALSE
  /\ aged' = {}
  /\ UNCHANGED nodeVars

Install == \E c \in DOMAIN cuts : InstallAt(c, c)

-----------------------------------------------------------------------------
Init ==
  /\ NodeInit
  /\ ready = FALSE
  /\ dpos = 0
  /\ spos = 0
  /\ sz = [o \in Oid |-> 0]
  /\ queue = [l \in Level |-> <<>>]
  /\ pending_order_statuses = [o \in Oid |-> 0]
  /\ pending_new_diffs = [o \in Oid |-> NoNew]
  /\ zeroed = [o \in Oid |-> 0]
  /\ untriggered_orders = {}
  /\ insert_before_fallbacks = FALSE
  /\ loss = FALSE
  /\ aged = {}

ApplyStatus == StatusCompletesNew \/ StatusWaits \/ StatusIgnored \/ StatusFails

ApplyDiff == ApplyNew \/ ApplyUpdate \/ ApplyRemove \/ DiffFails

Cleanup == \E i \in 0..spos, j \in 0..dpos : cleanup_stale_pending(i, j)

NodeStep == NodeNext /\ UNCHANGED stateVars

Next == NodeStep \/ ApplyStatus \/ ApplyDiff \/ Cleanup \/ Install

Spec == Init /\ [][Next]_vars

-----------------------------------------------------------------------------
(* Properties.                                                             *)

BookTypeOK ==
  /\ sz \in [Oid -> Nat]
  /\ queue \in [Level -> Seq(Oid)]
  /\ pending_new_diffs \in [Oid -> PendingNew]

ControlTypeOK ==
  /\ NodeTypeOK
  /\ ready \in BOOLEAN
  /\ dpos \in 0..Len(dlog)
  /\ spos \in 0..Len(slog)
  /\ pending_order_statuses \in [Oid -> Nat]
  /\ zeroed \in [Oid -> Nat]
  /\ untriggered_orders \in SUBSET Oid
  /\ insert_before_fallbacks \in BOOLEAN
  /\ loss \in BOOLEAN
  /\ aged \in SUBSET Oid

\* Every variable has its type, and neither file is read past its end.
TypeOK == ControlTypeOK /\ BookTypeOK

\* The node's book at the point the server has read the diff file to.
Applied == nodeSz[dpos + 1]
AppliedQueue == nodeQueue[dpos + 1]

\* A snapshot is installed and no loss has been reported since.
Trusted == ready /\ ~loss

\* No phantoms: every order in a book that is not marked as out of sync rests at
\* the node, with this very size, at the point the diff file has been read to.
\* (apply_order_diffs_hft, apply_diff_to_pending_new)
NoPhantom == Trusted => \A o \in Oid : sz[o] > 0 => sz[o] = Applied[o]

\* No silent loss: an order resting at the node is in the book with its size or
\* waits, with its size, for its status; otherwise the book is marked.  The
\* protocol's own orders, which never get a status, are the exception.
\* (cleanup_stale_pending)
NoSilentLoss ==
  Trusted => \A o \in Oid \ Protocol :
               Applied[o] > 0 => sz[o] = Applied[o] \/ pending_new_diffs[o].sz = Applied[o]

\* Pairing converges: once both halves of a resting order have been read, in
\* whatever order, the order is in the book, unless its status aged out before
\* its New came.
StatusRead(o) == \E i \in 1..spos : slog[i].oid = o /\ slog[i].kind \in {"open", "triggered"}

PairedOrdersRest ==
  Trusted => \A o \in Oid \ aged : Applied[o] > 0 /\ StatusRead(o) => sz[o] = Applied[o]

\* In queue q order a stands before order b.
StandsBefore(q, a, b) == \E i, j \in DOMAIN q : i < j /\ q[i] = a /\ q[j] = b

\* Queue priority: a level's queue holds each of its resting orders once, and
\* nothing else; and they stand in the order the node has them in, insertBefore
\* splices included, as long as no anchor was missing and no waiting status aged
\* out.  Of a level with stop orders the second half is not said: a stop order
\* has a status long before it rests, which may complete its New too early.
\* (add_order_to_book)
HeldOnce(l) ==
  /\ {queue[l][i] : i \in DOMAIN queue[l]} = {o \in Oid : sz[o] > 0 /\ LevelOf(o) = l}
  /\ \A i, j \in DOMAIN queue[l] : queue[l][i] = queue[l][j] => i = j

InNodesOrder(l) ==
  \A i, j \in DOMAIN queue[l] : i < j => StandsBefore(AppliedQueue[l], queue[l][i], queue[l][j])

Undisturbed == ~insert_before_fallbacks /\ aged = {}

QueueOrder ==
  Trusted => \A l \in Level : /\ HeldOnce(l)
                              /\ Undisturbed /\ (\A o \in Triggers : LevelOf(o) # l) => InNodesOrder(l)

\* The zeroed shortcut is sound: in a trusted book an order remembered as zeroed neither rests nor
\* waits, so a Remove that stops at zeroed_set has nothing left to remove.
ZeroedIsGone == Trusted => \A o \in Oid : zeroed[o] > 0 => sz[o] = 0 /\ ~WaitingNew(o)

\* Local matching is inert: while the book is trusted, a resting order's size
\* changes only by a diff of its own, never because add_order_before matched an
\* incoming order against it.
OwnDiffOnly ==
  [][\A o \in Oid : Trusted /\ sz[o] > 0 /\ sz'[o] # sz[o]
                      => dpos' = dpos + 1 /\ dlog[dpos'].oid = o]_vars

=============================================================================
