-------------------------- MODULE SnapshotHandoff --------------------------
(***************************************************************************)
(* The hand-off from a snapshot to the live files when the node persists   *)
(* its state between the server's reading of the persisted height (block   *)
(* c, fetch_snapshot) and the dump itself (block d >= c): the dump is      *)
(* newer than the height the replay starts from, and the blocks in between *)
(* are applied to a book that already has them.                            *)
(***************************************************************************)
EXTENDS OrderBookState

CONSTANT PersistGap  \* bound: blocks between the height read and the dump

ASSUME HandoffAssumption == PersistGap \in Nat

VARIABLES
  dumpAt,     \* how long the files were when the book was dumped
  resumedAt,  \* how long they were at the end of the block the replay starts after
  inStep      \* whether each diff read since then was read after its block's statuses

handoffVars == <<vars, dumpAt, resumedAt, inStep>>

HandoffInit ==
  /\ Init
  /\ dumpAt = [d |-> 0, s |-> 0]
  /\ resumedAt = [d |-> 0, s |-> 0]
  /\ inStep = TRUE

LateInstall ==
  \E c, d \in DOMAIN cuts :
     /\ c <= d
     /\ d <= c + PersistGap
     /\ InstallAt(c, d)
     /\ dumpAt' = cuts[d]
     /\ resumedAt' = cuts[c]
     /\ inStep' = TRUE

\* The statuses written up to the end of the block that wrote the next diff.
StatusesOfNextDiff ==
  LET b == CHOOSE i \in DOMAIN cuts : /\ cuts[i].d > dpos
                                      /\ \A j \in DOMAIN cuts : cuts[j].d > dpos => i <= j
  IN  cuts[b].s

HandoffNext ==
  \/ LateInstall
  \/ /\ NodeStep \/ ApplyStatus \/ Cleanup
     /\ UNCHANGED <<dumpAt, resumedAt, inStep>>
  \/ /\ ApplyDiff
     /\ inStep' = (inStep /\ spos >= StatusesOfNextDiff)
     /\ UNCHANGED <<dumpAt, resumedAt>>

HandoffSpec == HandoffInit /\ [][HandoffNext]_handoffVars

-----------------------------------------------------------------------------
(* Properties.  The comment in fetch_snapshot says that "the replay above  *)
(* the cutoff only over-applies (duplicate adds are dropped by the oid     *)
(* guard, cancels of absent orders no-op)".  There are two ways in which   *)
(* it does more; the properties name the orders that they can reach, and   *)
(* speak of all others.                                                    *)

\* Both files have been read past the dump.
PastDump == dpos >= dumpAt.d /\ spos >= dumpAt.s

\* The node's book where the dump was made.
Dump == nodeSz[dumpAt.d + 1]

\* The orders whose New the replay reads although the dump was made after it.
ReadAgain ==
  {o \in Oid : \E i \in (resumedAt.d + 1)..dumpAt.d : dlog[i].oid = o /\ dlog[i].kind = "New"}

\* No order that is read again would trade with o.  (An order read again that had left
\* by the time of the dump is added to a book in which it never stood, and trades there.)
Clear(o) == \A m \in ReadAgain : ~Crosses(o, m)

\* o was read again while the dump had it, and has left since.  Its second New waits for
\* a status beside the order in the book; if a Remove is read first, the status puts
\* the order back.  Not when every diff was read after its block's statuses.
MayComeBack(o) == ~inStep /\ o \in ReadAgain /\ Dump[o] > 0 /\ Applied[o] = 0

\* Replaying blocks the dump already has is harmless but for the orders named above:
\* past the dump an order in the book has the node's size, however the two files are
\* interleaved and whatever crosses; and no order but those read again has ever more
\* than the node gives it, so none of them is a phantom.
OverApplyIsHarmless ==
  Trusted /\ PastDump =>
    \A o \in Oid : /\ sz[o] > 0 /\ Clear(o) /\ ~MayComeBack(o) => sz[o] = Applied[o]
                   /\ o \notin ReadAgain => sz[o] <= Applied[o]

\* The same replay, seen from the other side: no order the node has is lost unless an
\* order read again would trade with it, or its replayed status aged out.
OverApplyLosesNothing ==
  Trusted /\ PastDump =>
    \A o \in Oid \ aged : Applied[o] > 0 /\ StatusRead(o) /\ Clear(o) => sz[o] = Applied[o]
=============================================================================
