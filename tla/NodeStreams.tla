---------------------------- MODULE NodeStreams ----------------------------
(***************************************************************************)
(* The node (hl-node) as the order-book server sees it: an append-only     *)
(* file of order statuses and an append-only file of raw book diffs.  The  *)
(* node is not part of the repository; this module is what the server's    *)
(* code and its comments rely on:                                          *)
(*   - a resting order gets a New diff and a status ("open", or            *)
(*     "triggered" for a stop order), written in the same block, so both   *)
(*     files list the resting orders in the same order;                    *)
(*   - an order filled or cancelled in the block it was placed has         *)
(*     statuses and no diff; a protocol order has diffs and no status;     *)
(*   - a full fill is an Update to zero and, later, a Remove;              *)
(*   - no prefix of the diff file describes a crossed book.                *)
(* Each operation below is one block.  nodeSz and nodeQueue record the     *)
(* node's own book after each diff; cuts records how long the two files    *)
(* were at the end of each block.                                          *)
(***************************************************************************)
EXTENDS Orders

CONSTANTS
  Triggers,  \* the oids that are stop / TP-SL orders
  Protocol,  \* the oids placed by the protocol's own address
  MaxBlocks  \* bound: blocks the node writes

ASSUME NodeAssumption ==
  /\ Triggers \subseteq Oid
  /\ Protocol \subseteq Oid
  /\ MaxBlocks \in Nat

VARIABLES
  phase,     \* Oid -> the node's view of the order's life
  dlog,      \* the diff file
  slog,      \* the status file
  nodeSz,    \* nodeSz[i + 1]: sizes in the node's book after i diffs
  nodeQueue, \* nodeQueue[i + 1]: its price-level queues after i diffs
  cuts       \* cuts[b + 1]: lengths of the two files after b blocks

nodeVars == <<phase, dlog, slog, nodeSz, nodeQueue, cuts>>

-----------------------------------------------------------------------------
Diff == [oid : Oid, kind : {"New", "Update", "Remove"}, sz : Nat, before : Oid \cup {NoOid}]

StatusKind == {"open", "openTrigger", "openIoc", "triggered", "terminal"}
Status == [oid : Oid, kind : StatusKind]

-----------------------------------------------------------------------------
SzNow == nodeSz[Len(nodeSz)]
QueueNow == nodeQueue[Len(nodeQueue)]

\* The sizes f after diff d.
After(f, d) == [f EXCEPT ![d.oid] = d.sz]

InBook(o) == SzNow[o] > 0

\* The files after a block that appends the statuses ss.
WriteStatuses(ss) ==
  /\ slog' = slog \o ss
  /\ UNCHANGED <<dlog, nodeSz, nodeQueue>>
  /\ cuts' = Append(cuts, [d |-> Len(dlog), s |-> Len(slog) + Len(ss)])

\* The files after a block that appends diff d and the statuses ss, leaving the
\* queue of d's level as q.
WriteDiff(d, q, ss) ==
  /\ dlog' = Append(dlog, d)
  /\ slog' = slog \o ss
  /\ nodeSz' = Append(nodeSz, After(SzNow, d))
  /\ nodeQueue' = Append(nodeQueue, [QueueNow EXCEPT ![LevelOf(d.oid)] = q])
  /\ cuts' = Append(cuts, [d |-> Len(dlog) + 1, s |-> Len(slog) + Len(ss)])

MoreBlocks == Len(cuts) <= MaxBlocks

\* An order comes to rest: at the back of its level, or in front of an order
\* resting there (a priority post-only order).  What it would have traded with
\* is gone from the book by earlier diffs.
NodeRest(o, s, b) ==
  /\ MoreBlocks
  /\ phase[o] = IF o \in Triggers THEN "armed" ELSE "unplaced"
  /\ \A m \in Oid : InBook(m) => ~Crosses(o, m)
  /\ b # NoOid => InBook(b) /\ LevelOf(b) = LevelOf(o)
  /\ phase' = [phase EXCEPT ![o] = "resting"]
  /\ LET q == QueueNow[LevelOf(o)]
         at == IF PosIn(q, b) = 0 THEN Len(q) + 1 ELSE PosIn(q, b)
         opened == <<[oid |-> o, kind |-> IF o \in Triggers THEN "triggered" ELSE "open"]>>
     IN  WriteDiff([oid |-> o, kind |-> "New", sz |-> s, before |-> b],
                   InsertAt(q, at, o),
                   IF o \in Protocol THEN <<>> ELSE opened)

\* A stop order is accepted and waits for its trigger price.
NodeArm(o) ==
  /\ MoreBlocks
  /\ o \in Triggers
  /\ phase[o] = "unplaced"
  /\ phase' = [phase EXCEPT ![o] = "armed"]
  /\ WriteStatuses(<<[oid |-> o, kind |-> "openTrigger"]>>)

\* A stop order is cancelled before it triggers.
NodeDisarm(o) ==
  /\ MoreBlocks
  /\ phase[o] = "armed"
  /\ phase' = [phase EXCEPT ![o] = "gone"]
  /\ WriteStatuses(<<[oid |-> o, kind |-> "terminal"]>>)

\* An order that is opened and gone within one block: statuses, no diff.
NodeFlash(o, k) ==
  /\ MoreBlocks
  /\ o \notin Protocol
  /\ IF o \in Triggers THEN phase[o] = "armed" /\ k = "triggered"
                        ELSE phase[o] = "unplaced" /\ k \in {"open", "openIoc"}
  /\ phase' = [phase EXCEPT ![o] = "gone"]
  /\ WriteStatuses(<<[oid |-> o, kind |-> k], [oid |-> o, kind |-> "terminal"]>>)

\* A partial fill or an amendment: the size changes, the place in the queue stays.
NodeResize(o, s) ==
  /\ MoreBlocks
  /\ phase[o] = "resting"
  /\ s # SzNow[o]
  /\ UNCHANGED phase
  /\ WriteDiff([oid |-> o, kind |-> "Update", sz |-> s, before |-> NoOid],
               QueueNow[LevelOf(o)], <<>>)

NodeLeave(o, kind, to, ss) ==
  /\ phase' = [phase EXCEPT ![o] = to]
  /\ LET q == QueueNow[LevelOf(o)]
     IN  WriteDiff([oid |-> o, kind |-> kind, sz |-> 0, before |-> NoOid],
                   IF PosIn(q, o) = 0 THEN q ELSE DeleteAt(q, PosIn(q, o)), ss)

Terminal(o) == IF o \in Protocol THEN <<>> ELSE <<[oid |-> o, kind |-> "terminal"]>>

\* A full fill: an Update down to zero ...
NodeFilled(o) ==
  /\ MoreBlocks
  /\ phase[o] = "resting"
  /\ NodeLeave(o, "Update", "zeroed", Terminal(o))

\* ... and the Remove the node writes for it some blocks later.
NodeRemoveFilled(o) ==
  /\ MoreBlocks
  /\ phase[o] = "zeroed"
  /\ NodeLeave(o, "Remove", "gone", <<>>)

NodeCancel(o) ==
  /\ MoreBlocks
  /\ phase[o] = "resting"
  /\ NodeLeave(o, "Remove", "gone", Terminal(o))

NodeInit ==
  /\ phase = [o \in Oid |-> "unplaced"]
  /\ dlog = <<>>
  /\ slog = <<>>
  /\ nodeSz = <<[o \in Oid |-> 0]>>
  /\ nodeQueue = <<[l \in Level |-> <<>>]>>
  /\ cuts = <<[d |-> 0, s |-> 0]>>

NodeNext ==
  \E o \in Oid :
     \/ \E s \in Size, b \in Oid \cup {NoOid} : NodeRest(o, s, b)
     \/ NodeArm(o)
     \/ NodeDisarm(o)
     \/ \E k \in {"open", "openIoc", "triggered"} : NodeFlash(o, k)
     \/ \E s \in Size : NodeResize(o, s)
     \/ NodeFilled(o)
     \/ NodeRemoveFilled(o)
     \/ NodeCancel(o)

Phase == {"unplaced", "armed", "resting", "zeroed", "gone"}

Cut == [d : Nat, s : Nat]

NodeTypeOK ==
  /\ phase \in [Oid -> Phase]
  /\ dlog \in Seq(Diff)
  /\ slog \in Seq(Status)
  /\ nodeSz \in Seq([Oid -> Nat])
  /\ nodeQueue \in Seq([Level -> Seq(Oid)])
  /\ cuts \in Seq(Cut)
=============================================================================
