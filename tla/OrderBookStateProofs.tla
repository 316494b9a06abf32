------------------------ MODULE OrderBookStateProofs ------------------------
(***************************************************************************)
(* The pairing of statuses and diffs is right for any number of orders,    *)
(* any prices and sizes, any caps, and any interleaving of the two files:  *)
(* a book that is not marked out of sync has no phantom, misses nothing    *)
(* silently, and is never changed by local matching.  A book that lost     *)
(* events may match; its sizes and queues stay well typed.                 *)
(*                                                                         *)
(* Pairing also converges and keeps queue priority: an order of which both *)
(* halves have been read is in the book, and the orders of a level stand   *)
(* in the node's order.  Both rest on what the two files say about each    *)
(* other (FilesAgree), the second also on how the node's queues change     *)
(* from diff to diff (QueuesOK).                                           *)
(*                                                                         *)
(* The last part is about SnapshotHandoff: a replay that starts behind the *)
(* dump ends up with the node's book, but for the orders that a skewed     *)
(* reading brings back and those that one read again would trade with;     *)
(* however the files are interleaved, whatever crosses.                    *)
(***************************************************************************)
EXTENDS SnapshotHandoff, TLAPS, FiniteSetTheorems, WellFoundedInduction

-----------------------------------------------------------------------------
(* The node: what the two files say about each other.                      *)

\* Each diff turns the node's book into the next one.
HistoryOK ==
  /\ Len(nodeSz) = Len(dlog) + 1
  /\ Len(nodeQueue) = Len(dlog) + 1
  /\ \A i \in 1..Len(dlog) : nodeSz[i + 1] = After(nodeSz[i], dlog[i])

\* A New is the first the files say of its order and has a size; an Update is of
\* an order that rests; a Remove leaves nothing.
DiffsOK ==
  \A i \in 1..Len(dlog) :
     /\ dlog[i].kind = "New" =>
          dlog[i].sz > 0 /\ \A j \in 1..i : nodeSz[j][dlog[i].oid] = 0
     /\ dlog[i].kind = "Update" => nodeSz[i][dlog[i].oid] > 0
     /\ dlog[i].kind = "Remove" => dlog[i].sz = 0

\* No prefix of the diff file is a crossed book.
Uncrossed ==
  \A i \in 1..Len(nodeSz) : \A o, m \in Oid :
     nodeSz[i][o] > 0 /\ nodeSz[i][m] > 0 => ~Crosses(o, m)

PhaseOK ==
  \A o \in Oid :
     /\ phase[o] = "resting" <=> SzNow[o] > 0
     /\ phase[o] \in {"unplaced", "armed"} => \A j \in 1..Len(nodeSz) : nodeSz[j][o] = 0

CutsOK == \A c \in DOMAIN cuts : cuts[c].d <= Len(dlog) /\ cuts[c].s <= Len(slog)

NodeInv == NodeTypeOK /\ HistoryOK /\ DiffsOK /\ Uncrossed /\ PhaseOK /\ CutsOK

-----------------------------------------------------------------------------
(* The server: each order is in one place, with the size the diffs read    *)
(* so far give it.                                                         *)

OrderOK(o) ==
  /\ sz[o] > 0 => sz[o] = Applied[o]
  /\ WaitingNew(o) => /\ sz[o] = 0
                      /\ pending_new_diffs[o].sz = Applied[o]
                      /\ Applied[o] > 0
  /\ o \notin Protocol /\ Applied[o] > 0 => sz[o] > 0 \/ WaitingNew(o)
  /\ zeroed[o] > 0 => Applied[o] = 0 /\ \E j \in 1..(dpos + 1) : nodeSz[j][o] > 0

IInv ==
  /\ NodeInv
  /\ ControlTypeOK
  /\ Trusted => BookTypeOK /\ \A o \in Oid : OrderOK(o)

-----------------------------------------------------------------------------
(* Queues.                                                                 *)

\* The position of an order in a queue is 0 or an index of the queue.
LEMMA PosInType ==
  ASSUME NEW S, NEW q \in Seq(S), NEW o
  PROVE  PosIn(q, o) \in 0..Len(q)
<1>1. CASE \E i \in DOMAIN q : q[i] = o
  <2>1. PICK i \in DOMAIN q : q[i] = o
    BY <1>1
  <2>2. (CHOOSE k \in DOMAIN q : q[k] = o) \in DOMAIN q
    BY <2>1
  <2>3. QED
    BY <1>1, <2>2 DEF PosIn
<1>2. CASE ~ \E i \in DOMAIN q : q[i] = o
  BY <1>2 DEF PosIn
<1>3. QED
  BY <1>1, <1>2

\* Inserting an order into a queue and deleting one from it give queues.
LEMMA InsertAtType ==
  ASSUME NEW S, NEW q \in Seq(S), NEW o \in S, NEW i \in 1..(Len(q) + 1)
  PROVE  InsertAt(q, i, o) \in Seq(S)
BY DEF InsertAt

LEMMA DeleteAtType ==
  ASSUME NEW S, NEW q \in Seq(S), NEW i \in 0..Len(q)
  PROVE  DeleteAt(q, i) \in Seq(S)
BY DEF DeleteAt

-----------------------------------------------------------------------------
(* The node's invariant.                                                   *)

\* What has been read of the files stays as it was read.
FilesGrow ==
  /\ Len(dlog') >= Len(dlog)
  /\ Len(slog') >= Len(slog)
  /\ \A i \in 1..(Len(dlog) + 1) : nodeSz'[i] = nodeSz[i]

\* Crossing does not depend on which of the two orders came first.
LEMMA CrossesSymmetric ==
  ASSUME NEW o \in Oid, NEW m \in Oid
  PROVE  Crosses(o, m) <=> Crosses(m, o)
BY NodeAssumption, OrdersAssumption DEF Crosses

\* The invariant holds of the empty files.
LEMMA NodeInitInv == NodeInit => NodeInv
<1> SUFFICES ASSUME NodeInit PROVE NodeInv
  OBVIOUS
<1> USE DEF NodeInit
<1>1. NodeTypeOK
  BY DEF NodeTypeOK, Phase, Cut
<1>2. HistoryOK /\ DiffsOK /\ CutsOK
  BY DEF HistoryOK, DiffsOK, CutsOK
<1>3. Uncrossed
  BY DEF Uncrossed
<1>4. PhaseOK
  BY DEF PhaseOK, SzNow
<1>5. QED
  BY <1>1, <1>2, <1>3, <1>4 DEF NodeInv

\* A block without a diff keeps it, when no order enters or leaves the book.
LEMMA StatusesKeepNodeInv ==
  ASSUME NodeInv, NEW ss \in Seq(Status), WriteStatuses(ss),
         phase' \in [Oid -> Phase],
         \A o \in Oid : phase'[o] = "resting" <=> phase[o] = "resting",
         \A o \in Oid : phase'[o] \in {"unplaced", "armed"} => phase[o] \in {"unplaced", "armed"}
  PROVE  NodeInv' /\ FilesGrow
<1> USE DEF NodeInv, WriteStatuses
<1>1. /\ slog' \in Seq(Status) /\ Len(slog') = Len(slog) + Len(ss)
      /\ Len(ss) \in Nat /\ Len(slog) \in Nat /\ Len(dlog) \in Nat
  BY DEF NodeTypeOK
<1>2. /\ [d |-> Len(dlog), s |-> Len(slog) + Len(ss)] \in Cut
      /\ cuts \in Seq(Cut)
  BY <1>1 DEF NodeTypeOK, Cut
<1>3. NodeTypeOK'
  BY <1>1, <1>2 DEF NodeTypeOK
<1>4. (HistoryOK /\ DiffsOK /\ Uncrossed)'
  BY DEF HistoryOK, DiffsOK, Uncrossed
<1>5. PhaseOK'
  BY DEF PhaseOK, SzNow
<1>6. CutsOK'
  <2>1. \A c \in DOMAIN cuts : cuts[c] \in Cut
    BY <1>2
  <2>2. QED
    BY <1>1, <1>2, <2>1 DEF CutsOK, Cut
<1>7. FilesGrow
  BY <1>1 DEF FilesGrow
<1>8. QED
  BY <1>3, <1>4, <1>5, <1>6, <1>7

\* A block with a diff keeps it, when the diff is one the node may write.
LEMMA DiffKeepsNodeInv ==
  ASSUME NodeInv, NEW d \in Diff, NEW q \in Seq(Oid), NEW ss \in Seq(Status),
         WriteDiff(d, q, ss),
         phase' \in [Oid -> Phase],
         d.kind = "New" => d.sz > 0 /\ \A j \in 1..Len(nodeSz) : nodeSz[j][d.oid] = 0,
         d.kind = "Update" => SzNow[d.oid] > 0,
         d.kind = "Remove" => d.sz = 0,
         d.sz > 0 => \A m \in Oid : SzNow[m] > 0 => ~Crosses(d.oid, m),
         phase'[d.oid] = "resting" <=> d.sz > 0,
         phase'[d.oid] \notin {"unplaced", "armed"},
         \A o \in Oid \ {d.oid} : phase'[o] = phase[o]
  PROVE  NodeInv' /\ FilesGrow
<1> DEFINE n == Len(dlog)
           new == After(SzNow, d)
<1>1. /\ n \in Nat /\ Len(slog) \in Nat /\ Len(ss) \in Nat
      /\ dlog \in Seq(Diff) /\ slog \in Seq(Status)
      /\ nodeSz \in Seq([Oid -> Nat]) /\ nodeQueue \in Seq([Level -> Seq(Oid)])
      /\ cuts \in Seq(Cut)
      /\ Len(nodeSz) = n + 1 /\ Len(nodeQueue) = n + 1
  BY DEF NodeInv, NodeTypeOK, HistoryOK
<1>2. /\ SzNow = nodeSz[n + 1] /\ SzNow \in [Oid -> Nat]
      /\ QueueNow \in [Level -> Seq(Oid)]
      /\ d.oid \in Oid /\ d.sz \in Nat
  BY <1>1 DEF SzNow, QueueNow, Diff
<1>3. /\ new \in [Oid -> Nat]
      /\ new[d.oid] = d.sz
      /\ \A o \in Oid \ {d.oid} : new[o] = SzNow[o]
  BY <1>2 DEF After
<1>4. /\ dlog' = Append(dlog, d) /\ nodeSz' = Append(nodeSz, new)
      /\ Len(dlog') = n + 1 /\ Len(nodeSz') = n + 2 /\ Len(nodeQueue') = n + 2
      /\ \A i \in 1..n : dlog'[i] = dlog[i]
      /\ dlog'[n + 1] = d
      /\ \A i \in 1..(n + 1) : nodeSz'[i] = nodeSz[i]
      /\ nodeSz'[n + 2] = new
  BY <1>1, <1>3 DEF WriteDiff
<1>5. NodeTypeOK'
  <2>1. [QueueNow EXCEPT ![LevelOf(d.oid)] = q] \in [Level -> Seq(Oid)]
    BY <1>2
  <2>2. nodeQueue' \in Seq([Level -> Seq(Oid)])
    BY <1>1, <2>1 DEF WriteDiff
  <2>3. [d |-> Len(dlog) + 1, s |-> Len(slog) + Len(ss)] \in Cut
    BY <1>1 DEF Cut
  <2>4. slog' \in Seq(Status) /\ cuts' \in Seq(Cut)
    BY <1>1, <2>3 DEF WriteDiff
  <2>5. dlog' \in Seq(Diff) /\ nodeSz' \in Seq([Oid -> Nat])
    BY <1>1, <1>3, <1>4
  <2>6. QED
    BY <2>2, <2>4, <2>5 DEF NodeTypeOK
<1>6. HistoryOK'
  <2>1. \A i \in 1..n : nodeSz[i + 1] = After(nodeSz[i], dlog[i])
    BY DEF NodeInv, HistoryOK
  <2>2. SUFFICES ASSUME NEW i \in 1..(n + 1)
                 PROVE  nodeSz'[i + 1] = After(nodeSz[i], dlog'[i]) /\ nodeSz'[i] = nodeSz[i]
    BY <1>1, <1>4 DEF HistoryOK
  <2>3. CASE i \in 1..n
    BY <1>1, <1>4, <2>1, <2>3
  <2>4. CASE i = n + 1
    BY <1>1, <1>2, <1>4, <2>4
  <2>5. QED
    BY <1>1, <2>3, <2>4
<1>7. DiffsOK'
  <2> SUFFICES ASSUME NEW i \in 1..(n + 1)
               PROVE  /\ dlog'[i].kind = "New" =>
                           dlog'[i].sz > 0 /\ \A j \in 1..i : nodeSz'[j][dlog'[i].oid] = 0
                      /\ dlog'[i].kind = "Update" => nodeSz'[i][dlog'[i].oid] > 0
                      /\ dlog'[i].kind = "Remove" => dlog'[i].sz = 0
    BY <1>4 DEF DiffsOK
  <2>1. CASE i \in 1..n
    <3>1. /\ dlog[i].kind = "New" => dlog[i].sz > 0 /\ \A j \in 1..i : nodeSz[j][dlog[i].oid] = 0
          /\ dlog[i].kind = "Update" => nodeSz[i][dlog[i].oid] > 0
          /\ dlog[i].kind = "Remove" => dlog[i].sz = 0
      BY <2>1 DEF NodeInv, DiffsOK
    <3>2. dlog'[i] = dlog[i] /\ nodeSz'[i] = nodeSz[i] /\ \A j \in 1..i : nodeSz'[j] = nodeSz[j]
      BY <1>1, <1>4, <2>1
    <3>3. QED
      BY <3>1, <3>2
  <2>2. CASE i = n + 1
    BY <1>1, <1>2, <1>4, <2>2
  <2>3. QED
    BY <1>1, <2>1, <2>2
<1>8. Uncrossed'
  <2> SUFFICES ASSUME NEW i \in 1..(n + 2), NEW o \in Oid, NEW m \in Oid,
                      nodeSz'[i][o] > 0, nodeSz'[i][m] > 0
               PROVE  ~Crosses(o, m)
    BY <1>4 DEF Uncrossed, Crosses
  <2>1. CASE i \in 1..(n + 1)
    BY <1>1, <1>4, <2>1 DEF NodeInv, Uncrossed
  <2>2. CASE i = n + 2 /\ o # d.oid /\ m # d.oid
    <3>1. SzNow[o] > 0 /\ SzNow[m] > 0
      BY <1>3, <1>4, <2>2
    <3>2. n + 1 \in 1..Len(nodeSz)
      BY <1>1
    <3>3. QED
      BY <1>2, <3>1, <3>2 DEF NodeInv, Uncrossed
  <2>3. CASE i = n + 2 /\ o = d.oid
    <3>1. CASE m = d.oid
      BY <2>3, <3>1, NodeAssumption, OrdersAssumption DEF Crosses
    <3>2. CASE m # d.oid
      BY <1>3, <1>4, <2>3, <3>2
    <3>3. QED
      BY <3>1, <3>2
  <2>4. CASE i = n + 2 /\ o # d.oid /\ m = d.oid
    <3>1. ~Crosses(m, o)
      BY <1>3, <1>4, <2>4
    <3>2. QED
      BY <3>1, CrossesSymmetric
  <2>5. QED
    BY <1>1, <2>1, <2>2, <2>3, <2>4
<1>9. PhaseOK'
  <2> SUFFICES ASSUME NEW o \in Oid
               PROVE  /\ phase'[o] = "resting" <=> new[o] > 0
                      /\ phase'[o] \in {"unplaced", "armed"} =>
                           \A j \in 1..(n + 2) : nodeSz'[j][o] = 0
    BY <1>1, <1>4 DEF PhaseOK, SzNow
  <2>1. CASE o = d.oid
    BY <1>3, <2>1
  <2>2. CASE o # d.oid
    <3>1. /\ phase[o] = "resting" <=> SzNow[o] > 0
          /\ phase[o] \in {"unplaced", "armed"} => \A j \in 1..(n + 1) : nodeSz[j][o] = 0
      BY <1>1 DEF NodeInv, PhaseOK
    <3>2. QED
      BY <1>1, <1>2, <1>3, <1>4, <2>2, <3>1
  <2>3. QED
    BY <2>1, <2>2
<1>10. CutsOK'
  <2>1. \A c \in DOMAIN cuts : cuts[c] \in Cut /\ cuts[c].d <= n /\ cuts[c].s <= Len(slog)
    BY <1>1 DEF NodeInv, CutsOK
  <2>2. Len(slog') = Len(slog) + Len(ss)
    BY <1>1 DEF WriteDiff
  <2>3. cuts' = Append(cuts, [d |-> n + 1, s |-> Len(slog) + Len(ss)])
    BY DEF WriteDiff
  <2>4. Len(dlog') = n + 1 /\ n \in Nat /\ Len(slog) \in Nat /\ Len(ss) \in Nat
    BY <1>1, <1>4
  <2>5. PICK last : last = [d |-> n + 1, s |-> Len(slog) + Len(ss)]
    OBVIOUS
  <2>6. cuts \in Seq(Cut) /\ last.d = n + 1 /\ last.s = Len(slog) + Len(ss)
    BY <1>1, <2>5
  <2>7. ASSUME NEW c \in DOMAIN cuts' PROVE cuts'[c].d <= n + 1 /\ cuts'[c].s <= Len(slog) + Len(ss)
    <3>1. CASE c \in DOMAIN cuts
      <4>1. cuts'[c] = cuts[c]
        BY <2>3, <2>5, <2>6, <3>1
      <4>2. cuts[c].d \in Nat /\ cuts[c].s \in Nat
        BY <2>1, <3>1 DEF Cut
      <4>3. QED
        BY <2>1, <2>4, <3>1, <4>1, <4>2
    <3>2. CASE c \notin DOMAIN cuts
      <4>1. cuts'[c] = last
        BY <2>3, <2>5, <2>6, <3>2
      <4>2. QED
        BY <2>4, <2>6, <4>1
    <3>3. QED
      BY <3>1, <3>2
  <2>8. QED
    BY <2>2, <2>4, <2>7 DEF CutsOK
<1>11. FilesGrow
  BY <1>1, <1>4 DEF FilesGrow, WriteDiff
<1>12. QED
  BY <1>5, <1>6, <1>7, <1>8, <1>9, <1>10, <1>11 DEF NodeInv

\* What every node action may use of the node's current book.
LEMMA NodeNowType ==
  ASSUME NodeInv, NEW o \in Oid
  PROVE  /\ Len(nodeSz) \in Nat \ {0}
         /\ SzNow \in [Oid -> Nat]
         /\ LevelOf(o) \in Level
         /\ QueueNow[LevelOf(o)] \in Seq(Oid)
         /\ phase \in [Oid -> Phase]
<1>1. /\ nodeSz \in Seq([Oid -> Nat]) /\ nodeQueue \in Seq([Level -> Seq(Oid)])
      /\ Len(dlog) \in Nat /\ Len(nodeSz) = Len(dlog) + 1 /\ Len(nodeQueue) = Len(dlog) + 1
      /\ phase \in [Oid -> Phase]
  BY DEF NodeInv, NodeTypeOK, HistoryOK
<1>2. SzNow \in [Oid -> Nat] /\ QueueNow \in [Level -> Seq(Oid)]
  BY <1>1 DEF SzNow, QueueNow
<1>3. LevelOf(o) \in Level
  BY DEF LevelOf, Level
<1>4. QED
  BY <1>1, <1>2, <1>3

\* An order coming to rest keeps the node's invariant.
LEMMA RestKeepsNodeInv ==
  ASSUME NodeInv, NEW o \in Oid, NEW s \in Size, NEW b \in Oid \cup {NoOid}, NodeRest(o, s, b)
  PROVE  NodeInv' /\ FilesGrow
<1> DEFINE q == QueueNow[LevelOf(o)]
           at == IF PosIn(q, b) = 0 THEN Len(q) + 1 ELSE PosIn(q, b)
           d == [oid |-> o, kind |-> "New", sz |-> s, before |-> b]
           opened == <<[oid |-> o, kind |-> IF o \in Triggers THEN "triggered" ELSE "open"]>>
           ss == IF o \in Protocol THEN <<>> ELSE opened
<1>1. q \in Seq(Oid) /\ SzNow \in [Oid -> Nat] /\ phase \in [Oid -> Phase]
  BY NodeNowType
<1>2. s \in Nat /\ s > 0
  BY NodeAssumption, OrdersAssumption
<1>3. d \in Diff
  BY <1>2 DEF Diff
<1>4. ss \in Seq(Status)
  <2>1. [oid |-> o, kind |-> IF o \in Triggers THEN "triggered" ELSE "open"] \in Status
    BY DEF Status, StatusKind
  <2>2. QED
    BY <2>1
<1>5. InsertAt(q, at, o) \in Seq(Oid)
  <2>1. PosIn(q, b) \in 0..Len(q)
    BY <1>1, PosInType
  <2>2. at \in 1..(Len(q) + 1)
    BY <1>1, <2>1
  <2>3. QED
    BY <1>1, <2>2, InsertAtType
<1>6. WriteDiff(d, InsertAt(q, at, o), ss)
  BY DEF NodeRest
<1>7. phase' = [phase EXCEPT ![o] = "resting"] /\ phase' \in [Oid -> Phase]
  BY <1>1 DEF NodeRest, Phase
<1>8. \A j \in 1..Len(nodeSz) : nodeSz[j][o] = 0
  BY DEF NodeInv, PhaseOK, NodeRest
<1>9. \A m \in Oid : SzNow[m] > 0 => ~Crosses(o, m)
  BY DEF NodeRest, InBook
<1>10. d.oid = o /\ d.kind = "New" /\ d.sz = s
  OBVIOUS
<1> HIDE DEF d, ss, q, at
<1>11. QED
  BY <1>1, <1>2, <1>3, <1>4, <1>5, <1>6, <1>7, <1>8, <1>9, <1>10, DiffKeepsNodeInv

\* So does an order changing its size.
LEMMA ResizeKeepsNodeInv ==
  ASSUME NodeInv, NEW o \in Oid, NEW s \in Size, NodeResize(o, s)
  PROVE  NodeInv' /\ FilesGrow
<1> DEFINE q == QueueNow[LevelOf(o)]
           d == [oid |-> o, kind |-> "Update", sz |-> s, before |-> NoOid]
<1>1. q \in Seq(Oid) /\ SzNow \in [Oid -> Nat] /\ phase \in [Oid -> Phase]
      /\ Len(nodeSz) \in Nat \ {0}
  BY NodeNowType
<1>2. s \in Nat /\ s > 0
  BY NodeAssumption, OrdersAssumption
<1>3. d \in Diff
  BY <1>2 DEF Diff
<1>4. WriteDiff(d, q, <<>>) /\ phase' = phase /\ phase[o] = "resting"
  BY DEF NodeResize
<1>5. SzNow[o] > 0
  BY <1>4 DEF NodeInv, PhaseOK
<1>6. \A m \in Oid : SzNow[m] > 0 => ~Crosses(o, m)
  BY <1>1, <1>5 DEF NodeInv, Uncrossed, SzNow
<1>7. d.oid = o /\ d.kind = "Update" /\ d.sz = s
  OBVIOUS
<1>8. <<>> \in Seq(Status)
  OBVIOUS
<1> HIDE DEF d, q
<1>9. QED
  BY <1>1, <1>2, <1>3, <1>4, <1>5, <1>6, <1>7, <1>8, DiffKeepsNodeInv

\* So does an order leaving the book, by an Update to zero or a Remove.
LEMMA LeaveKeepsNodeInv ==
  ASSUME NodeInv, NEW o \in Oid, NEW kind \in {"Update", "Remove"}, NEW to \in {"zeroed", "gone"},
         NEW ss \in Seq(Status), NodeLeave(o, kind, to, ss),
         kind = "Update" => SzNow[o] > 0
  PROVE  NodeInv' /\ FilesGrow
<1> DEFINE q == QueueNow[LevelOf(o)]
           r == IF PosIn(q, o) = 0 THEN q ELSE DeleteAt(q, PosIn(q, o))
           d == [oid |-> o, kind |-> kind, sz |-> 0, before |-> NoOid]
<1>1. q \in Seq(Oid) /\ SzNow \in [Oid -> Nat] /\ phase \in [Oid -> Phase]
  BY NodeNowType
<1>2. d \in Diff /\ d.oid = o /\ d.kind = kind /\ d.sz = 0
  BY DEF Diff
<1>3. r \in Seq(Oid)
  BY <1>1, PosInType, DeleteAtType
<1>4. WriteDiff(d, r, ss) /\ phase' = [phase EXCEPT ![o] = to]
  BY DEF NodeLeave
<1>5. /\ phase' \in [Oid -> Phase]
      /\ phase'[o] \notin {"resting", "unplaced", "armed"}
      /\ \A p \in Oid \ {o} : phase'[p] = phase[p]
  BY <1>1, <1>4 DEF Phase
<1>6. /\ d.kind # "New"
      /\ d.kind = "Update" => SzNow[d.oid] > 0
      /\ ~(d.sz > 0)
      /\ phase'[d.oid] = "resting" <=> d.sz > 0
  BY <1>2, <1>5
<1> HIDE DEF d, r, q
<1>7. QED
  BY <1>1, <1>2, <1>3, <1>4, <1>5, <1>6, DiffKeepsNodeInv

\* Every step of the node keeps its invariant.
LEMMA NodeNextInv == NodeInv /\ NodeNext => NodeInv' /\ FilesGrow
<1> SUFFICES ASSUME NodeInv, NodeNext PROVE NodeInv' /\ FilesGrow
  OBVIOUS
<1>1. PICK o \in Oid :
         \/ \E s \in Size, b \in Oid \cup {NoOid} : NodeRest(o, s, b)
         \/ NodeArm(o)
         \/ NodeDisarm(o)
         \/ \E k \in {"open", "openIoc", "triggered"} : NodeFlash(o, k)
         \/ \E s \in Size : NodeResize(o, s)
         \/ NodeFilled(o)
         \/ NodeRemoveFilled(o)
         \/ NodeCancel(o)
  BY DEF NodeNext
<1>2. phase \in [Oid -> Phase]
  BY NodeNowType
<1>3. CASE \E s \in Size, b \in Oid \cup {NoOid} : NodeRest(o, s, b)
  BY <1>3, RestKeepsNodeInv
<1>4. CASE NodeArm(o) \/ NodeDisarm(o)
  <2>1. PICK k \in StatusKind : WriteStatuses(<<[oid |-> o, kind |-> k]>>)
    BY <1>4 DEF NodeArm, NodeDisarm, StatusKind
  <2>2. <<[oid |-> o, kind |-> k]>> \in Seq(Status)
    BY DEF Status
  <2>3. /\ phase' \in [Oid -> Phase]
        /\ \A p \in Oid : phase'[p] = "resting" <=> phase[p] = "resting"
        /\ \A p \in Oid : phase'[p] \in {"unplaced", "armed"} => phase[p] \in {"unplaced", "armed"}
    BY <1>2, <1>4 DEF NodeArm, NodeDisarm, Phase
  <2>4. QED
    BY <2>1, <2>2, <2>3, StatusesKeepNodeInv
<1>5. CASE \E k \in {"open", "openIoc", "triggered"} : NodeFlash(o, k)
  <2>1. PICK k \in {"open", "openIoc", "triggered"} : NodeFlash(o, k)
    BY <1>5
  <2>2. <<[oid |-> o, kind |-> k], [oid |-> o, kind |-> "terminal"]>> \in Seq(Status)
    <3>1. [oid |-> o, kind |-> k] \in Status /\ [oid |-> o, kind |-> "terminal"] \in Status
      BY DEF Status, StatusKind
    <3>2. QED
      BY <3>1
  <2>3. /\ phase' \in [Oid -> Phase]
        /\ \A p \in Oid : phase'[p] = "resting" <=> phase[p] = "resting"
        /\ \A p \in Oid : phase'[p] \in {"unplaced", "armed"} => phase[p] \in {"unplaced", "armed"}
    BY <1>2, <2>1 DEF NodeFlash, Phase
  <2>4. WriteStatuses(<<[oid |-> o, kind |-> k], [oid |-> o, kind |-> "terminal"]>>)
    BY <2>1 DEF NodeFlash
  <2>5. QED
    BY <2>2, <2>3, <2>4, StatusesKeepNodeInv
<1>6. CASE \E s \in Size : NodeResize(o, s)
  BY <1>6, ResizeKeepsNodeInv
<1>7. CASE NodeFilled(o) \/ NodeRemoveFilled(o) \/ NodeCancel(o)
  <2>1. Terminal(o) \in Seq(Status) /\ <<>> \in Seq(Status)
    <3>1. [oid |-> o, kind |-> "terminal"] \in Status
      BY DEF Status, StatusKind
    <3>2. QED
      BY <3>1 DEF Terminal
  <2>2. phase[o] = "resting" => SzNow[o] > 0
    BY DEF NodeInv, PhaseOK
  <2>3. CASE NodeFilled(o)
    BY <2>1, <2>2, <2>3, LeaveKeepsNodeInv DEF NodeFilled
  <2>4. CASE NodeRemoveFilled(o)
    BY <2>1, <2>4, LeaveKeepsNodeInv DEF NodeRemoveFilled
  <2>5. CASE NodeCancel(o)
    BY <2>1, <2>5, LeaveKeepsNodeInv DEF NodeCancel
  <2>6. QED
    BY <1>7, <2>3, <2>4, <2>5
<1>8. QED
  BY <1>1, <1>3, <1>4, <1>5, <1>6, <1>7

-----------------------------------------------------------------------------
(* The server.                                                             *)

\* The node's book at a point of the diff file that has been read to.
LEMMA AppliedType ==
  ASSUME NodeInv, dpos \in 0..Len(dlog)
  PROVE  /\ Applied \in [Oid -> Nat]
         /\ dpos + 1 \in 1..Len(nodeSz)
         /\ dpos \in Nat /\ Len(dlog) \in Nat
<1>1. /\ nodeSz \in Seq([Oid -> Nat]) /\ Len(dlog) \in Nat /\ Len(nodeSz) = Len(dlog) + 1
  BY DEF NodeInv, NodeTypeOK, HistoryOK
<1>2. QED
  BY <1>1 DEF Applied

\* Reading a diff moves that point by the diff; a New is of an order never seen
\* before, an Update of one that rests, a Remove leaves nothing.
LEMMA AppliedStep ==
  ASSUME NodeInv, dpos \in 0..Len(dlog), dpos < Len(dlog), dpos' = dpos + 1, UNCHANGED nodeVars
  PROVE  /\ NextDiff \in Diff
         /\ Applied' = After(Applied, NextDiff)
         /\ Applied' \in [Oid -> Nat]
         /\ Applied'[NextDiff.oid] = NextDiff.sz
         /\ \A o \in Oid \ {NextDiff.oid} : Applied'[o] = Applied[o]
         /\ NextDiff.kind = "New" => /\ NextDiff.sz > 0
                                     /\ \A j \in 1..(dpos + 1) : nodeSz[j][NextDiff.oid] = 0
                                     /\ Applied[NextDiff.oid] = 0
         /\ NextDiff.kind = "Update" => Applied[NextDiff.oid] > 0
         /\ NextDiff.kind = "Remove" => NextDiff.sz = 0
<1>1. Applied \in [Oid -> Nat] /\ dpos + 1 \in 1..Len(dlog) /\ dpos \in Nat /\ Len(dlog) \in Nat
  BY AppliedType
<1>2. NextDiff \in Diff
  BY <1>1 DEF NodeInv, NodeTypeOK, NextDiff
<1>3. Applied' = After(Applied, NextDiff)
  <2>1. nodeSz[(dpos + 1) + 1] = After(nodeSz[dpos + 1], dlog[dpos + 1])
    BY <1>1 DEF NodeInv, HistoryOK
  <2>2. nodeSz' = nodeSz
    BY DEF nodeVars
  <2>3. QED
    BY <2>1, <2>2 DEF Applied, NextDiff
<1>4. /\ Applied' \in [Oid -> Nat]
      /\ Applied'[NextDiff.oid] = NextDiff.sz
      /\ \A o \in Oid \ {NextDiff.oid} : Applied'[o] = Applied[o]
  BY <1>1, <1>2, <1>3 DEF After, Diff
<1>5. /\ NextDiff.kind = "New" => NextDiff.sz > 0 /\ \A j \in 1..(dpos + 1) : nodeSz[j][NextDiff.oid] = 0
      /\ NextDiff.kind = "Update" => nodeSz[dpos + 1][NextDiff.oid] > 0
      /\ NextDiff.kind = "Remove" => NextDiff.sz = 0
  BY <1>1 DEF NodeInv, DiffsOK, NextDiff
<1>6. QED
  BY <1>1, <1>2, <1>3, <1>4, <1>5 DEF Applied

\* An order added to a book with nothing to trade against rests with its size and
\* changes no other order.
LEMMA AddRests ==
  ASSUME BookTypeOK, NEW o \in Oid, NEW s \in Nat, s > 0, NEW b,
         Makers(o) = {}, sz[o] = 0, AddOrderBefore(o, s, b)
  PROVE  sz' = [sz EXCEPT ![o] = s] /\ queue' \in [Level -> Seq(Oid)]
<1>1. sz \in [Oid -> Nat] /\ queue \in [Level -> Seq(Oid)]
  BY DEF BookTypeOK
<1>2. LevelOf(o) \in Level
  BY DEF LevelOf, Level
<1>3. SzAfterMatch(o, s) = sz /\ Remaining(o, s) = s
  BY <1>1 DEF SzAfterMatch, Remaining
<1>4. QueueAfterMatch(o, s) \in [Level -> Seq(Oid)]
  <2> SUFFICES ASSUME NEW l \in Level
               PROVE  SubSeq(queue[l],
                        1 + Cardinality({m \in Makers(o) : LevelOf(m) = l /\ Traded(o, s, m) = sz[m]}),
                        Len(queue[l])) \in Seq(Oid)
    BY DEF QueueAfterMatch
  <2>1. Cardinality({m \in Makers(o) : LevelOf(m) = l /\ Traded(o, s, m) = sz[m]}) = 0
    <3>1. {m \in Makers(o) : LevelOf(m) = l /\ Traded(o, s, m) = sz[m]} = {}
      OBVIOUS
    <3>2. QED
      BY <3>1, FS_EmptySet
  <2>2. queue[l] \in Seq(Oid)
    BY <1>1
  <2>3. QED
    BY <2>1, <2>2
<1> DEFINE q == QueueAfterMatch(o, s)[LevelOf(o)]
           at == RestAt(q, b)
<1>5. q \in Seq(Oid)
  BY <1>2, <1>4
<1>6. at \in 1..(Len(q) + 1)
  <2>1. PosIn(q, b) \in 0..Len(q)
    BY <1>5, PosInType
  <2>2. QED
    BY <1>5, <2>1 DEF RestAt
<1>7. InsertAt(q, at, o) \in Seq(Oid)
  BY <1>5, <1>6, InsertAtType
<1>8. /\ sz' = [SzAfterMatch(o, s) EXCEPT ![o] = Remaining(o, s)]
      /\ queue' = IF Remaining(o, s) = 0 THEN QueueAfterMatch(o, s)
                  ELSE [QueueAfterMatch(o, s) EXCEPT ![LevelOf(o)] = InsertAt(q, at, o)]
  BY DEF AddOrderBefore
<1> HIDE DEF q, at
<1>9. QED
  BY <1>3, <1>4, <1>7, <1>8

\* A cancelled order leaves the book and changes no other order.
LEMMA CancelLeaves ==
  ASSUME BookTypeOK, NEW o \in Oid, CancelOrder(o)
  PROVE  sz' = [sz EXCEPT ![o] = 0] /\ queue' \in [Level -> Seq(Oid)]
<1>1. queue \in [Level -> Seq(Oid)] /\ LevelOf(o) \in Level
  BY DEF BookTypeOK, LevelOf, Level
<1>2. DeleteAt(queue[LevelOf(o)], PosIn(queue[LevelOf(o)], o)) \in Seq(Oid)
  BY <1>1, PosInType, DeleteAtType
<1>3. QED
  BY <1>1, <1>2 DEF CancelOrder

\* Nothing in a trusted book crosses an order the node has in its book.
LEMMA NothingToMatch ==
  ASSUME NodeInv, NEW i \in 1..Len(nodeSz), NEW o \in Oid, nodeSz[i][o] > 0,
         \A m \in Oid : sz[m] > 0 => nodeSz[i][m] > 0
  PROVE  Makers(o) = {}
BY DEF NodeInv, Uncrossed, Makers

-----------------------------------------------------------------------------
(* Each action of the server keeps the invariant.                          *)

StateOK == Trusted => BookTypeOK /\ \A o \in Oid : OrderOK(o)

\* The remembered zeroings are among those remembered before.
LEMMA RememberedType ==
  ASSUME zeroed \in [Oid -> Nat], NEW i \in Nat
  PROVE  /\ Remembered(i) \in [Oid -> Nat]
         /\ \A o \in Oid : Remembered(i)[o] > 0 => zeroed[o] > 0
BY DEF Remembered

\* An order untouched by a step that reads one diff, not of this order, stays right.
LEMMA OthersStayOK ==
  ASSUME IInv, Trusted, NEW p \in Oid, OrderOK(p),
         UNCHANGED nodeVars, dpos' = dpos \/ dpos' = dpos + 1,
         sz'[p] = sz[p], pending_new_diffs'[p] = pending_new_diffs[p],
         zeroed'[p] > 0 => zeroed[p] > 0,
         Applied'[p] = Applied[p]
  PROVE  OrderOK(p)'
<1>1. nodeSz' = nodeSz /\ dpos \in Nat
  BY AppliedType DEF nodeVars, IInv, ControlTypeOK
<1>2. zeroed[p] > 0 => \E j \in 1..(dpos' + 1) : nodeSz'[j][p] > 0
  <2> SUFFICES ASSUME zeroed[p] > 0 PROVE \E j \in 1..(dpos' + 1) : nodeSz[j][p] > 0
    BY <1>1
  <2>1. PICK j \in 1..(dpos + 1) : nodeSz[j][p] > 0
    BY DEF OrderOK
  <2>2. CASE dpos' = dpos
    BY <2>1, <2>2
  <2>3. CASE dpos' = dpos + 1
    <3>1. j \in 1..((dpos + 1) + 1)
      BY <1>1, <2>1
    <3>2. QED
      BY <2>1, <2>3, <3>1
  <2>4. QED
    BY <2>2, <2>3
<1>3. QED
  BY <1>2 DEF OrderOK, WaitingNew

\* apply_order_diffs_hft, a New.
LEMMA ApplyNewKeeps == IInv /\ ApplyNew => (ControlTypeOK /\ StateOK)'
<1> SUFFICES ASSUME IInv, ApplyNew PROVE (ControlTypeOK /\ StateOK)'
  OBVIOUS
<1> DEFINE o == NextDiff.oid
           s == NextDiff.sz
<1>1. /\ UNCHANGED nodeVars /\ dpos < Len(dlog) /\ dpos' = dpos + 1 /\ NextDiff.kind = "New"
      /\ UNCHANGED <<ready, spos, untriggered_orders, aged>>
      /\ zeroed' = Remembered(dpos + 1)
  BY DEF ApplyNew, ReadDiff
<1>2. NodeInv /\ ControlTypeOK /\ dpos \in 0..Len(dlog)
  BY DEF IInv, ControlTypeOK
<1>3. Applied \in [Oid -> Nat] /\ dpos \in Nat /\ Len(dlog) \in Nat
  BY <1>2, AppliedType
<1>4. /\ NextDiff \in Diff /\ Applied' \in [Oid -> Nat]
      /\ Applied'[o] = s /\ s > 0 /\ Applied[o] = 0
      /\ \A p \in Oid \ {o} : Applied'[p] = Applied[p]
      /\ \A j \in 1..(dpos + 1) : nodeSz[j][o] = 0
  BY <1>1, <1>2, AppliedStep
<1>5. o \in Oid /\ s \in Nat /\ NextDiff.before \in Oid \cup {NoOid}
  BY <1>4 DEF Diff
<1>6. zeroed' \in [Oid -> Nat] /\ \A p \in Oid : zeroed'[p] > 0 => zeroed[p] > 0
  <2>1. zeroed \in [Oid -> Nat] /\ dpos + 1 \in Nat
    BY <1>2, <1>3 DEF ControlTypeOK
  <2>2. QED
    BY <1>1, <2>1, RememberedType
<1>7. ControlTypeOK'
  <2>1. pending_order_statuses' \in [Oid -> Nat]
    BY <1>2, <1>5 DEF ApplyNew, ControlTypeOK
  <2>2. loss' = loss /\ insert_before_fallbacks' \in BOOLEAN
    BY <1>2 DEF ApplyNew, AddOrderBefore, bookVars, ControlTypeOK
  <2>3. NodeTypeOK' /\ dpos' \in 0..Len(dlog')
    BY <1>1, <1>2, <1>3 DEF ControlTypeOK, NodeTypeOK, nodeVars
  <2>4. QED
    BY <1>1, <1>2, <1>6, <2>1, <2>2, <2>3 DEF ControlTypeOK, nodeVars
<1>8. StateOK'
  <2> SUFFICES ASSUME Trusted' PROVE BookTypeOK' /\ \A p \in Oid : OrderOK(p)'
    BY DEF StateOK
  <2>1. Trusted
    BY <1>1 DEF Trusted, ApplyNew
  <2>2. BookTypeOK /\ \A p \in Oid : OrderOK(p)
    BY <2>1 DEF IInv
  <2>3. sz \in [Oid -> Nat] /\ pending_new_diffs \in [Oid -> PendingNew]
    BY <2>2 DEF BookTypeOK
  <2>4. sz[o] = 0 /\ ~WaitingNew(o) /\ ~(zeroed'[o] > 0)
    <3>1. ~(zeroed[o] > 0) /\ ~WaitingNew(o) /\ ~(sz[o] > 0)
      BY <1>3, <1>4, <1>5, <2>2 DEF OrderOK
    <3>2. QED
      BY <1>5, <1>6, <2>3, <3>1
  <2>5. CASE /\ AddOrderBefore(o, s, NextDiff.before)
             /\ UNCHANGED pending_new_diffs
    <3>1. Makers(o) = {}
      <4>1. nodeSz[dpos + 2] = Applied' /\ dpos + 2 \in 1..Len(nodeSz)
        BY <1>1, <1>2, <1>3 DEF Applied, nodeVars, NodeInv, HistoryOK
      <4>2. \A m \in Oid : sz[m] > 0 => Applied'[m] > 0
        BY <1>4, <2>2, <2>4 DEF OrderOK
      <4>3. QED
        BY <1>2, <1>4, <1>5, <4>1, <4>2, NothingToMatch
    <3>2. sz' = [sz EXCEPT ![o] = s] /\ queue' \in [Level -> Seq(Oid)]
      BY <1>4, <1>5, <2>2, <2>4, <2>5, <3>1, AddRests
    <3>3. BookTypeOK'
      BY <1>5, <2>3, <2>5, <3>2 DEF BookTypeOK
    <3>4. ASSUME NEW p \in Oid PROVE OrderOK(p)'
      <4>1. CASE p = o
        BY <1>4, <1>5, <2>3, <2>4, <2>5, <3>2, <4>1 DEF OrderOK, WaitingNew
      <4>2. CASE p # o
        <5>1. sz'[p] = sz[p] /\ pending_new_diffs'[p] = pending_new_diffs[p]
          BY <2>3, <2>5, <3>2, <4>2
        <5>2. QED
          BY <1>1, <1>4, <1>6, <2>1, <2>2, <4>2, <5>1, OthersStayOK
      <4>3. QED
        BY <4>1, <4>2
    <3>5. QED
      BY <3>3, <3>4
  <2>6. CASE /\ pending_new_diffs' =
                  [pending_new_diffs EXCEPT ![o] = [sz |-> s, before |-> NextDiff.before, at |-> dpos + 1]]
             /\ UNCHANGED bookVars
    <3>1. [sz |-> s, before |-> NextDiff.before, at |-> dpos + 1] \in PendingNew
      BY <1>3, <1>5 DEF PendingNew
    <3>2. BookTypeOK'
      BY <2>2, <2>6, <3>1 DEF BookTypeOK, bookVars
    <3>3. sz' = sz
      BY <2>6 DEF bookVars
    <3>4. ASSUME NEW p \in Oid PROVE OrderOK(p)'
      <4>1. CASE p = o
        <5>1. pending_new_diffs'[o] = [sz |-> s, before |-> NextDiff.before, at |-> dpos + 1]
          BY <1>5, <2>3, <2>6
        <5>2. QED
          BY <1>3, <1>4, <1>5, <2>4, <3>3, <4>1, <5>1 DEF OrderOK, WaitingNew
      <4>2. CASE p # o
        <5>1. pending_new_diffs'[p] = pending_new_diffs[p]
          BY <2>3, <2>6, <4>2
        <5>2. QED
          BY <1>1, <1>4, <1>6, <2>1, <2>2, <3>3, <4>2, <5>1, OthersStayOK
      <4>3. QED
        BY <4>1, <4>2
    <3>5. QED
      BY <3>2, <3>4
  <2>7. QED
    BY <2>5, <2>6 DEF ApplyNew
<1>9. QED
  BY <1>7, <1>8

\* What every diff action starts from: the diff's order and size, the node's book
\* before and after it, and the zeroings still remembered.
LEMMA DiffRead ==
  ASSUME IInv, NEW kind, ReadDiff(kind)
  PROVE  /\ UNCHANGED nodeVars /\ dpos' = dpos + 1 /\ NextDiff.kind = kind
         /\ UNCHANGED <<ready, spos, untriggered_orders, aged>>
         /\ dpos \in Nat /\ dpos' \in 0..Len(dlog)
         /\ NextDiff \in Diff /\ NextDiff.oid \in Oid /\ NextDiff.sz \in Nat
         /\ Applied \in [Oid -> Nat] /\ Applied' \in [Oid -> Nat]
         /\ Applied'[NextDiff.oid] = NextDiff.sz
         /\ \A p \in Oid \ {NextDiff.oid} : Applied'[p] = Applied[p]
         /\ kind = "Update" => Applied[NextDiff.oid] > 0
         /\ kind = "Remove" => NextDiff.sz = 0
         /\ zeroed \in [Oid -> Nat]
         /\ Remembered(dpos + 1) \in [Oid -> Nat]
         /\ \A p \in Oid : Remembered(dpos + 1)[p] > 0 => zeroed[p] > 0
<1>1. /\ UNCHANGED nodeVars /\ dpos < Len(dlog) /\ dpos' = dpos + 1 /\ NextDiff.kind = kind
      /\ UNCHANGED <<ready, spos, untriggered_orders, aged>>
  BY DEF ReadDiff
<1>2. NodeInv /\ dpos \in 0..Len(dlog) /\ zeroed \in [Oid -> Nat]
  BY DEF IInv, ControlTypeOK
<1>3. Applied \in [Oid -> Nat] /\ dpos \in Nat /\ Len(dlog) \in Nat
  BY <1>2, AppliedType
<1>4. /\ NextDiff \in Diff /\ Applied' \in [Oid -> Nat]
      /\ Applied'[NextDiff.oid] = NextDiff.sz
      /\ \A p \in Oid \ {NextDiff.oid} : Applied'[p] = Applied[p]
      /\ kind = "Update" => Applied[NextDiff.oid] > 0
      /\ kind = "Remove" => NextDiff.sz = 0
  BY <1>1, <1>2, AppliedStep
<1>5. NextDiff.oid \in Oid /\ NextDiff.sz \in Nat
  BY <1>4 DEF Diff
<1>6. dpos' \in 0..Len(dlog) /\ dpos + 1 \in Nat
  BY <1>1, <1>3
<1>7. /\ Remembered(dpos + 1) \in [Oid -> Nat]
      /\ \A p \in Oid : Remembered(dpos + 1)[p] > 0 => zeroed[p] > 0
  BY <1>2, <1>6, RememberedType
<1>8. QED
  BY <1>1, <1>2, <1>3, <1>4, <1>5, <1>6, <1>7

\* If the one order a step is about ends up right, all do.
LEMMA AllStayOK ==
  ASSUME IInv, Trusted, NEW o \in Oid, UNCHANGED nodeVars, dpos' = dpos \/ dpos' = dpos + 1,
         \A p \in Oid \ {o} : /\ sz'[p] = sz[p]
                              /\ pending_new_diffs'[p] = pending_new_diffs[p]
                              /\ zeroed'[p] > 0 => zeroed[p] > 0
                              /\ Applied'[p] = Applied[p],
         OrderOK(o)'
  PROVE  \A p \in Oid : OrderOK(p)'
<1> SUFFICES ASSUME NEW p \in Oid PROVE OrderOK(p)'
  OBVIOUS
<1>1. OrderOK(p)
  BY DEF IInv
<1>2. CASE p = o
  BY <1>2
<1>3. CASE p # o
  BY <1>1, <1>3, OthersStayOK
<1>4. QED
  BY <1>2, <1>3

\* An order that is over, at the node and here, is right.
LEMMA GoneIsOK ==
  ASSUME IInv, Trusted, NEW o \in Oid, UNCHANGED nodeVars, dpos \in Nat, dpos' = dpos + 1,
         sz'[o] = 0, ~WaitingNew(o)', Applied'[o] = 0,
         zeroed'[o] > 0 => zeroed[o] > 0 \/ Applied[o] > 0
  PROVE  OrderOK(o)'
<1>1. nodeSz' = nodeSz
  BY DEF nodeVars
<1>2. OrderOK(o)
  BY DEF IInv
<1>3. zeroed'[o] > 0 => \E j \in 1..(dpos + 1) : nodeSz[j][o] > 0
  <2>1. zeroed[o] > 0 => \E j \in 1..(dpos + 1) : nodeSz[j][o] > 0
    BY <1>2 DEF OrderOK
  <2>2. Applied[o] > 0 => \E j \in 1..(dpos + 1) : nodeSz[j][o] > 0
    BY DEF Applied
  <2>3. QED
    BY <2>1, <2>2
<1>4. \A j \in 1..(dpos + 1) : j \in 1..(dpos' + 1)
  OBVIOUS
<1>5. zeroed'[o] > 0 => \E j \in 1..(dpos' + 1) : nodeSz'[j][o] > 0
  BY <1>1, <1>3, <1>4
<1>6. QED
  BY <1>5 DEF OrderOK

\* What a New that waits becomes when a diff of its order is carried over to it.
LEMMA CarriedOver ==
  ASSUME BookTypeOK, NEW o \in Oid, NEW s \in Nat, apply_diff_to_pending_new(o, s)
  PROVE  /\ pending_new_diffs' \in [Oid -> PendingNew]
         /\ \A p \in Oid \ {o} : pending_new_diffs'[p] = pending_new_diffs[p]
         /\ s = 0 => ~WaitingNew(o)'
         /\ s > 0 => WaitingNew(o)' = WaitingNew(o)
         /\ s > 0 /\ WaitingNew(o) => /\ pending_new_diffs'[o].sz = s
                                      /\ pending_new_diffs'[o].at = pending_new_diffs[o].at
<1>1. pending_new_diffs \in [Oid -> PendingNew]
  BY DEF BookTypeOK
<1>2. NoNew \in PendingNew /\ ~(NoNew.at > 0)
  BY DEF NoNew, PendingNew
<1>3. CASE ~WaitingNew(o)
  BY <1>1, <1>3 DEF apply_diff_to_pending_new, WaitingNew
<1>4. CASE WaitingNew(o) /\ s = 0
  BY <1>1, <1>2, <1>4 DEF apply_diff_to_pending_new, WaitingNew
<1>5. CASE WaitingNew(o) /\ s > 0
  <2>1. pending_new_diffs' = [pending_new_diffs EXCEPT ![o] = [pending_new_diffs[o] EXCEPT !.sz = s]]
    BY <1>1, <1>5 DEF apply_diff_to_pending_new
  <2>2. /\ [pending_new_diffs[o] EXCEPT !.sz = s] \in PendingNew
        /\ [pending_new_diffs[o] EXCEPT !.sz = s].sz = s
        /\ [pending_new_diffs[o] EXCEPT !.sz = s].at = pending_new_diffs[o].at
    BY <1>1 DEF PendingNew
  <2>3. QED
    BY <1>1, <1>5, <2>1, <2>2 DEF WaitingNew
<1>6. QED
  BY <1>3, <1>4, <1>5

\* The control state after a diff that marks nothing.
LEMMA DiffControl ==
  ASSUME IInv, NEW kind, ReadDiff(kind), UNCHANGED pending_order_statuses,
         zeroed' \in [Oid -> Nat], insert_before_fallbacks' \in BOOLEAN, loss' \in BOOLEAN
  PROVE  ControlTypeOK'
<1>1. /\ UNCHANGED nodeVars /\ dpos' \in 0..Len(dlog)
      /\ UNCHANGED <<ready, spos, untriggered_orders, aged>>
  BY DiffRead
<1>2. ControlTypeOK
  BY DEF IInv
<1>3. QED
  BY <1>1, <1>2 DEF ControlTypeOK, NodeTypeOK, nodeVars

\* apply_order_diffs_hft, an Update.
LEMMA ApplyUpdateKeeps == IInv /\ ApplyUpdate => (ControlTypeOK /\ StateOK)'
<1> SUFFICES ASSUME IInv, ApplyUpdate PROVE (ControlTypeOK /\ StateOK)'
  OBVIOUS
<1>1. ReadDiff("Update") /\ UNCHANGED <<pending_order_statuses, loss>>
  BY DEF ApplyUpdate
<1>o. PICK o \in Oid : o = NextDiff.oid
  BY <1>1, DiffRead
<1>s. PICK s \in Nat : s = NextDiff.sz
  BY <1>1, DiffRead
<1> DEFINE R == Remembered(dpos + 1)
           Z == [R EXCEPT ![o] = IF @ > 0 THEN @ ELSE dpos + 1]
<1>2. /\ UNCHANGED nodeVars /\ dpos' = dpos + 1 /\ UNCHANGED ready
      /\ dpos \in Nat /\ o \in Oid /\ s \in Nat
      /\ Applied \in [Oid -> Nat] /\ Applied' \in [Oid -> Nat]
      /\ Applied'[o] = s /\ Applied[o] > 0
      /\ \A p \in Oid \ {o} : Applied'[p] = Applied[p]
      /\ R \in [Oid -> Nat] /\ \A p \in Oid : R[p] > 0 => zeroed[p] > 0
  BY <1>1, <1>o, <1>s, DiffRead
<1>3. Z \in [Oid -> Nat] /\ \A p \in Oid \ {o} : Z[p] > 0 => zeroed[p] > 0
  BY <1>2
<1> HIDE DEF R, Z
<1>4. zeroed' = R \/ zeroed' = Z
  BY <1>o, <1>s DEF ApplyUpdate, R, Z
<1>5. ControlTypeOK'
  <2>1. insert_before_fallbacks' = insert_before_fallbacks
    BY DEF ApplyUpdate, ModifySz, CancelOrder, bookVars
  <2>2. insert_before_fallbacks \in BOOLEAN /\ loss \in BOOLEAN
    BY DEF IInv, ControlTypeOK
  <2>3. zeroed' \in [Oid -> Nat]
    BY <1>2, <1>3, <1>4
  <2>4. QED
    BY <1>1, <2>1, <2>2, <2>3, DiffControl
<1>6. StateOK'
  <2> SUFFICES ASSUME Trusted' PROVE BookTypeOK' /\ \A p \in Oid : OrderOK(p)'
    BY DEF StateOK
  <2>1. Trusted
    BY <1>1, <1>2 DEF Trusted
  <2>2. BookTypeOK /\ OrderOK(o)
    BY <1>2, <2>1 DEF IInv
  <2>3. /\ sz \in [Oid -> Nat] /\ queue \in [Level -> Seq(Oid)]
        /\ pending_new_diffs \in [Oid -> PendingNew]
    BY <2>2 DEF BookTypeOK
  <2>4. ~(R[o] > 0)
    BY <1>2, <2>2 DEF OrderOK
  <2>5. CASE sz[o] > 0 /\ s = 0 /\ CancelOrder(o) /\ UNCHANGED pending_new_diffs
    <3>1. sz' = [sz EXCEPT ![o] = 0] /\ queue' \in [Level -> Seq(Oid)]
      BY <1>2, <2>2, <2>5, CancelLeaves
    <3>2. BookTypeOK'
      BY <2>3, <2>5, <3>1 DEF BookTypeOK
    <3>3. ~WaitingNew(o)'
      BY <2>2, <2>5 DEF OrderOK, WaitingNew
    <3>4. OrderOK(o)'
      <4>1. sz'[o] = 0
        BY <1>2, <2>3, <3>1
      <4>2. QED
        BY <1>2, <2>1, <2>5, <3>3, <4>1, GoneIsOK
    <3>5. \A p \in Oid \ {o} : sz'[p] = sz[p] /\ pending_new_diffs'[p] = pending_new_diffs[p]
      BY <2>3, <2>5, <3>1
    <3>6. \A p \in Oid \ {o} : zeroed'[p] > 0 => zeroed[p] > 0
      BY <1>2, <1>3, <1>4
    <3>7. QED
      BY <1>2, <2>1, <3>2, <3>4, <3>5, <3>6, AllStayOK
  <2>6. CASE /\ sz[o] > 0 /\ s > 0 /\ sz' = [sz EXCEPT ![o] = s]
             /\ UNCHANGED <<queue, pending_new_diffs>> /\ zeroed' = R
    <3>1. BookTypeOK'
      BY <1>2, <2>3, <2>6 DEF BookTypeOK
    <3>2. sz'[o] = s /\ \A p \in Oid \ {o} : sz'[p] = sz[p] /\ pending_new_diffs'[p] = pending_new_diffs[p]
      BY <1>2, <2>3, <2>6
    <3>3. ~WaitingNew(o)'
      BY <2>2, <2>6 DEF OrderOK, WaitingNew
    <3>4. OrderOK(o)'
      BY <1>2, <2>4, <2>6, <3>2, <3>3 DEF OrderOK
    <3>5. QED
      BY <1>2, <2>1, <2>6, <3>1, <3>2, <3>4, AllStayOK
  <2>7. CASE /\ sz[o] = 0 /\ apply_diff_to_pending_new(o, s)
             /\ UNCHANGED <<sz, queue>> /\ zeroed' = R
    <3>1. /\ pending_new_diffs' \in [Oid -> PendingNew]
          /\ \A p \in Oid \ {o} : pending_new_diffs'[p] = pending_new_diffs[p]
          /\ s = 0 => ~WaitingNew(o)'
          /\ s > 0 => WaitingNew(o)' = WaitingNew(o)
          /\ s > 0 /\ WaitingNew(o) => pending_new_diffs'[o].sz = s
      BY <1>2, <2>2, <2>7, CarriedOver
    <3>2. BookTypeOK'
      BY <2>3, <2>7, <3>1 DEF BookTypeOK
    <3>3. CASE s = 0
      <4>1. OrderOK(o)'
        BY <1>2, <2>1, <2>7, <3>1, <3>3, GoneIsOK
      <4>2. QED
        BY <1>2, <2>1, <2>7, <3>1, <3>2, <4>1, AllStayOK
    <3>4. CASE s > 0
      <4>1. WaitingNew(o)' = WaitingNew(o) /\ (WaitingNew(o) => pending_new_diffs'[o].sz = s)
        BY <3>1, <3>4
      <4>2. o \notin Protocol => WaitingNew(o)
        BY <1>2, <2>2, <2>7 DEF OrderOK
      <4>3. OrderOK(o)'
        BY <1>2, <2>4, <2>7, <3>4, <4>1, <4>2 DEF OrderOK
      <4>4. QED
        BY <1>2, <2>1, <2>7, <3>1, <3>2, <4>3, AllStayOK
    <3>5. QED
      BY <1>2, <3>3, <3>4
  <2>8. QED
    BY <1>o, <1>s, <2>5, <2>6, <2>7 DEF ApplyUpdate, ModifySz, bookVars, R
<1>7. QED
  BY <1>5, <1>6

\* apply_order_diffs_hft, a Remove.
LEMMA ApplyRemoveKeeps == IInv /\ ApplyRemove => (ControlTypeOK /\ StateOK)'
<1> SUFFICES ASSUME IInv, ApplyRemove PROVE (ControlTypeOK /\ StateOK)'
  OBVIOUS
<1>1. ReadDiff("Remove") /\ UNCHANGED <<pending_order_statuses, loss>>
  BY DEF ApplyRemove
<1>o. PICK o \in Oid : o = NextDiff.oid
  BY <1>1, DiffRead
<1> DEFINE R == Remembered(dpos + 1)
<1>2. /\ UNCHANGED nodeVars /\ dpos' = dpos + 1 /\ UNCHANGED ready
      /\ dpos \in Nat /\ o \in Oid
      /\ Applied \in [Oid -> Nat] /\ Applied'[o] = 0
      /\ \A p \in Oid \ {o} : Applied'[p] = Applied[p]
      /\ R \in [Oid -> Nat] /\ \A p \in Oid : R[p] > 0 => zeroed[p] > 0
  BY <1>1, <1>o, DiffRead
<1>3. [R EXCEPT ![o] = 0] \in [Oid -> Nat] /\ \A p \in Oid : [R EXCEPT ![o] = 0][p] > 0 => zeroed[p] > 0
  BY <1>2
<1>4. zeroed' = R \/ zeroed' = [R EXCEPT ![o] = 0]
  BY <1>o DEF ApplyRemove
<1> HIDE DEF R
<1>5. zeroed' \in [Oid -> Nat] /\ \A p \in Oid : zeroed'[p] > 0 => zeroed[p] > 0
  BY <1>2, <1>3, <1>4
<1>6. ControlTypeOK'
  <2>1. insert_before_fallbacks' = insert_before_fallbacks
    BY DEF ApplyRemove, CancelOrder, bookVars
  <2>2. insert_before_fallbacks \in BOOLEAN /\ loss \in BOOLEAN
    BY DEF IInv, ControlTypeOK
  <2>3. QED
    BY <1>1, <1>5, <2>1, <2>2, DiffControl
<1>7. StateOK'
  <2> SUFFICES ASSUME Trusted' PROVE BookTypeOK' /\ \A p \in Oid : OrderOK(p)'
    BY DEF StateOK
  <2>1. Trusted
    BY <1>1, <1>2 DEF Trusted
  <2>2. BookTypeOK /\ OrderOK(o)
    BY <1>2, <2>1 DEF IInv
  <2>3. /\ sz \in [Oid -> Nat] /\ queue \in [Level -> Seq(Oid)]
        /\ pending_new_diffs \in [Oid -> PendingNew]
    BY <2>2 DEF BookTypeOK
  <2>4. SUFFICES /\ BookTypeOK'
                 /\ sz'[o] = 0 /\ ~WaitingNew(o)'
                 /\ \A p \in Oid \ {o} : sz'[p] = sz[p] /\ pending_new_diffs'[p] = pending_new_diffs[p]
    <3>1. OrderOK(o)'
      BY <1>2, <1>5, <2>1, <2>4, GoneIsOK
    <3>2. QED
      BY <1>2, <1>5, <2>1, <2>4, <3>1, AllStayOK
  <2>5. CASE sz[o] > 0 /\ CancelOrder(o) /\ UNCHANGED pending_new_diffs
    <3>1. sz' = [sz EXCEPT ![o] = 0] /\ queue' \in [Level -> Seq(Oid)]
      BY <1>2, <2>2, <2>5, CancelLeaves
    <3>2. ~WaitingNew(o)'
      BY <2>2, <2>5 DEF OrderOK, WaitingNew
    <3>3. BookTypeOK'
      BY <2>3, <2>5, <3>1 DEF BookTypeOK
    <3>4. QED
      BY <1>2, <2>3, <2>5, <3>1, <3>2, <3>3
  <2>6. CASE sz[o] = 0 /\ R[o] > 0 /\ UNCHANGED <<sz, queue, pending_new_diffs>>
    <3>1. ~WaitingNew(o)'
      BY <1>2, <2>2, <2>6 DEF OrderOK, WaitingNew
    <3>2. QED
      BY <2>2, <2>6, <3>1 DEF BookTypeOK
  <2>7. CASE sz[o] = 0 /\ apply_diff_to_pending_new(o, 0) /\ UNCHANGED <<sz, queue>>
    <3>1. /\ pending_new_diffs' \in [Oid -> PendingNew]
          /\ \A p \in Oid \ {o} : pending_new_diffs'[p] = pending_new_diffs[p]
          /\ ~WaitingNew(o)'
      BY <1>2, <2>2, <2>7, CarriedOver
    <3>2. QED
      BY <2>3, <2>7, <3>1 DEF BookTypeOK
  <2>8. QED
    BY <1>o, <2>5, <2>6, <2>7 DEF ApplyRemove, bookVars, R
<1>8. QED
  BY <1>6, <1>7

\* A diff that cannot be converted.
LEMMA DiffFailsKeeps == IInv /\ DiffFails => (ControlTypeOK /\ StateOK)'
<1> SUFFICES ASSUME IInv, DiffFails PROVE (ControlTypeOK /\ StateOK)'
  OBVIOUS
<1>1. PICK kind \in {"New", "Update", "Remove"} : ReadDiff(kind)
  BY DEF DiffFails
<1>2. loss' = TRUE /\ zeroed' = Remembered(dpos + 1) /\ UNCHANGED bookVars
  BY DEF DiffFails
<1>3. /\ UNCHANGED nodeVars /\ dpos' \in 0..Len(dlog)
      /\ UNCHANGED <<ready, spos, untriggered_orders, aged>>
      /\ Remembered(dpos + 1) \in [Oid -> Nat]
  BY <1>1, DiffRead
<1>4. ControlTypeOK
  BY DEF IInv
<1>o. pending_order_statuses' \in [Oid -> Nat]
  <2>1. pending_order_statuses \in [Oid -> Nat]
    BY <1>4 DEF ControlTypeOK
  <2>2. \/ pending_order_statuses' = pending_order_statuses
        \/ pending_order_statuses' = [pending_order_statuses EXCEPT ![NextDiff.oid] = 0]
    BY DEF DiffFails
  <2>3. QED
    BY <2>1, <2>2
<1>5. ControlTypeOK'
  BY <1>2, <1>3, <1>4, <1>o DEF ControlTypeOK, NodeTypeOK, nodeVars, bookVars
<1>6. QED
  BY <1>2, <1>5 DEF StateOK, Trusted

\* What every status action starts from.
LEMMA StatusReadFacts ==
  ASSUME IInv, ReadStatus
  PROVE  /\ NextStatus.oid \in Oid
         /\ spos' \in 0..Len(slog)
         /\ untriggered_orders' \in SUBSET Oid
         /\ spos + 1 \in Nat
<1>1. /\ slog \in Seq(Status) /\ spos \in 0..Len(slog) /\ spos < Len(slog)
      /\ spos' = spos + 1 /\ untriggered_orders \in SUBSET Oid
  BY DEF IInv, ControlTypeOK, NodeTypeOK, ReadStatus
<1>2. NextStatus \in Status
  BY <1>1 DEF NextStatus
<1>3. NextStatus.oid \in Oid
  BY <1>2 DEF Status
<1>4. untriggered_orders' \in SUBSET Oid
  BY <1>1, <1>3 DEF ReadStatus, TrackUntriggered
<1>5. QED
  BY <1>1, <1>3, <1>4

\* The control state after a status.
LEMMA StatusControl ==
  ASSUME IInv, ReadStatus, UNCHANGED <<nodeVars, ready, dpos, zeroed, aged>>,
         pending_order_statuses' \in [Oid -> Nat],
         insert_before_fallbacks' \in BOOLEAN, loss' \in BOOLEAN
  PROVE  ControlTypeOK'
<1>1. spos' \in 0..Len(slog) /\ untriggered_orders' \in SUBSET Oid
  BY StatusReadFacts
<1>2. ControlTypeOK
  BY DEF IInv
<1>3. QED
  BY <1>1, <1>2 DEF ControlTypeOK, NodeTypeOK, nodeVars

\* Nothing about the book or the diffs changes: the orders stay right.
LEMMA StutterKeepsState ==
  ASSUME IInv, UNCHANGED <<nodeVars, ready, dpos, sz, queue, pending_new_diffs, zeroed, loss>>
  PROVE  StateOK'
BY DEF IInv, StateOK, Trusted, BookTypeOK, OrderOK, WaitingNew, Applied, nodeVars

\* apply_order_statuses_hft, the status of a New that waits.
LEMMA StatusCompletesNewKeeps == IInv /\ StatusCompletesNew => (ControlTypeOK /\ StateOK)'
<1> SUFFICES ASSUME IInv, StatusCompletesNew PROVE (ControlTypeOK /\ StateOK)'
  OBVIOUS
<1>1. ReadStatus /\ UNCHANGED <<nodeVars, ready, dpos, pending_order_statuses, zeroed, loss, aged>>
  BY DEF StatusCompletesNew
<1>o. PICK o \in Oid : o = NextStatus.oid
  BY <1>1, StatusReadFacts
<1>2. /\ WaitingNew(o)
      /\ AddOrderBefore(o, pending_new_diffs[o].sz, pending_new_diffs[o].before)
      /\ pending_new_diffs' = [pending_new_diffs EXCEPT ![o] = NoNew]
  BY <1>o DEF StatusCompletesNew
<1>3. /\ NodeInv /\ dpos \in 0..Len(dlog) /\ zeroed \in [Oid -> Nat]
      /\ pending_order_statuses \in [Oid -> Nat] /\ loss \in BOOLEAN
      /\ insert_before_fallbacks \in BOOLEAN
  BY DEF IInv, ControlTypeOK
<1>4. ControlTypeOK'
  <2>1. insert_before_fallbacks' \in BOOLEAN
    BY <1>2, <1>3 DEF AddOrderBefore, bookVars
  <2>2. QED
    BY <1>1, <1>3, <2>1, StatusControl
<1>5. StateOK'
  <2> SUFFICES ASSUME Trusted' PROVE BookTypeOK' /\ \A p \in Oid : OrderOK(p)'
    BY DEF StateOK
  <2>1. Trusted
    BY <1>1 DEF Trusted
  <2>2. BookTypeOK /\ \A p \in Oid : OrderOK(p)
    BY <2>1 DEF IInv
  <2>3. sz \in [Oid -> Nat] /\ pending_new_diffs \in [Oid -> PendingNew]
    BY <2>2 DEF BookTypeOK
  <2>4. Applied \in [Oid -> Nat] /\ dpos + 1 \in 1..Len(nodeSz)
    BY <1>3, AppliedType
  <2>5. Applied' = Applied
    BY <1>1 DEF Applied, nodeVars
  <2>6. /\ sz[o] = 0 /\ pending_new_diffs[o].sz = Applied[o] /\ Applied[o] > 0
        /\ ~(zeroed[o] > 0)
    BY <1>2, <2>2, <2>4 DEF OrderOK
  <2>7. Makers(o) = {}
    <3>1. \A m \in Oid : sz[m] > 0 => nodeSz[dpos + 1][m] > 0
      BY <2>2 DEF OrderOK, Applied
    <3>2. nodeSz[dpos + 1][o] > 0
      BY <2>6 DEF Applied
    <3>3. QED
      BY <1>3, <2>4, <3>1, <3>2, NothingToMatch
  <2>8. sz' = [sz EXCEPT ![o] = Applied[o]] /\ queue' \in [Level -> Seq(Oid)]
    <3>1. Applied[o] \in Nat
      BY <2>4
    <3>2. QED
      BY <1>2, <2>2, <2>6, <2>7, <3>1, AddRests
  <2>9. NoNew \in PendingNew /\ ~(NoNew.at > 0)
    BY DEF NoNew, PendingNew
  <2>10. BookTypeOK'
    BY <1>2, <2>3, <2>4, <2>8, <2>9 DEF BookTypeOK
  <2>11. OrderOK(o)'
    <3>1. sz'[o] = Applied'[o] /\ ~WaitingNew(o)' /\ ~(zeroed'[o] > 0)
      BY <1>1, <1>2, <2>3, <2>5, <2>6, <2>8, <2>9 DEF WaitingNew
    <3>2. QED
      BY <3>1 DEF OrderOK
  <2>12. \A p \in Oid \ {o} : /\ sz'[p] = sz[p]
                              /\ pending_new_diffs'[p] = pending_new_diffs[p]
    BY <1>2, <2>3, <2>8
  <2>13. QED
    BY <1>1, <2>1, <2>5, <2>10, <2>11, <2>12, AllStayOK
<1>6. QED
  BY <1>4, <1>5

\* apply_order_statuses_hft, a status that is put aside, ignored, or not convertible.
LEMMA OtherStatusKeeps ==
  IInv /\ (StatusWaits \/ StatusIgnored \/ StatusFails) => (ControlTypeOK /\ StateOK)'
<1> SUFFICES ASSUME IInv, StatusWaits \/ StatusIgnored \/ StatusFails
             PROVE  (ControlTypeOK /\ StateOK)'
  OBVIOUS
<1>1. ReadStatus /\ UNCHANGED <<nodeVars, ready, dpos, bookVars, zeroed, aged>>
  BY DEF StatusWaits, StatusIgnored, StatusFails
<1>2. /\ pending_order_statuses \in [Oid -> Nat] /\ loss \in BOOLEAN
      /\ insert_before_fallbacks \in BOOLEAN
  BY DEF IInv, ControlTypeOK
<1>3. NextStatus.oid \in Oid /\ spos + 1 \in Nat
  BY <1>1, StatusReadFacts
<1>4. /\ pending_order_statuses' \in [Oid -> Nat] /\ loss' \in BOOLEAN
      /\ insert_before_fallbacks' \in BOOLEAN
  BY <1>1, <1>2, <1>3 DEF StatusWaits, StatusIgnored, StatusFails, bookVars
<1>5. ControlTypeOK'
  BY <1>1, <1>4, StatusControl
<1>6. StateOK'
  <2>1. CASE StatusFails
    BY <2>1 DEF StatusFails, StateOK, Trusted
  <2>2. CASE StatusWaits \/ StatusIgnored
    <3>1. UNCHANGED <<sz, queue, pending_new_diffs, loss>>
      BY <2>2 DEF StatusWaits, StatusIgnored, bookVars
    <3>2. QED
      BY <1>1, <3>1, StutterKeepsState
  <2>3. QED
    BY <2>1, <2>2
<1>7. QED
  BY <1>5, <1>6

\* cleanup_stale_pending: what it drops without a mark is the protocol's.
LEMMA CleanupKeeps ==
  ASSUME IInv, NEW i, NEW j, cleanup_stale_pending(i, j)
  PROVE  (ControlTypeOK /\ StateOK)'
<1> DEFINE newAt == [o \in Oid |-> pending_new_diffs[o].at]
           statusAt == pending_order_statuses
           agedStatuses == {o \in Oid : WaitingStatus(o) /\ statusAt[o] <= i}
           agedNews == {o \in Oid : WaitingNew(o) /\ newAt[o] <= j}
           overStatuses == Excess({o \in Oid : WaitingStatus(o)} \ agedStatuses, MAX_PENDING_ORDERS, statusAt)
           overNews == Excess({o \in Oid : WaitingNew(o)} \ agedNews, MAX_PENDING_DIFFS, newAt)
<1>1. /\ UNCHANGED <<nodeVars, ready, dpos, spos, bookVars, zeroed, untriggered_orders>>
      /\ pending_order_statuses' =
           [o \in Oid |-> IF o \in agedStatuses \cup overStatuses THEN 0 ELSE pending_order_statuses[o]]
      /\ pending_new_diffs' =
           [o \in Oid |-> IF o \in agedNews \cup overNews THEN NoNew ELSE pending_new_diffs[o]]
      /\ loss' = (loss \/ Lost(agedNews, overStatuses, overNews))
      /\ aged' = aged \cup agedStatuses
  BY DEF cleanup_stale_pending
<1>2. agedStatuses \subseteq Oid
  OBVIOUS
<1> HIDE DEF agedStatuses, agedNews, overStatuses, overNews
<1>3. ControlTypeOK
  BY DEF IInv
<1>4. ControlTypeOK'
  <2>1. pending_order_statuses' \in [Oid -> Nat]
    BY <1>1, <1>3 DEF ControlTypeOK
  <2>2. loss' \in BOOLEAN
    BY <1>1, <1>3 DEF ControlTypeOK, Lost
  <2>3. aged' \in SUBSET Oid
    BY <1>1, <1>2, <1>3 DEF ControlTypeOK
  <2>4. QED
    BY <1>1, <1>3, <2>1, <2>2, <2>3 DEF ControlTypeOK, NodeTypeOK, nodeVars, bookVars
<1>5. StateOK'
  <2> SUFFICES ASSUME Trusted' PROVE BookTypeOK' /\ \A p \in Oid : OrderOK(p)'
    BY DEF StateOK
  <2>1. Trusted /\ agedNews \subseteq Protocol /\ overNews = {}
    BY <1>1 DEF Trusted, Lost
  <2>2. BookTypeOK /\ \A p \in Oid : OrderOK(p)
    BY <2>1 DEF IInv
  <2>3. NoNew \in PendingNew /\ ~(NoNew.at > 0)
    BY DEF NoNew, PendingNew
  <2>4. sz' = sz /\ queue' = queue /\ zeroed' = zeroed /\ Applied' = Applied /\ nodeSz' = nodeSz /\ dpos' = dpos
    BY <1>1 DEF bookVars, nodeVars, Applied
  <2>5. BookTypeOK'
    BY <1>1, <2>2, <2>3, <2>4 DEF BookTypeOK
  <2>6. ASSUME NEW p \in Oid PROVE OrderOK(p)'
    <3>1. pending_new_diffs'[p] = pending_new_diffs[p] \/ (p \in Protocol /\ pending_new_diffs'[p] = NoNew)
      BY <1>1, <2>1
    <3>2. OrderOK(p)
      BY <2>2
    <3>3. CASE pending_new_diffs'[p] = pending_new_diffs[p]
      BY <2>4, <3>2, <3>3 DEF OrderOK, WaitingNew
    <3>4. CASE p \in Protocol /\ pending_new_diffs'[p] = NoNew
      BY <2>3, <2>4, <3>2, <3>4 DEF OrderOK, WaitingNew
    <3>5. QED
      BY <3>1, <3>3, <3>4
  <2>7. QED
    BY <2>5, <2>6
<1>6. QED
  BY <1>4, <1>5

\* An install makes the book the node's at the point reading starts from.
LEMMA InstallKeeps == IInv /\ Install => (ControlTypeOK /\ StateOK)'
<1> SUFFICES ASSUME IInv, Install PROVE (ControlTypeOK /\ StateOK)'
  OBVIOUS
<1>1. PICK c \in DOMAIN cuts : InstallAt(c, c)
  BY DEF Install
<1>2. NodeInv /\ ControlTypeOK
  BY DEF IInv
<1>3. /\ dlog \in Seq(Diff) /\ slog \in Seq(Status) /\ cuts \in Seq(Cut)
      /\ nodeSz \in Seq([Oid -> Nat]) /\ nodeQueue \in Seq([Level -> Seq(Oid)])
      /\ Len(nodeSz) = Len(dlog) + 1 /\ Len(nodeQueue) = Len(dlog) + 1
      /\ cuts[c].d <= Len(dlog) /\ cuts[c].s <= Len(slog)
  BY <1>2 DEF NodeInv, NodeTypeOK, HistoryOK, CutsOK
<1>4. cuts[c] \in Cut
  BY <1>3
<1>5. cuts[c].d \in 0..Len(dlog) /\ cuts[c].s \in 0..Len(slog) /\ cuts[c].d + 1 \in 1..Len(nodeSz)
  BY <1>3, <1>4 DEF Cut
<1>6. /\ UNCHANGED nodeVars /\ dpos' = cuts[c].d /\ spos' = cuts[c].s
      /\ sz' = nodeSz[cuts[c].d + 1] /\ queue' = nodeQueue[cuts[c].d + 1]
      /\ pending_order_statuses' = [o \in Oid |-> 0]
      /\ pending_new_diffs' = [o \in Oid |-> NoNew]
      /\ zeroed' = [o \in Oid |-> 0]
      /\ ready' = TRUE /\ loss' = FALSE /\ insert_before_fallbacks' = FALSE /\ aged' = {}
  BY <1>1 DEF InstallAt, ResumeAfter
<1>7. untriggered_orders' \in SUBSET Oid
  <2>1. untriggered_orders' = untriggered_orders \/ untriggered_orders' = ArmedAfter(cuts[c].s)
    BY <1>1 DEF InstallAt, ResumeAfter
  <2>2. QED
    BY <1>2, <2>1 DEF ControlTypeOK, ArmedAfter
<1>8. ControlTypeOK'
  <2>1. NodeTypeOK'
    BY <1>2, <1>6 DEF ControlTypeOK, NodeTypeOK, nodeVars
  <2>2. dpos' \in 0..Len(dlog') /\ spos' \in 0..Len(slog')
    BY <1>5, <1>6 DEF nodeVars
  <2>3. QED
    BY <1>6, <1>7, <2>1, <2>2 DEF ControlTypeOK
<1>9. BookTypeOK'
  <2>1. NoNew \in PendingNew
    BY DEF NoNew, PendingNew
  <2>2. nodeSz[cuts[c].d + 1] \in [Oid -> Nat] /\ nodeQueue[cuts[c].d + 1] \in [Level -> Seq(Oid)]
    <3>1. PICK k : k = cuts[c].d + 1
      OBVIOUS
    <3>2. k \in 1..Len(nodeSz) /\ k \in 1..Len(nodeQueue)
      BY <1>3, <1>5, <3>1
    <3>3. nodeSz[k] \in [Oid -> Nat] /\ nodeQueue[k] \in [Level -> Seq(Oid)]
      BY <1>3, <3>2
    <3>4. QED
      BY <3>1, <3>3
  <2>3. QED
    BY <1>6, <2>1, <2>2 DEF BookTypeOK
<1>10. Applied' = sz'
  BY <1>6 DEF Applied, nodeVars
<1>11. \A p \in Oid : OrderOK(p)'
  <2>1. ~(NoNew.at > 0)
    BY DEF NoNew
  <2>2. QED
    BY <1>6, <1>10, <2>1 DEF OrderOK, WaitingNew
<1>12. QED
  BY <1>8, <1>9, <1>11 DEF StateOK

\* The node writes on: what has been read stays as it was.
LEMMA NodeStepKeeps == IInv /\ NodeStep => (NodeInv /\ ControlTypeOK /\ StateOK)'
<1> SUFFICES ASSUME IInv, NodeStep PROVE (NodeInv /\ ControlTypeOK /\ StateOK)'
  OBVIOUS
<1>1. NodeInv' /\ FilesGrow
  BY NodeNextInv DEF IInv, NodeStep
<1>2. UNCHANGED stateVars
  BY DEF NodeStep
<1>3. ControlTypeOK /\ NodeInv
  BY DEF IInv
<1>4. /\ dpos \in 0..Len(dlog) /\ spos \in 0..Len(slog)
      /\ Len(dlog) \in Nat /\ Len(slog) \in Nat /\ Len(dlog') \in Nat /\ Len(slog') \in Nat
  BY <1>1, <1>3 DEF ControlTypeOK, NodeInv, NodeTypeOK
<1>5. ControlTypeOK'
  <2>1. dpos' \in 0..Len(dlog') /\ spos' \in 0..Len(slog')
    BY <1>1, <1>2, <1>4 DEF FilesGrow, stateVars
  <2>2. QED
    BY <1>1, <1>2, <1>3, <2>1 DEF ControlTypeOK, NodeInv, stateVars
<1>6. \A j \in 1..(dpos + 1) : nodeSz'[j] = nodeSz[j]
  BY <1>1, <1>4 DEF FilesGrow
<1>7. dpos' = dpos /\ Applied' = Applied
  BY <1>2, <1>4, <1>6 DEF Applied, stateVars
<1>8. StateOK'
  <2> SUFFICES ASSUME Trusted' PROVE BookTypeOK' /\ \A p \in Oid : OrderOK(p)'
    BY DEF StateOK
  <2>1. BookTypeOK /\ \A p \in Oid : OrderOK(p)
    BY <1>2 DEF IInv, Trusted, stateVars
  <2>2. BookTypeOK'
    BY <1>2, <2>1 DEF BookTypeOK, stateVars
  <2>3. ASSUME NEW p \in Oid PROVE OrderOK(p)'
    BY <1>2, <1>6, <1>7, <2>1 DEF OrderOK, WaitingNew, stateVars
  <2>4. QED
    BY <2>2, <2>3
<1>9. QED
  BY <1>1, <1>5, <1>8

-----------------------------------------------------------------------------
(* The theorems.                                                           *)

\* The invariant holds before anything is read.
LEMMA InitIInv == Init => IInv
<1> SUFFICES ASSUME Init PROVE IInv
  OBVIOUS
<1>1. NodeInv
  BY NodeInitInv DEF Init
<1>2. ControlTypeOK
  <2>1. NodeTypeOK /\ Len(dlog) \in Nat /\ Len(slog) \in Nat
    BY <1>1 DEF NodeInv, NodeTypeOK
  <2>2. dpos \in 0..Len(dlog) /\ spos \in 0..Len(slog)
    BY <2>1 DEF Init
  <2>3. /\ pending_order_statuses \in [Oid -> Nat] /\ zeroed \in [Oid -> Nat]
        /\ ready \in BOOLEAN /\ insert_before_fallbacks \in BOOLEAN /\ loss \in BOOLEAN
        /\ untriggered_orders \in SUBSET Oid /\ aged \in SUBSET Oid
    BY DEF Init
  <2>4. QED
    BY <2>1, <2>2, <2>3 DEF ControlTypeOK
<1>3. ~Trusted
  BY DEF Init, Trusted
<1>4. QED
  BY <1>1, <1>2, <1>3 DEF IInv

\* Every step keeps the invariant.
LEMMA NextIInv == IInv /\ [Next]_vars => IInv'
<1> SUFFICES ASSUME IInv, [Next]_vars PROVE IInv'
  OBVIOUS
<1>1. SUFFICES (NodeInv /\ ControlTypeOK /\ StateOK)'
  BY DEF IInv, StateOK
<1>2. UNCHANGED nodeVars => NodeInv'
  BY DEF IInv, NodeInv, NodeTypeOK, HistoryOK, DiffsOK, Uncrossed, PhaseOK, CutsOK, SzNow, nodeVars
<1>3. CASE NodeStep
  BY <1>3, NodeStepKeeps
<1>4. CASE ApplyStatus
  <2>1. UNCHANGED nodeVars
    BY <1>4 DEF ApplyStatus, StatusCompletesNew, StatusWaits, StatusIgnored, StatusFails
  <2>2. QED
    BY <1>2, <1>4, <2>1, StatusCompletesNewKeeps, OtherStatusKeeps DEF ApplyStatus
<1>5. CASE ApplyDiff
  <2>1. UNCHANGED nodeVars
    BY <1>5 DEF ApplyDiff, ApplyNew, ApplyUpdate, ApplyRemove, DiffFails, ReadDiff
  <2>2. QED
    BY <1>2, <1>5, <2>1, ApplyNewKeeps, ApplyUpdateKeeps, ApplyRemoveKeeps, DiffFailsKeeps DEF ApplyDiff
<1>6. CASE Cleanup
  <2>1. PICK i \in 0..spos, j \in 0..dpos : cleanup_stale_pending(i, j)
    BY <1>6 DEF Cleanup
  <2>2. UNCHANGED nodeVars
    BY <2>1 DEF cleanup_stale_pending
  <2>3. QED
    BY <1>2, <2>1, <2>2, CleanupKeeps
<1>7. CASE Install
  <2>1. UNCHANGED nodeVars
    BY <1>7 DEF Install, InstallAt
  <2>2. QED
    BY <1>2, <1>7, <2>1, InstallKeeps
<1>8. CASE UNCHANGED vars
  <2>1. UNCHANGED <<nodeVars, ready, dpos, sz, queue, pending_new_diffs, zeroed, loss>>
    BY <1>8 DEF vars, stateVars
  <2>2. ControlTypeOK'
    BY <1>8 DEF IInv, ControlTypeOK, NodeTypeOK, vars, stateVars, nodeVars
  <2>3. QED
    BY <1>2, <2>1, <2>2, StutterKeepsState
<1>9. QED
  BY <1>3, <1>4, <1>5, <1>6, <1>7, <1>8 DEF Next

\* The invariant, always.
THEOREM Invariance == Spec => []IInv
BY InitIInv, NextIInv, PTL DEF Spec

\* Type correctness: the control state always, the book whenever it is trusted.
THEOREM Types == Spec => [](ControlTypeOK /\ (Trusted => BookTypeOK))
<1>1. IInv => ControlTypeOK /\ (Trusted => BookTypeOK)
  BY DEF IInv
<1>2. QED
  BY <1>1, Invariance, PTL

\* No phantoms: a trusted book has only orders the node has, with their sizes.
THEOREM NoPhantomThm == Spec => []NoPhantom
<1>1. IInv => NoPhantom
  BY DEF IInv, NoPhantom, OrderOK
<1>2. QED
  BY <1>1, Invariance, PTL

\* No silent loss: an order the node has is in the book or waits with its size,
\* or the book is marked.
THEOREM NoSilentLossThm == Spec => []NoSilentLoss
<1>1. IInv => NoSilentLoss
  BY DEF IInv, NoSilentLoss, OrderOK
<1>2. QED
  BY <1>1, Invariance, PTL

\* A Remove that stops at the zeroed set has nothing left to remove.
THEOREM ZeroedIsGoneThm == Spec => []ZeroedIsGone
<1>1. IInv => ZeroedIsGone
  <2> SUFFICES ASSUME IInv, Trusted, NEW o \in Oid, zeroed[o] > 0
               PROVE  sz[o] = 0 /\ ~WaitingNew(o)
    BY DEF ZeroedIsGone
  <2>1. OrderOK(o) /\ sz \in [Oid -> Nat]
    BY DEF IInv, BookTypeOK
  <2>2. Applied[o] = 0
    BY <2>1 DEF OrderOK
  <2>3. QED
    BY <2>1, <2>2 DEF OrderOK
<1>2. QED
  BY <1>1, Invariance, PTL

\* A step of a trusted book changes the size of a resting order only when it
\* reads a diff of that order.
OwnDiff(p) == Trusted /\ sz[p] > 0 /\ sz'[p] # sz[p] => dpos' = dpos + 1 /\ dlog[dpos'].oid = p

\* No step does otherwise: what add_order_before could match is never there.
LEMMA StepOwnDiff == IInv /\ Next => \A p \in Oid : OwnDiff(p)
<1> SUFFICES ASSUME IInv, Next, NEW p \in Oid, Trusted, sz[p] > 0, sz'[p] # sz[p]
             PROVE  dpos' = dpos + 1 /\ dlog[dpos'].oid = p
  BY DEF OwnDiff
<1>1. /\ NodeInv /\ dpos \in 0..Len(dlog)
      /\ BookTypeOK /\ sz \in [Oid -> Nat]
      /\ \A m \in Oid : OrderOK(m)
  BY DEF IInv, ControlTypeOK, BookTypeOK
<1>2. Applied \in [Oid -> Nat] /\ dpos + 1 \in 1..Len(nodeSz) /\ dpos \in Nat /\ Len(dlog) \in Nat
  BY <1>1, AppliedType
<1>3. CASE StatusCompletesNew
  <2>1. ReadStatus
    BY <1>3 DEF StatusCompletesNew
  <2>2. PICK o \in Oid : o = NextStatus.oid
    BY <2>1, StatusReadFacts
  <2>3. WaitingNew(o) /\ AddOrderBefore(o, pending_new_diffs[o].sz, pending_new_diffs[o].before)
    BY <1>3, <2>2 DEF StatusCompletesNew
  <2>4. sz[o] = 0 /\ pending_new_diffs[o].sz = Applied[o] /\ Applied[o] > 0 /\ Applied[o] \in Nat
    BY <1>1, <1>2, <2>3 DEF OrderOK
  <2>5. Makers(o) = {}
    <3>1. nodeSz[dpos + 1][o] > 0 /\ \A m \in Oid : sz[m] > 0 => nodeSz[dpos + 1][m] > 0
      BY <1>1, <2>4 DEF OrderOK, Applied
    <3>2. QED
      BY <1>1, <1>2, <3>1, NothingToMatch
  <2>6. sz' = [sz EXCEPT ![o] = Applied[o]]
    BY <1>1, <2>3, <2>4, <2>5, AddRests
  <2>7. QED
    BY <1>1, <2>4, <2>6
<1>4. CASE ApplyNew
  <2>1. ReadDiff("New")
    BY <1>4 DEF ApplyNew
  <2>2. UNCHANGED nodeVars /\ dpos < Len(dlog) /\ dpos' = dpos + 1 /\ NextDiff.kind = "New"
    BY <2>1 DEF ReadDiff
  <2>3. PICK o \in Oid : o = NextDiff.oid
    BY <2>1, DiffRead
  <2>4. /\ NextDiff \in Diff /\ Applied'[o] = NextDiff.sz /\ NextDiff.sz > 0 /\ Applied[o] = 0
        /\ \A m \in Oid \ {o} : Applied'[m] = Applied[m]
    BY <1>1, <2>2, <2>3, AppliedStep
  <2>5. sz[o] = 0 /\ NextDiff.sz \in Nat
    BY <1>1, <2>4 DEF OrderOK, Diff
  <2>6. CASE sz' = sz
    BY <2>6
  <2>7. CASE AddOrderBefore(o, NextDiff.sz, NextDiff.before)
    <3>1. nodeSz[dpos + 2] = Applied' /\ dpos + 2 \in 1..Len(nodeSz)
      BY <1>1, <1>2, <2>2 DEF Applied, nodeVars, NodeInv, HistoryOK
    <3>2. \A m \in Oid : sz[m] > 0 => Applied'[m] > 0
      BY <1>1, <2>4, <2>5 DEF OrderOK
    <3>3. Makers(o) = {}
      BY <1>1, <2>4, <3>1, <3>2, NothingToMatch
    <3>4. sz' = [sz EXCEPT ![o] = NextDiff.sz]
      BY <1>1, <2>4, <2>5, <2>7, <3>3, AddRests
    <3>5. QED
      BY <1>1, <2>5, <3>4
  <2>8. QED
    BY <1>4, <2>3, <2>6, <2>7 DEF ApplyNew, bookVars
<1>5. CASE ApplyUpdate \/ ApplyRemove
  <2>1. dpos' = dpos + 1
    BY <1>5 DEF ApplyUpdate, ApplyRemove, ReadDiff
  <2>2. CASE p = NextDiff.oid
    BY <2>1, <2>2 DEF NextDiff
  <2>3. CASE p # NextDiff.oid
    BY <1>1, <1>5, <2>3 DEF ApplyUpdate, ApplyRemove, ModifySz, CancelOrder, bookVars
  <2>4. QED
    BY <2>2, <2>3
<1>6. CASE Install
  BY <1>6 DEF Install, InstallAt, Trusted
<1>7. CASE NodeStep \/ StatusWaits \/ StatusIgnored \/ StatusFails \/ DiffFails \/ Cleanup
  BY <1>7 DEF NodeStep, StatusWaits, StatusIgnored, StatusFails, DiffFails, Cleanup,
              cleanup_stale_pending, bookVars, stateVars
<1>8. QED
  BY <1>3, <1>4, <1>5, <1>6, <1>7 DEF Next, ApplyStatus, ApplyDiff

\* Local matching is inert: a trusted book changes a resting order only by a diff
\* of its own.
THEOREM OwnDiffOnlyThm == Spec => OwnDiffOnly
<1>1. IInv /\ [Next]_vars => [\A o \in Oid : OwnDiff(o)]_vars
  BY StepOwnDiff
<1>2. Spec => [][\A o \in Oid : OwnDiff(o)]_vars
  BY <1>1, Invariance, PTL DEF Spec
<1>3. QED
  BY <1>2 DEF OwnDiffOnly, OwnDiff

-----------------------------------------------------------------------------
(* Numbers.                                                                *)

\* A set of numbers has a least one.
LEMMA LeastCut ==
  ASSUME NEW T, T \subseteq Nat, T # {}
  PROVE  \E m \in T : \A x \in T : m <= x
<1> DEFINE R == {ss \in Nat \X Nat : ss[1] < ss[2]}
<1>1. IsWellFoundedOn(R, Nat)
  BY NatLessThanWellFounded DEF OpToRel
<1>2. \E m \in T : \A y \in T : ~(<<y, m>> \in R)
  <2> HIDE DEF R
  <2>1. QED
    BY <1>1, WFMin
<1>3. PICK m \in T : \A y \in T : ~(<<y, m>> \in R)
  BY <1>2
<1>4. \A y \in T : ~(y < m)
  BY <1>3
<1>5. QED
  BY <1>4

\* Induction, with the property as a set of numbers.
LEMMA AllNumbers ==
  ASSUME NEW G, 0 \in G, \A n \in Nat : n \in G => n + 1 \in G
  PROVE  \A n \in Nat : n \in G
<1> SUFFICES ASSUME NEW k \in Nat, k \notin G PROVE FALSE
  OBVIOUS
<1>1. PICK T : T = {n \in Nat : n \notin G}
  OBVIOUS
<1>2. PICK m \in T : \A x \in T : m <= x
  BY <1>1, LeastCut
<1>3. m \in Nat /\ m \notin G /\ m # 0
  BY <1>1, <1>2
<1>4. m - 1 \in Nat /\ m - 1 \notin T
  BY <1>2, <1>3
<1>5. m - 1 \in G
  BY <1>1, <1>4
<1>6. (m - 1) + 1 \in G
  BY <1>4, <1>5
<1>7. QED
  BY <1>3, <1>6

-----------------------------------------------------------------------------
(* The sum that SizeOf folds over the subsets of S, as a function that     *)
(* satisfies a recursion: one exists for the subsets of each size.         *)

FirstOf(s) == CHOOSE x \in s : TRUE

SumRule(f, s) == IF s = {} THEN 0 ELSE sz[FirstOf(s)] + f[s \ {FirstOf(s)}]

Sums(S, f) == f = [s \in SUBSET S |-> SumRule(f, s)]

\* The subsets of S with at most n members.
UpTo(S, n) == {s \in SUBSET S : Cardinality(s) <= n}

LEMMA SizeOfIs ==
  ASSUME NEW S
  PROVE  SizeOf(S) = (CHOOSE f : Sums(S, f))[S]
BY DEF SizeOf, MapThenSumSet, MapThenFoldSet, Sums, SumRule, FirstOf

\* Taking the first member out of a subset leaves a smaller one.
LEMMA OneLess ==
  ASSUME NEW S, IsFiniteSet(S), NEW n \in Nat, NEW s \in UpTo(S, n + 1), s # {}
  PROVE  FirstOf(s) \in S /\ s \ {FirstOf(s)} \in UpTo(S, n)
<1>1. PICK x : x = FirstOf(s)
  OBVIOUS
<1>2. x \in s
  BY <1>1 DEF FirstOf
<1>3. s \in SUBSET S /\ Cardinality(s) <= n + 1
  BY DEF UpTo
<1>4. IsFiniteSet(s) /\ Cardinality(s) \in Nat
  BY <1>3, FS_Subset, FS_CardinalityType
<1>5. Cardinality(s \ {x}) = Cardinality(s) - 1
  BY <1>2, <1>4, FS_RemoveElement
<1>6. Cardinality(s \ {x}) <= n
  BY <1>3, <1>4, <1>5
<1>7. QED
  BY <1>1, <1>2, <1>3, <1>6 DEF UpTo

LEMMA UpToZero ==
  ASSUME NEW S, IsFiniteSet(S), NEW s \in UpTo(S, 0)
  PROVE  s = {}
<1>1. IsFiniteSet(s) /\ Cardinality(s) <= 0
  BY FS_Subset DEF UpTo
<1>2. Cardinality(s) \in Nat
  BY <1>1, FS_CardinalityType
<1>3. QED
  BY <1>1, <1>2, FS_EmptySet

LEMMA UpToAll ==
  ASSUME NEW S, IsFiniteSet(S)
  PROVE  UpTo(S, Cardinality(S)) = SUBSET S
BY FS_Subset DEF UpTo

\* The recursion that defines the sum has a solution.
LEMMA SumExists ==
  ASSUME NEW S, IsFiniteSet(S)
  PROVE  \E f : Sums(S, f)
<1>1. PICK G : G = {n \in Nat : \E f : f = [s \in UpTo(S, n) |-> SumRule(f, s)]}
  OBVIOUS
<1>2. 0 \in G
  <2>1. PICK f : f = [s \in UpTo(S, 0) |-> 0]
    OBVIOUS
  <2>2. \A s \in UpTo(S, 0) : SumRule(f, s) = 0
    BY UpToZero DEF SumRule
  <2>3. f = [s \in UpTo(S, 0) |-> SumRule(f, s)]
    BY <2>1, <2>2
  <2>4. QED
    BY <1>1, <2>3
<1>3. ASSUME NEW n \in Nat, n \in G PROVE n + 1 \in G
  <2>1. PICK f : f = [s \in UpTo(S, n) |-> SumRule(f, s)]
    BY <1>1, <1>3
  <2>2. PICK g : g = [s \in UpTo(S, n + 1) |-> SumRule(f, s)]
    OBVIOUS
  <2>3. \A s \in UpTo(S, n) : s \in UpTo(S, n + 1)
    <3> SUFFICES ASSUME NEW s \in UpTo(S, n) PROVE s \in UpTo(S, n + 1)
      OBVIOUS
    <3>1. s \in SUBSET S /\ Cardinality(s) <= n
      BY DEF UpTo
    <3>2. Cardinality(s) \in Nat
      BY <3>1, FS_Subset, FS_CardinalityType
    <3>3. Cardinality(s) <= n + 1
      BY <3>1, <3>2
    <3>4. QED
      BY <3>1, <3>3 DEF UpTo
  <2>4. \A s \in UpTo(S, n) : g[s] = f[s]
    BY <2>1, <2>2, <2>3
  <2>5. ASSUME NEW s \in UpTo(S, n + 1) PROVE SumRule(g, s) = SumRule(f, s)
    <3>1. CASE s = {}
      BY <3>1 DEF SumRule
    <3>2. CASE s # {}
      <4>1. s \ {FirstOf(s)} \in UpTo(S, n)
        BY <3>2, OneLess
      <4>2. QED
        BY <2>4, <4>1 DEF SumRule
    <3>3. QED
      BY <3>1, <3>2
  <2>6. g = [s \in UpTo(S, n + 1) |-> SumRule(g, s)]
    BY <2>2, <2>5
  <2>7. QED
    BY <1>1, <2>6
<1>4. Cardinality(S) \in G
  BY <1>2, <1>3, AllNumbers, FS_CardinalityType
<1>5. QED
  BY <1>1, <1>4, UpToAll DEF Sums

\* The size of a finite set of orders is a number.
LEMMA SizeOfType ==
  ASSUME NEW S, IsFiniteSet(S), \A m \in S : sz[m] \in Nat
  PROVE  SizeOf(S) \in Nat
<1>1. PICK f : f = CHOOSE g : Sums(S, g)
  OBVIOUS
<1>2. Sums(S, f)
  BY <1>1, SumExists
<1>3. PICK G : G = {n \in Nat : \A s \in UpTo(S, n) : s \in SUBSET S => f[s] \in Nat}
  OBVIOUS
<1>4. \A s \in SUBSET S : f[s] = SumRule(f, s)
  BY <1>2 DEF Sums
<1>5. 0 \in G
  <2>1. ASSUME NEW s \in UpTo(S, 0), s \in SUBSET S PROVE f[s] \in Nat
    <3>1. s = {}
      BY UpToZero
    <3>2. SumRule(f, s) = 0
      BY <3>1 DEF SumRule
    <3>3. f[s] = 0
      BY <1>4, <2>1, <3>2, Zenon
    <3>4. QED
      BY <3>3
  <2>2. QED
    BY <1>3, <2>1
<1>6. ASSUME NEW n \in Nat, n \in G PROVE n + 1 \in G
  <2>1. ASSUME NEW s \in UpTo(S, n + 1), s \in SUBSET S PROVE f[s] \in Nat
    <3>1. CASE s = {}
      <4>1. SumRule(f, s) = 0
        BY <3>1 DEF SumRule
      <4>2. f[s] = 0
        BY <1>4, <2>1, <4>1, Zenon
      <4>3. QED
        BY <4>2
    <3>2. CASE s # {}
      <4>1. FirstOf(s) \in S /\ s \ {FirstOf(s)} \in UpTo(S, n)
        BY <3>2, OneLess
      <4>2. f[s \ {FirstOf(s)}] \in Nat /\ sz[FirstOf(s)] \in Nat
        BY <1>3, <1>6, <2>1, <4>1
      <4>3. f[s] = sz[FirstOf(s)] + f[s \ {FirstOf(s)}]
        BY <1>4, <2>1, <3>2 DEF SumRule
      <4>4. QED
        BY <4>2, <4>3
    <3>3. QED
      BY <3>1, <3>2
  <2>2. QED
    BY <1>3, <2>1
<1>7. Cardinality(S) \in G
  BY <1>5, <1>6, AllNumbers, FS_CardinalityType
<1>8. S \in UpTo(S, Cardinality(S))
  BY UpToAll
<1>9. f[S] \in Nat
  BY <1>3, <1>7, <1>8
<1>10. QED
  BY <1>1, <1>9, SizeOfIs

-----------------------------------------------------------------------------
(* The types of a book, whether it can be trusted or not.                  *)

\* Finitely many orders have a size.
Few(f) == IsFiniteSet({o \in Oid : f[o] > 0})

LEMMA FewerStillFew ==
  ASSUME NEW f, NEW g, Few(f), \A o \in Oid : g[o] > 0 => f[o] > 0
  PROVE  Few(g)
<1>1. PICK S : S = {o \in Oid : f[o] > 0}
  OBVIOUS
<1>2. PICK T : T = {o \in Oid : g[o] > 0}
  OBVIOUS
<1>3. IsFiniteSet(S) /\ T \in SUBSET S
  BY <1>1, <1>2 DEF Few
<1>4. QED
  BY <1>2, <1>3, FS_Subset DEF Few

LEMMA OneMoreStillFew ==
  ASSUME NEW f, NEW g, NEW p \in Oid, Few(f), \A o \in Oid \ {p} : g[o] > 0 => f[o] > 0
  PROVE  Few(g)
<1>1. PICK S : S = {o \in Oid : f[o] > 0}
  OBVIOUS
<1>2. PICK T : T = {o \in Oid : g[o] > 0}
  OBVIOUS
<1>3. IsFiniteSet(S \cup {p})
  BY <1>1, FS_AddElement DEF Few
<1>4. T \in SUBSET (S \cup {p})
  BY <1>1, <1>2
<1>5. QED
  BY <1>2, <1>3, <1>4, FS_Subset DEF Few

\* The node starts with no orders, and a diff adds at most one.
StartsEmpty == nodeSz[1] = [o \in Oid |-> 0]

LEMMA NodeHasFew ==
  ASSUME NodeInv, StartsEmpty, NEW i \in 1..Len(nodeSz)
  PROVE  Few(nodeSz[i])
<1>1. /\ nodeSz \in Seq([Oid -> Nat]) /\ dlog \in Seq(Diff) /\ Len(dlog) \in Nat
      /\ Len(nodeSz) = Len(dlog) + 1
      /\ \A k \in 1..Len(dlog) : nodeSz[k + 1] = After(nodeSz[k], dlog[k])
  BY DEF NodeInv, NodeTypeOK, HistoryOK
<1>2. PICK G : G = {n \in Nat : n + 1 \in 1..Len(nodeSz) => Few(nodeSz[n + 1])}
  OBVIOUS
<1>3. 0 \in G
  <2>1. {o \in Oid : nodeSz[1][o] > 0} = {}
    BY DEF StartsEmpty
  <2>2. Few(nodeSz[0 + 1])
    BY <2>1, FS_EmptySet DEF Few
  <2>3. QED
    BY <1>2, <2>2
<1>4. ASSUME NEW n \in Nat, n \in G PROVE n + 1 \in G
  <2> SUFFICES ASSUME (n + 1) + 1 \in 1..Len(nodeSz) PROVE Few(nodeSz[(n + 1) + 1])
    BY <1>2
  <2>1. PICK k : k = n + 1
    OBVIOUS
  <2>2. k \in 1..Len(dlog) /\ k \in 1..Len(nodeSz) /\ (n + 1) + 1 = k + 1
    BY <1>1, <2>1
  <2>3. Few(nodeSz[k])
    BY <1>2, <1>4, <2>1, <2>2
  <2>4. nodeSz[k] \in [Oid -> Nat] /\ dlog[k] \in Diff
    BY <1>1, <2>2
  <2>5. dlog[k].oid \in Oid
    BY <2>4 DEF Diff
  <2>6. \A o \in Oid \ {dlog[k].oid} : nodeSz[k + 1][o] = nodeSz[k][o]
    BY <1>1, <2>2, <2>4 DEF After
  <2>7. QED
    BY <2>2, <2>3, <2>5, <2>6, OneMoreStillFew
<1>5. i - 1 \in Nat /\ (i - 1) + 1 = i
  BY <1>1
<1>6. i - 1 \in G
  BY <1>3, <1>4, <1>5, AllNumbers
<1>7. QED
  BY <1>2, <1>5, <1>6

\* Nothing a taker trades with gives up more than its size.
LEMMA TradedType ==
  ASSUME BookTypeOK, Few(sz), NEW o \in Oid, NEW s \in Nat, NEW m \in Oid
  PROVE  Traded(o, s, m) \in Nat /\ Traded(o, s, m) <= sz[m]
<1>1. sz \in [Oid -> Nat]
  BY DEF BookTypeOK
<1>2. PICK S : S = {n \in Makers(o) \ {m} : TradesBefore(n, m)}
  OBVIOUS
<1>3. IsFiniteSet(S)
  <2>1. S \in SUBSET {n \in Oid : sz[n] > 0}
    BY <1>2 DEF Makers
  <2>2. QED
    BY <2>1, FS_Subset DEF Few
<1>4. \A n \in S : sz[n] \in Nat
  BY <1>1, <1>2 DEF Makers
<1>5. PICK ahead : ahead = SizeOf(S)
  OBVIOUS
<1>6. ahead \in Nat
  BY <1>3, <1>4, <1>5, SizeOfType
<1>7. Traded(o, s, m) = IF ahead >= s THEN 0 ELSE IF sz[m] <= s - ahead THEN sz[m] ELSE s - ahead
  BY <1>2, <1>5 DEF Traded
<1>8. sz[m] \in Nat
  BY <1>1
<1>9. QED
  BY <1>6, <1>7, <1>8

LEMMA RemainingType ==
  ASSUME BookTypeOK, Few(sz), NEW o \in Oid, NEW s \in Nat
  PROVE  Remaining(o, s) \in Nat
<1>1. IsFiniteSet(Makers(o))
  <2>1. Makers(o) \in SUBSET {n \in Oid : sz[n] > 0}
    BY DEF Makers
  <2>2. QED
    BY <2>1, FS_Subset DEF Few
<1>2. \A n \in Makers(o) : sz[n] \in Nat
  BY DEF Makers, BookTypeOK
<1>3. PICK t : t = SizeOf(Makers(o))
  OBVIOUS
<1>4. t \in Nat
  BY <1>1, <1>2, <1>3, SizeOfType
<1>5. Remaining(o, s) = IF Makers(o) = {} THEN s ELSE IF t >= s THEN 0 ELSE s - t
  BY <1>3 DEF Remaining
<1>6. QED
  BY <1>4, <1>5

\* add_order_before, whatever the order trades with.
LEMMA AddTypes ==
  ASSUME BookTypeOK, Few(sz), NEW o \in Oid, NEW s \in Nat, NEW b, AddOrderBefore(o, s, b)
  PROVE  sz' \in [Oid -> Nat] /\ queue' \in [Level -> Seq(Oid)] /\ Few(sz')
<1>1. sz \in [Oid -> Nat] /\ queue \in [Level -> Seq(Oid)]
  BY DEF BookTypeOK
<1>2. CASE sz[o] > 0
  BY <1>1, <1>2, FewerStillFew DEF AddOrderBefore, bookVars
<1>3. CASE ~(sz[o] > 0)
  <2>1. LevelOf(o) \in Level
    BY DEF LevelOf, Level
  <2>2. \A m \in Oid : sz[m] \in Nat /\ Traded(o, s, m) \in Nat /\ Traded(o, s, m) <= sz[m]
    BY <1>1, TradedType
  <2>3. \A m \in Oid : SzAfterMatch(o, s)[m] \in Nat /\ SzAfterMatch(o, s)[m] <= sz[m]
    BY <2>2 DEF SzAfterMatch
  <2>4. SzAfterMatch(o, s) \in [Oid -> Nat]
    BY <2>3 DEF SzAfterMatch
  <2>5. Remaining(o, s) \in Nat
    BY RemainingType
  <2>6. QueueAfterMatch(o, s) \in [Level -> Seq(Oid)]
    <3> SUFFICES ASSUME NEW l \in Level
                 PROVE  SubSeq(queue[l],
                          1 + Cardinality({m \in Makers(o) : LevelOf(m) = l /\ Traded(o, s, m) = sz[m]}),
                          Len(queue[l])) \in Seq(Oid)
      BY DEF QueueAfterMatch
    <3>1. PICK S : S = {m \in Makers(o) : LevelOf(m) = l /\ Traded(o, s, m) = sz[m]}
      OBVIOUS
    <3>2. S \in SUBSET {n \in Oid : sz[n] > 0}
      BY <3>1 DEF Makers
    <3>3. Cardinality(S) \in Nat
      BY <3>2, FS_Subset, FS_CardinalityType DEF Few
    <3>4. queue[l] \in Seq(Oid)
      BY <1>1
    <3>5. SubSeq(queue[l], 1 + Cardinality(S), Len(queue[l])) \in Seq(Oid)
      BY <3>3, <3>4
    <3>6. QED
      BY <3>1, <3>5
  <2> DEFINE q == QueueAfterMatch(o, s)[LevelOf(o)]
             at == RestAt(q, b)
  <2>7. q \in Seq(Oid)
    BY <2>1, <2>6
  <2>8. at \in 1..(Len(q) + 1)
    <3>1. PosIn(q, b) \in 0..Len(q)
      BY <2>7, PosInType
    <3>2. QED
      BY <2>7, <3>1 DEF RestAt
  <2>9. InsertAt(q, at, o) \in Seq(Oid)
    BY <2>7, <2>8, InsertAtType
  <2>10. /\ sz' = [SzAfterMatch(o, s) EXCEPT ![o] = Remaining(o, s)]
         /\ queue' = IF Remaining(o, s) = 0 THEN QueueAfterMatch(o, s)
                     ELSE [QueueAfterMatch(o, s) EXCEPT ![LevelOf(o)] = InsertAt(q, at, o)]
    BY <1>3 DEF AddOrderBefore
  <2> HIDE DEF q, at
  <2>11. sz' \in [Oid -> Nat] /\ queue' \in [Level -> Seq(Oid)]
    BY <2>4, <2>5, <2>6, <2>9, <2>10
  <2>12. \A m \in Oid \ {o} : sz'[m] > 0 => sz[m] > 0
    <3> SUFFICES ASSUME NEW m \in Oid \ {o}, sz'[m] > 0 PROVE sz[m] > 0
      OBVIOUS
    <3>1. sz'[m] = SzAfterMatch(o, s)[m]
      BY <2>4, <2>10
    <3>2. QED
      BY <2>2, <2>3, <3>1
  <2>13. QED
    BY <2>11, <2>12, OneMoreStillFew
<1>4. QED
  BY <1>2, <1>3

\* cancel_order and modify_sz.
LEMMA ModifyTypes ==
  ASSUME BookTypeOK, Few(sz), NEW o \in Oid, NEW s \in Nat, sz[o] > 0, ModifySz(o, s) \/ CancelOrder(o)
  PROVE  sz' \in [Oid -> Nat] /\ queue' \in [Level -> Seq(Oid)] /\ Few(sz')
<1>1. sz \in [Oid -> Nat] /\ queue \in [Level -> Seq(Oid)]
  BY DEF BookTypeOK
<1>2. CASE CancelOrder(o)
  <2>1. sz' = [sz EXCEPT ![o] = 0] /\ queue' \in [Level -> Seq(Oid)]
    BY <1>2, CancelLeaves
  <2>2. \A m \in Oid : sz'[m] > 0 => sz[m] > 0
    BY <1>1, <2>1
  <2>3. QED
    BY <1>1, <2>1, <2>2, FewerStillFew
<1>3. CASE s > 0 /\ sz' = [sz EXCEPT ![o] = s] /\ queue' = queue
  <2>1. \A m \in Oid : sz'[m] > 0 => sz[m] > 0
    BY <1>1, <1>3
  <2>2. QED
    BY <1>1, <1>3, <2>1, FewerStillFew
<1>4. QED
  BY <1>2, <1>3 DEF ModifySz

\* The stored state of any book is typed and finite.
StoredOK == BookTypeOK /\ Few(sz)

\* apply_order_diffs_hft.
LEMMA DiffStored ==
  ASSUME IInv, StoredOK, ApplyDiff
  PROVE  StoredOK'
<1>1. BookTypeOK /\ Few(sz) /\ NodeInv
  BY DEF StoredOK, IInv
<1>2. /\ sz \in [Oid -> Nat] /\ queue \in [Level -> Seq(Oid)]
      /\ pending_new_diffs \in [Oid -> PendingNew]
  BY <1>1 DEF BookTypeOK
<1>3. PICK kind : ReadDiff(kind)
  BY DEF ApplyDiff, ApplyNew, ApplyUpdate, ApplyRemove, DiffFails
<1>4. /\ dpos \in 0..Len(dlog) /\ dpos < Len(dlog) /\ dpos' = dpos + 1 /\ UNCHANGED nodeVars
  BY <1>3 DEF IInv, ControlTypeOK, ReadDiff
<1>5. NextDiff \in Diff /\ dpos \in Nat
  BY <1>1, <1>4, AppliedStep, AppliedType
<1>6. PICK o : o = NextDiff.oid
  OBVIOUS
<1>7. PICK s : s = NextDiff.sz
  OBVIOUS
<1>8. o \in Oid /\ s \in Nat /\ NextDiff.before \in Oid \cup {NoOid}
  BY <1>5, <1>6, <1>7 DEF Diff
<1>9. UNCHANGED <<sz, queue>> => Few(sz)'
  BY <1>1 DEF Few
<1>10. CASE ApplyNew
  <2>1. CASE AddOrderBefore(o, s, NextDiff.before) /\ UNCHANGED pending_new_diffs
    <3>1. sz' \in [Oid -> Nat] /\ queue' \in [Level -> Seq(Oid)] /\ Few(sz')
      BY <1>1, <1>8, <2>1, AddTypes
    <3>2. QED
      BY <1>2, <2>1, <3>1 DEF StoredOK, BookTypeOK, Few
  <2>2. CASE /\ pending_new_diffs' =
                  [pending_new_diffs EXCEPT ![o] = [sz |-> s, before |-> NextDiff.before, at |-> dpos + 1]]
             /\ UNCHANGED <<sz, queue>>
    <3>1. [sz |-> s, before |-> NextDiff.before, at |-> dpos + 1] \in PendingNew
      BY <1>5, <1>8 DEF PendingNew
    <3>2. pending_new_diffs' \in [Oid -> PendingNew]
      BY <1>2, <2>2, <3>1
    <3>3. QED
      BY <1>2, <1>9, <2>2, <3>2 DEF StoredOK, BookTypeOK
  <2>3. QED
    BY <1>6, <1>7, <1>10, <2>1, <2>2 DEF ApplyNew, bookVars
<1>11. CASE ApplyUpdate \/ ApplyRemove
  <2>1. CASE sz[o] > 0 /\ (ModifySz(o, s) \/ CancelOrder(o)) /\ UNCHANGED pending_new_diffs
    <3>1. sz' \in [Oid -> Nat] /\ queue' \in [Level -> Seq(Oid)] /\ Few(sz')
      BY <1>1, <1>8, <2>1, ModifyTypes
    <3>2. QED
      BY <1>2, <2>1, <3>1 DEF StoredOK, BookTypeOK, Few
  <2>2. CASE /\ UNCHANGED <<sz, queue>>
             /\ \/ UNCHANGED pending_new_diffs
                \/ apply_diff_to_pending_new(o, s)
                \/ apply_diff_to_pending_new(o, 0)
    <3>1. pending_new_diffs' \in [Oid -> PendingNew]
      BY <1>1, <1>2, <1>8, <2>2, CarriedOver
    <3>2. QED
      BY <1>2, <1>9, <2>2, <3>1 DEF StoredOK, BookTypeOK
  <2>3. QED
    BY <1>6, <1>7, <1>11, <2>1, <2>2 DEF ApplyUpdate, ApplyRemove, bookVars
<1>12. CASE DiffFails
  BY <1>2, <1>9, <1>12 DEF DiffFails, bookVars, StoredOK, BookTypeOK
<1>13. QED
  BY <1>10, <1>11, <1>12 DEF ApplyDiff

\* apply_order_statuses_hft.
LEMMA StatusStored ==
  ASSUME IInv, StoredOK, ApplyStatus
  PROVE  StoredOK'
<1>1. BookTypeOK /\ Few(sz)
  BY DEF StoredOK
<1>2. /\ sz \in [Oid -> Nat] /\ queue \in [Level -> Seq(Oid)]
      /\ pending_new_diffs \in [Oid -> PendingNew]
  BY <1>1 DEF BookTypeOK
<1>3. PICK o : o = NextStatus.oid
  OBVIOUS
<1>4. o \in Oid
  BY <1>3, StatusReadFacts DEF ApplyStatus, StatusCompletesNew, StatusWaits, StatusIgnored, StatusFails
<1>5. NoNew \in PendingNew
  BY DEF NoNew, PendingNew
<1>6. pending_new_diffs' \in [Oid -> PendingNew]
  <2>1. \/ UNCHANGED pending_new_diffs
        \/ pending_new_diffs' = [pending_new_diffs EXCEPT ![o] = NoNew]
    BY <1>3 DEF ApplyStatus, StatusCompletesNew, StatusWaits, StatusIgnored, StatusFails
  <2>2. QED
    BY <1>2, <1>5, <2>1
<1>7. sz' \in [Oid -> Nat] /\ queue' \in [Level -> Seq(Oid)] /\ Few(sz)'
  <2>1. CASE StatusCompletesNew
    <3>1. PICK n : n = pending_new_diffs[o]
      OBVIOUS
    <3>2. n.sz \in Nat
      BY <1>2, <1>4, <3>1 DEF PendingNew
    <3>3. AddOrderBefore(o, n.sz, n.before)
      BY <1>3, <2>1, <3>1 DEF StatusCompletesNew
    <3>4. sz' \in [Oid -> Nat] /\ queue' \in [Level -> Seq(Oid)] /\ Few(sz')
      BY <1>1, <1>4, <3>2, <3>3, AddTypes
    <3>5. QED
      BY <3>4 DEF Few
  <2>2. CASE StatusWaits \/ StatusIgnored \/ StatusFails
    BY <1>1, <1>2, <2>2 DEF StatusWaits, StatusIgnored, StatusFails, bookVars, Few
  <2>3. QED
    BY <2>1, <2>2 DEF ApplyStatus
<1>8. QED
  BY <1>6, <1>7 DEF StoredOK, BookTypeOK

\* cleanup_stale_pending.
LEMMA CleanupStored ==
  ASSUME IInv, StoredOK, Cleanup
  PROVE  StoredOK'
<1>1. PICK i \in 0..spos, j \in 0..dpos : cleanup_stale_pending(i, j)
  BY DEF Cleanup
<1>2. BookTypeOK /\ Few(sz)
  BY DEF StoredOK
<1>3. pending_new_diffs' \in [Oid -> PendingNew]
  <2>1. NoNew \in PendingNew
    BY DEF NoNew, PendingNew
  <2>2. PICK S : pending_new_diffs' = [o \in Oid |-> IF o \in S THEN NoNew ELSE pending_new_diffs[o]]
    BY <1>1 DEF cleanup_stale_pending
  <2>3. QED
    BY <1>2, <2>1, <2>2 DEF BookTypeOK
<1>4. UNCHANGED bookVars
  BY <1>1 DEF cleanup_stale_pending
<1>5. QED
  BY <1>2, <1>3, <1>4 DEF StoredOK, BookTypeOK, Few, bookVars

\* from_snapshot.
LEMMA InstallStored ==
  ASSUME IInv, StartsEmpty, NEW c \in DOMAIN cuts, NEW d \in DOMAIN cuts, InstallAt(c, d)
  PROVE  StoredOK'
<1>1. NodeInv
  BY DEF IInv
<1>2. /\ dlog \in Seq(Diff) /\ cuts \in Seq(Cut)
      /\ nodeSz \in Seq([Oid -> Nat]) /\ nodeQueue \in Seq([Level -> Seq(Oid)])
      /\ Len(nodeSz) = Len(dlog) + 1 /\ Len(nodeQueue) = Len(dlog) + 1
      /\ cuts[d].d <= Len(dlog)
  BY <1>1 DEF NodeInv, NodeTypeOK, HistoryOK, CutsOK
<1>3. cuts[d] \in Cut
  BY <1>2
<1>4. PICK k : k = cuts[d].d + 1
  OBVIOUS
<1>5. k \in 1..Len(nodeSz) /\ k \in 1..Len(nodeQueue)
  BY <1>2, <1>3, <1>4 DEF Cut
<1>6. nodeSz[k] \in [Oid -> Nat] /\ nodeQueue[k] \in [Level -> Seq(Oid)] /\ Few(nodeSz[k])
  BY <1>1, <1>2, <1>5, NodeHasFew
<1>7. sz' = nodeSz[k] /\ queue' = nodeQueue[k] /\ pending_new_diffs' = [o \in Oid |-> NoNew]
  BY <1>4 DEF InstallAt
<1>8. NoNew \in PendingNew
  BY DEF NoNew, PendingNew
<1>9. QED
  BY <1>6, <1>7, <1>8 DEF StoredOK, BookTypeOK, Few

LEMMA NextStored ==
  ASSUME IInv, StartsEmpty /\ StoredOK, [Next]_vars
  PROVE  (StartsEmpty /\ StoredOK)'
<1>1. UNCHANGED nodeVars => StartsEmpty'
  BY DEF StartsEmpty, nodeVars
<1>2. UNCHANGED <<sz, queue, pending_new_diffs>> => StoredOK'
  BY DEF StoredOK, BookTypeOK, Few
<1>3. CASE NodeStep
  <2>1. NodeInv /\ FilesGrow
    BY <1>3, NodeNextInv DEF IInv, NodeStep
  <2>2. nodeSz'[1] = nodeSz[1]
    <3>1. Len(dlog) \in Nat
      BY <2>1 DEF NodeInv, NodeTypeOK
    <3>2. 1 \in 1..(Len(dlog) + 1)
      BY <3>1
    <3>3. QED
      BY <2>1, <3>2 DEF FilesGrow
  <2>3. QED
    BY <1>2, <1>3, <2>2 DEF StartsEmpty, NodeStep, stateVars
<1>4. CASE ApplyStatus
  <2>1. UNCHANGED nodeVars
    BY <1>4 DEF ApplyStatus, StatusCompletesNew, StatusWaits, StatusIgnored, StatusFails
  <2>2. QED
    BY <1>1, <1>4, <2>1, StatusStored
<1>5. CASE ApplyDiff
  <2>1. UNCHANGED nodeVars
    BY <1>5 DEF ApplyDiff, ApplyNew, ApplyUpdate, ApplyRemove, DiffFails, ReadDiff
  <2>2. QED
    BY <1>1, <1>5, <2>1, DiffStored
<1>6. CASE Cleanup
  <2>1. UNCHANGED nodeVars
    BY <1>6 DEF Cleanup, cleanup_stale_pending
  <2>2. QED
    BY <1>1, <1>6, <2>1, CleanupStored
<1>7. CASE Install
  <2>1. UNCHANGED nodeVars
    BY <1>7 DEF Install, InstallAt
  <2>2. QED
    BY <1>1, <1>7, <2>1, InstallStored DEF Install
<1>8. CASE UNCHANGED vars
  BY <1>1, <1>2, <1>8 DEF vars, stateVars
<1>9. QED
  BY <1>3, <1>4, <1>5, <1>6, <1>7, <1>8 DEF Next

LEMMA InitStored == Init => StartsEmpty /\ StoredOK
<1> SUFFICES ASSUME Init PROVE StartsEmpty /\ StoredOK
  OBVIOUS
<1>1. StartsEmpty
  BY DEF Init, NodeInit, StartsEmpty
<1>2. NoNew \in PendingNew
  BY DEF NoNew, PendingNew
<1>3. sz = [o \in Oid |-> 0] /\ queue = [l \in Level |-> <<>>] /\ pending_new_diffs = [o \in Oid |-> NoNew]
  BY DEF Init
<1>4. BookTypeOK
  BY <1>2, <1>3 DEF BookTypeOK
<1>5. {o \in Oid : sz[o] > 0} = {}
  BY <1>3
<1>6. QED
  BY <1>1, <1>4, <1>5, FS_EmptySet DEF StoredOK, Few

\* Type correctness of every state, a book that lost events and trades with its own
\* orders included: no maker gives up more than its size (match_order).
THEOREM TypeOKThm == Spec => []TypeOK
<1>1. IInv /\ (StartsEmpty /\ StoredOK) /\ [Next]_vars => (StartsEmpty /\ StoredOK)'
  BY NextStored
<1>2. IInv /\ StartsEmpty /\ StoredOK => TypeOK
  BY DEF IInv, StoredOK, TypeOK
<1>3. QED
  BY <1>1, <1>2, InitStored, Invariance, PTL DEF Spec

-----------------------------------------------------------------------------
(* Queues in which no order stands twice.                                  *)

OnQueue(q) == {q[i] : i \in DOMAIN q}

OnceEach(q) == \A i, j \in DOMAIN q : q[i] = q[j] => i = j

\* Where an order of a queue is.
LEMMA PosInIs ==
  ASSUME NEW q \in Seq(Oid), NEW o
  PROVE  /\ o \in OnQueue(q) => PosIn(q, o) \in 1..Len(q) /\ q[PosIn(q, o)] = o
         /\ o \notin OnQueue(q) => PosIn(q, o) = 0
<1>1. CASE \E i \in DOMAIN q : q[i] = o
  <2>1. (CHOOSE k \in DOMAIN q : q[k] = o) \in DOMAIN q /\ q[CHOOSE k \in DOMAIN q : q[k] = o] = o
    BY <1>1
  <2>2. PosIn(q, o) = CHOOSE k \in DOMAIN q : q[k] = o
    BY <1>1 DEF PosIn
  <2>3. QED
    BY <1>1, <2>1, <2>2 DEF OnQueue
<1>2. CASE ~ \E i \in DOMAIN q : q[i] = o
  BY <1>2 DEF PosIn, OnQueue
<1>3. QED
  BY <1>1, <1>2

\* Of two orders of a queue one stands before the other, and not the other way.
LEMMA QueueIsOrder ==
  ASSUME NEW q \in Seq(Oid), OnceEach(q), NEW x \in OnQueue(q), NEW y \in OnQueue(q)
  PROVE  /\ x # y => StandsBefore(q, x, y) \/ StandsBefore(q, y, x)
         /\ ~(StandsBefore(q, x, y) /\ StandsBefore(q, y, x))
         /\ ~StandsBefore(q, x, x)
<1>1. PICK i \in DOMAIN q : q[i] = x
  BY DEF OnQueue
<1>2. PICK j \in DOMAIN q : q[j] = y
  BY DEF OnQueue
<1>3. i \in Nat /\ j \in Nat
  OBVIOUS
<1>4. x # y => StandsBefore(q, x, y) \/ StandsBefore(q, y, x)
  BY <1>1, <1>2, <1>3 DEF StandsBefore
<1>5. \A a, b \in DOMAIN q : (q[a] = x => a = i) /\ (q[b] = y => b = j)
  BY <1>1, <1>2 DEF OnceEach
<1>6. StandsBefore(q, x, y) => i < j
  BY <1>5 DEF StandsBefore
<1>7. StandsBefore(q, y, x) => j < i
  BY <1>5 DEF StandsBefore
<1>8. ~StandsBefore(q, x, x)
  BY <1>5 DEF StandsBefore
<1>9. QED
  BY <1>3, <1>4, <1>6, <1>7, <1>8

\* Two queues one behind the other, place by place.
LEMMA JoinIs ==
  ASSUME NEW f \in Seq(Oid), NEW g \in Seq(Oid)
  PROVE  /\ f \o g \in Seq(Oid)
         /\ Len(f \o g) = Len(f) + Len(g)
         /\ \A k \in 1..Len(f) : (f \o g)[k] = f[k]
         /\ \A k \in 1..Len(g) : (f \o g)[Len(f) + k] = g[k]
OBVIOUS

\* The queue with an order put in at one place, place by place.
LEMMA InsertAtIs ==
  ASSUME NEW q \in Seq(Oid), NEW o \in Oid, NEW at \in 1..(Len(q) + 1)
  PROVE  /\ InsertAt(q, at, o) \in Seq(Oid)
         /\ Len(InsertAt(q, at, o)) = Len(q) + 1
         /\ InsertAt(q, at, o)[at] = o
         /\ \A k \in 1..(at - 1) : InsertAt(q, at, o)[k] = q[k]
         /\ \A k \in at..Len(q) : InsertAt(q, at, o)[k + 1] = q[k]
<1>1. Len(q) \in Nat /\ at \in Nat
  OBVIOUS
<1>2. PICK f : f = SubSeq(q, 1, at - 1)
  OBVIOUS
<1>3. PICK g : g = SubSeq(q, at, Len(q))
  OBVIOUS
<1>4. /\ f \in Seq(Oid) /\ Len(f) = at - 1
      /\ \A k \in 1..(at - 1) : f[k] = q[k]
  BY <1>1, <1>2
<1>5. /\ g \in Seq(Oid) /\ Len(g) = (Len(q) + 1) - at
      /\ \A k \in 1..((Len(q) + 1) - at) : g[k] = q[(at + k) - 1]
  BY <1>1, <1>3
<1>6. PICK u : u = <<o>>
  OBVIOUS
<1>7. u \in Seq(Oid) /\ Len(u) = 1 /\ u[1] = o
  BY <1>6
<1>8. PICK h : h = f \o u
  OBVIOUS
<1>9. /\ h \in Seq(Oid) /\ Len(h) = at /\ h[at] = o
      /\ \A k \in 1..(at - 1) : h[k] = q[k]
  <2>1. /\ f \o u \in Seq(Oid)
        /\ Len(f \o u) = Len(f) + Len(u)
        /\ \A k \in 1..Len(f) : (f \o u)[k] = f[k]
        /\ \A k \in 1..Len(u) : (f \o u)[Len(f) + k] = u[k]
    <3>1. f \in Seq(Oid) /\ u \in Seq(Oid)
      BY <1>4, <1>7
    <3>2. QED
      BY <3>1, JoinIs
  <2>2. h \in Seq(Oid) /\ Len(h) = Len(f) + 1 /\ h[Len(f) + 1] = o /\ \A k \in 1..Len(f) : h[k] = f[k]
    <3>1. 1 \in 1..Len(u)
      BY <1>7
    <3>2. QED
      BY <1>7, <1>8, <2>1, <3>1
  <2>3. Len(f) + 1 = at
    BY <1>1, <1>4
  <2>4. QED
    BY <1>4, <2>2, <2>3
<1>11. PICK r : r = h \o g
  OBVIOUS
<1>12. /\ r \in Seq(Oid) /\ Len(r) = Len(q) + 1
       /\ \A k \in 1..at : r[k] = h[k]
       /\ \A k \in 1..Len(g) : r[at + k] = g[k]
  <2>1. /\ h \o g \in Seq(Oid)
        /\ Len(h \o g) = Len(h) + Len(g)
        /\ \A k \in 1..Len(h) : (h \o g)[k] = h[k]
        /\ \A k \in 1..Len(g) : (h \o g)[Len(h) + k] = g[k]
    <3>1. h \in Seq(Oid) /\ g \in Seq(Oid)
      BY <1>5, <1>9
    <3>2. QED
      BY <3>1, JoinIs
  <2>2. at + Len(g) = Len(q) + 1
    BY <1>1, <1>5
  <2>3. QED
    BY <1>9, <1>11, <2>1, <2>2
<1>14. ASSUME NEW k \in at..Len(q) PROVE r[k + 1] = q[k]
  <2>1. PICK m : m = (k + 1) - at
    OBVIOUS
  <2>2. m \in 1..Len(g) /\ at + m = k + 1 /\ (at + m) - 1 = k
    BY <1>1, <1>5, <2>1
  <2>3. r[at + m] = g[m] /\ g[m] = q[(at + m) - 1]
    BY <1>5, <1>12, <2>2
  <2>4. QED
    BY <2>2, <2>3
<1>15. InsertAt(q, at, o) = r
  <2>1. InsertAt(q, at, o) = f \o <<o>> \o g
    BY <1>2, <1>3 DEF InsertAt
  <2>2. QED
    BY <1>6, <1>8, <1>11, <2>1
<1>16. \A k \in 1..(at - 1) : k \in 1..at
  BY <1>1
<1>17. at \in 1..at
  BY <1>1
<1>18. QED
  BY <1>9, <1>12, <1>14, <1>15, <1>16, <1>17

\* Putting an order in disturbs no other.
LEMMA InsertKeepsOrder ==
  ASSUME NEW q \in Seq(Oid), NEW o \in Oid, NEW at \in 1..(Len(q) + 1),
         OnceEach(q), o \notin OnQueue(q)
  PROVE  /\ OnQueue(InsertAt(q, at, o)) = OnQueue(q) \cup {o}
         /\ OnceEach(InsertAt(q, at, o))
         /\ \A x, y \in OnQueue(q) : StandsBefore(InsertAt(q, at, o), x, y) <=> StandsBefore(q, x, y)
         /\ \A x \in OnQueue(q) : StandsBefore(InsertAt(q, at, o), x, o)
                                     <=> \E k \in 1..(at - 1) : k \in DOMAIN q /\ q[k] = x
<1>1. PICK r : r = InsertAt(q, at, o)
  OBVIOUS
<1>2. /\ r \in Seq(Oid) /\ Len(r) = Len(q) + 1 /\ r[at] = o
      /\ \A k \in 1..(at - 1) : r[k] = q[k]
      /\ \A k \in at..Len(q) : r[k + 1] = q[k]
  <2> HIDE <1>1
  <2>1. InsertAt(q, at, o) = r
    BY <1>1
  <2>2. /\ InsertAt(q, at, o) \in Seq(Oid)
        /\ Len(InsertAt(q, at, o)) = Len(q) + 1
        /\ InsertAt(q, at, o)[at] = o
        /\ \A k \in 1..(at - 1) : InsertAt(q, at, o)[k] = q[k]
        /\ \A k \in at..Len(q) : InsertAt(q, at, o)[k + 1] = q[k]
    BY InsertAtIs, Zenon
  <2>3. QED
    BY <2>1, <2>2, Zenon
<1>3. Len(q) \in Nat /\ at \in Nat /\ DOMAIN q = 1..Len(q) /\ DOMAIN r = 1..(Len(q) + 1)
  BY <1>2
<1> DEFINE To(k) == IF k < at THEN k ELSE k + 1
<1>4. \A k \in DOMAIN q : To(k) \in DOMAIN r /\ r[To(k)] = q[k] /\ To(k) # at
  BY <1>2, <1>3
<1>5. \A k, m \in DOMAIN q : k < m <=> To(k) < To(m)
  BY <1>3
<1>6. \A n \in DOMAIN r : n # at => \E k \in DOMAIN q : n = To(k)
  <2> SUFFICES ASSUME NEW n \in DOMAIN r, n # at PROVE \E k \in DOMAIN q : n = To(k)
    OBVIOUS
  <2>1. CASE n < at
    BY <1>3, <2>1
  <2>2. CASE n > at
    <3>1. n - 1 \in DOMAIN q /\ To(n - 1) = n
      BY <1>3, <2>2
    <3>2. QED
      BY <3>1
  <2>3. QED
    BY <1>3, <2>1, <2>2
<1>6a. at \in DOMAIN r
  BY <1>3
<1>6b. \A k \in DOMAIN q : To(k) < at <=> k < at
  BY <1>3
<1> HIDE DEF To
<1>7. OnQueue(r) = OnQueue(q) \cup {o}
  BY <1>2, <1>4, <1>6, <1>6a DEF OnQueue
<1>8. OnceEach(r)
  <2> SUFFICES ASSUME NEW n \in DOMAIN r, NEW m \in DOMAIN r, r[n] = r[m] PROVE n = m
    BY DEF OnceEach
  <2>1. \A k \in DOMAIN q : r[To(k)] # o
    BY <1>4 DEF OnQueue
  <2>2. CASE n # at /\ m # at
    BY <1>4, <1>6, <2>2 DEF OnceEach
  <2>3. QED
    BY <1>2, <1>6, <2>1, <2>2
<1>9. \A x, y \in OnQueue(q) : StandsBefore(r, x, y) <=> StandsBefore(q, x, y)
  <2> SUFFICES ASSUME NEW x \in OnQueue(q), NEW y \in OnQueue(q)
               PROVE  StandsBefore(r, x, y) <=> StandsBefore(q, x, y)
    OBVIOUS
  <2>1. ASSUME StandsBefore(q, x, y) PROVE StandsBefore(r, x, y)
    BY <1>4, <1>5, <2>1 DEF StandsBefore
  <2>2. ASSUME StandsBefore(r, x, y) PROVE StandsBefore(q, x, y)
    <3>1. PICK n \in DOMAIN r, m \in DOMAIN r : n < m /\ r[n] = x /\ r[m] = y
      BY <2>2 DEF StandsBefore
    <3>2. n # at /\ m # at
      BY <1>2, <3>1
    <3>3. PICK k \in DOMAIN q : n = To(k)
      BY <1>6, <3>2
    <3>4. PICK i \in DOMAIN q : m = To(i)
      BY <1>6, <3>2
    <3>5. QED
      BY <1>4, <1>5, <3>1, <3>3, <3>4 DEF StandsBefore
  <2>3. QED
    BY <2>1, <2>2
<1>10. ASSUME NEW x \in OnQueue(q)
       PROVE  StandsBefore(r, x, o) <=> \E k \in 1..(at - 1) : k \in DOMAIN q /\ q[k] = x
  <2>1. ASSUME NEW k \in 1..(at - 1), k \in DOMAIN q, q[k] = x PROVE StandsBefore(r, x, o)
    BY <1>2, <1>3, <1>4, <1>6a, <1>6b, <2>1 DEF StandsBefore
  <2>2. ASSUME StandsBefore(r, x, o) PROVE \E k \in 1..(at - 1) : k \in DOMAIN q /\ q[k] = x
    <3>1. PICK n \in DOMAIN r, m \in DOMAIN r : n < m /\ r[n] = x /\ r[m] = o
      BY <2>2 DEF StandsBefore
    <3>2. m = at
      BY <1>2, <1>6a, <1>8, <3>1 DEF OnceEach
    <3>3. PICK k \in DOMAIN q : n = To(k)
      BY <1>3, <1>6, <3>1, <3>2
    <3>4. k < at /\ q[k] = x
      BY <1>4, <1>6b, <3>1, <3>2, <3>3
    <3>5. QED
      BY <1>3, <3>4
  <2>3. QED
    BY <2>1, <2>2
<1>11. QED
  BY <1>1, <1>7, <1>8, <1>9, <1>10

\* Taking an order out disturbs no other.
LEMMA DeleteKeepsOrder ==
  ASSUME NEW q \in Seq(Oid), NEW at \in 1..Len(q), OnceEach(q)
  PROVE  /\ DeleteAt(q, at) \in Seq(Oid)
         /\ OnQueue(DeleteAt(q, at)) = OnQueue(q) \ {q[at]}
         /\ OnceEach(DeleteAt(q, at))
         /\ \A x, y \in OnQueue(q) \ {q[at]} :
              StandsBefore(DeleteAt(q, at), x, y) <=> StandsBefore(q, x, y)
<1>1. Len(q) \in Nat /\ at \in Nat
  OBVIOUS
<1>2. PICK f : f = SubSeq(q, 1, at - 1)
  OBVIOUS
<1>3. PICK g : g = SubSeq(q, at + 1, Len(q))
  OBVIOUS
<1>4. /\ f \in Seq(Oid) /\ Len(f) = at - 1
      /\ \A k \in 1..(at - 1) : f[k] = q[k]
  BY <1>1, <1>2
<1>5. /\ g \in Seq(Oid) /\ Len(g) = Len(q) - at
      /\ \A k \in 1..(Len(q) - at) : g[k] = q[at + k]
  BY <1>1, <1>3
<1>6. PICK r : r = f \o g
  OBVIOUS
<1>7. /\ r \in Seq(Oid) /\ Len(r) = Len(q) - 1
      /\ \A k \in 1..(at - 1) : r[k] = q[k]
      /\ \A k \in 1..Len(g) : r[(at - 1) + k] = g[k]
  <2>1. /\ f \o g \in Seq(Oid)
        /\ Len(f \o g) = Len(f) + Len(g)
        /\ \A k \in 1..Len(f) : (f \o g)[k] = f[k]
        /\ \A k \in 1..Len(g) : (f \o g)[Len(f) + k] = g[k]
    <3>1. f \in Seq(Oid) /\ g \in Seq(Oid)
      BY <1>4, <1>5
    <3>2. QED
      BY <3>1, JoinIs
  <2>2. Len(f) + Len(g) = Len(q) - 1
    BY <1>1, <1>4, <1>5
  <2>3. QED
    BY <1>4, <1>6, <2>1, <2>2
<1>8. ASSUME NEW k \in at..(Len(q) - 1) PROVE r[k] = q[k + 1]
  <2>1. PICK m : m = (k + 1) - at
    OBVIOUS
  <2>2. m \in 1..Len(g) /\ (at - 1) + m = k /\ at + m = k + 1 /\ m \in 1..(Len(q) - at)
    BY <1>1, <1>5, <2>1
  <2>3. r[(at - 1) + m] = g[m] /\ g[m] = q[at + m]
    BY <1>5, <1>7, <2>2
  <2>4. QED
    BY <2>2, <2>3
<1>9. DeleteAt(q, at) = r
  BY <1>2, <1>3, <1>6 DEF DeleteAt
<1>10. DOMAIN q = 1..Len(q) /\ DOMAIN r = 1..(Len(q) - 1)
  BY <1>7
<1> DEFINE From(k) == IF k < at THEN k ELSE k + 1
<1>11. \A k \in DOMAIN r : From(k) \in DOMAIN q /\ From(k) # at /\ q[From(k)] = r[k]
  BY <1>1, <1>7, <1>8, <1>10
<1>12. \A k, m \in DOMAIN r : k < m <=> From(k) < From(m)
  BY <1>1, <1>10
<1>13. \A k, m \in DOMAIN r : From(k) = From(m) => k = m
  BY <1>1, <1>10
<1>14. \A n \in DOMAIN q : n # at => \E k \in DOMAIN r : n = From(k)
  <2> SUFFICES ASSUME NEW n \in DOMAIN q, n # at PROVE \E k \in DOMAIN r : n = From(k)
    OBVIOUS
  <2>1. CASE n < at
    <3>1. n \in DOMAIN r /\ From(n) = n
      BY <1>1, <1>10, <2>1
    <3>2. QED
      BY <3>1
  <2>2. CASE n > at
    <3>1. n - 1 \in DOMAIN r /\ From(n - 1) = n
      BY <1>1, <1>10, <2>2
    <3>2. QED
      BY <3>1
  <2>3. QED
    BY <1>1, <1>10, <2>1, <2>2
<1>15. at \in DOMAIN q
  BY <1>10
<1> HIDE DEF From
<1>16. OnQueue(r) = OnQueue(q) \ {q[at]}
  BY <1>11, <1>14, <1>15 DEF OnQueue, OnceEach
<1>17. OnceEach(r)
  <2> SUFFICES ASSUME NEW k \in DOMAIN r, NEW m \in DOMAIN r, r[k] = r[m] PROVE k = m
    BY DEF OnceEach
  <2>1. From(k) = From(m)
    BY <1>11 DEF OnceEach
  <2>2. QED
    BY <1>13, <2>1
<1>18. ASSUME NEW x \in OnQueue(q) \ {q[at]}, NEW y \in OnQueue(q) \ {q[at]}
       PROVE  StandsBefore(r, x, y) <=> StandsBefore(q, x, y)
  <2>1. ASSUME StandsBefore(r, x, y) PROVE StandsBefore(q, x, y)
    BY <1>11, <1>12, <2>1 DEF StandsBefore
  <2>2. ASSUME StandsBefore(q, x, y) PROVE StandsBefore(r, x, y)
    <3>1. PICK n \in DOMAIN q, m \in DOMAIN q : n < m /\ q[n] = x /\ q[m] = y
      BY <2>2 DEF StandsBefore
    <3>2. n # at /\ m # at
      BY <3>1
    <3>3. PICK k \in DOMAIN r : n = From(k)
      BY <1>14, <3>2
    <3>4. PICK i \in DOMAIN r : m = From(i)
      BY <1>14, <3>2
    <3>5. r[k] = x /\ r[i] = y /\ k < i
      BY <1>11, <1>12, <3>1, <3>3, <3>4
    <3>6. QED
      BY <3>5 DEF StandsBefore
  <2>3. QED
    BY <2>1, <2>2
<1>19. QED
  BY <1>7, <1>9, <1>16, <1>17, <1>18

\* An order put in front of its anchor stands behind exactly what the anchor stands
\* behind; without its anchor, behind all.
LEMMA SpliceIs ==
  ASSUME NEW q \in Seq(Oid), OnceEach(q), NEW o \in Oid, o \notin OnQueue(q), NEW b
  PROVE  /\ InsertAt(q, RestAt(q, b), o) \in Seq(Oid)
         /\ OnQueue(InsertAt(q, RestAt(q, b), o)) = OnQueue(q) \cup {o}
         /\ OnceEach(InsertAt(q, RestAt(q, b), o))
         /\ \A x, y \in OnQueue(q) :
              StandsBefore(InsertAt(q, RestAt(q, b), o), x, y) <=> StandsBefore(q, x, y)
         /\ \A x \in OnQueue(q) :
              StandsBefore(InsertAt(q, RestAt(q, b), o), x, o)
                 <=> (b \in OnQueue(q) => StandsBefore(q, x, b))
<1>1. PICK at : at = RestAt(q, b)
  OBVIOUS
<1>2. /\ b \in OnQueue(q) => at \in 1..Len(q) /\ q[at] = b
      /\ b \notin OnQueue(q) => at = Len(q) + 1
  BY <1>1, PosInIs DEF RestAt
<1>3. at \in 1..(Len(q) + 1) /\ Len(q) \in Nat
  BY <1>2
<1>4. PICK r : r = InsertAt(q, at, o)
  OBVIOUS
<1>5. /\ r \in Seq(Oid)
      /\ OnQueue(r) = OnQueue(q) \cup {o}
      /\ OnceEach(r)
      /\ \A x, y \in OnQueue(q) : StandsBefore(r, x, y) <=> StandsBefore(q, x, y)
      /\ \A x \in OnQueue(q) : StandsBefore(r, x, o)
                                  <=> \E k \in 1..(at - 1) : k \in DOMAIN q /\ q[k] = x
  BY <1>3, <1>4, InsertAtIs, InsertKeepsOrder
<1>6. ASSUME NEW x \in OnQueue(q)
      PROVE  (\E k \in 1..(at - 1) : k \in DOMAIN q /\ q[k] = x)
                <=> (b \in OnQueue(q) => StandsBefore(q, x, b))
  <2>1. PICK n \in DOMAIN q : q[n] = x
    BY DEF OnQueue
  <2>2. \A k \in DOMAIN q : q[k] = x => k = n
    BY <2>1 DEF OnceEach
  <2>3. CASE b \in OnQueue(q)
    <3>1. at \in DOMAIN q /\ q[at] = b
      BY <1>2, <2>3
    <3>2. \A k \in DOMAIN q : q[k] = b => k = at
      BY <3>1 DEF OnceEach
    <3>3. StandsBefore(q, x, b) <=> n < at
      BY <2>1, <2>2, <3>1, <3>2 DEF StandsBefore
    <3>4. n < at <=> n \in 1..(at - 1)
      BY <1>3
    <3>5. QED
      BY <2>1, <2>2, <2>3, <3>3, <3>4
  <2>4. CASE b \notin OnQueue(q)
    <3>1. n \in 1..(at - 1)
      BY <1>2, <1>3, <2>4
    <3>2. QED
      BY <2>1, <2>4, <3>1
  <2>5. QED
    BY <2>3, <2>4
<1>7. InsertAt(q, RestAt(q, b), o) = r
  BY <1>1, <1>4
<1>8. QED
  BY <1>5, <1>6, <1>7

-----------------------------------------------------------------------------
(* What a block adds to the two files.                                     *)

NewAt(o, i) == dlog[i].oid = o /\ dlog[i].kind = "New"
OpenedAt(o, k) == slog[k].oid = o /\ slog[k].kind \in {"open", "triggered"}

\* The queue of d's level after diff d.
QueueAfter(q, d) ==
  IF d.kind = "New" THEN InsertAt(q, RestAt(q, d.before), d.oid)
  ELSE IF d.sz = 0 /\ PosIn(q, d.oid) # 0 THEN DeleteAt(q, PosIn(q, d.oid))
  ELSE q

WritesDiff(d, ss) == WriteDiff(d, QueueAfter(QueueNow[LevelOf(d.oid)], d), ss)

NoneOpened(ss) == \A k \in DOMAIN ss : ss[k].kind \notin {"open", "triggered"}

\* Order o comes to rest ...
Comes(o, ss) ==
  /\ phase[o] = IF o \in Triggers THEN "armed" ELSE "unplaced"
  /\ phase'[o] = "resting"
  /\ \E d \in Diff : d.oid = o /\ d.kind = "New" /\ WritesDiff(d, ss)
  /\ IF o \in Protocol THEN ss = <<>> ELSE Len(ss) = 1 /\ ss[1].kind \in {"open", "triggered"}

\* ... has statuses without ever resting ...
Passes(o, ss) ==
  /\ phase[o] \in {"unplaced", "armed"}
  /\ phase'[o] \in {"armed", "gone"}
  /\ WriteStatuses(ss)
  /\ o \in Protocol \/ phase'[o] = "armed" => NoneOpened(ss)

\* ... or is filled, resized or cancelled.
Changes(o, ss) ==
  /\ phase[o] \in {"resting", "zeroed"}
  /\ phase'[o] \in {"resting", "zeroed", "gone"}
  /\ \E d \in Diff : d.oid = o /\ d.kind # "New" /\ WritesDiff(d, ss)
  /\ o \in Protocol => ss = <<>>
  /\ NoneOpened(ss)
  /\ phase[o] = "zeroed" => phase'[o] = "gone" /\ ss = <<>>

Block(o, ss) ==
  /\ ss \in Seq(Status)
  /\ \A k \in DOMAIN ss : ss[k].oid = o
  /\ phase \in [Oid -> Phase]
  /\ phase' \in [Oid -> Phase]
  /\ \A p \in Oid \ {o} : phase'[p] = phase[p]
  /\ Comes(o, ss) \/ Passes(o, ss) \/ Changes(o, ss)

\* Every block of the node is of one order and one of the three.
LEMMA NodeStepIsBlock ==
  ASSUME NodeInv, NodeNext
  PROVE  \E o \in Oid : \E ss : Block(o, ss)
<1>1. PICK o \in Oid :
         \/ \E s \in Size, b \in Oid \cup {NoOid} : NodeRest(o, s, b)
         \/ NodeArm(o)
         \/ NodeDisarm(o)
         \/ \E k \in {"open", "openIoc", "triggered"} : NodeFlash(o, k)
         \/ \E s \in Size : NodeResize(o, s)
         \/ NodeFilled(o)
         \/ NodeRemoveFilled(o)
         \/ NodeCancel(o)
  BY DEF NodeNext
<1>2. phase \in [Oid -> Phase]
  BY NodeNowType
<1> SUFFICES \E ss : Block(o, ss)
  OBVIOUS
<1>3. CASE \E s \in Size, b \in Oid \cup {NoOid} : NodeRest(o, s, b)
  <2>1. PICK s \in Size, b \in Oid \cup {NoOid} : NodeRest(o, s, b)
    BY <1>3
  <2>2. PICK d : d = [oid |-> o, kind |-> "New", sz |-> s, before |-> b]
    OBVIOUS
  <2>3. d \in Diff /\ d.oid = o /\ d.kind = "New" /\ d.before = b
    BY <2>2, OrdersAssumption DEF Diff
  <2>4. PICK e : e = [oid |-> o, kind |-> IF o \in Triggers THEN "triggered" ELSE "open"]
    OBVIOUS
  <2>5. e \in Status /\ e.oid = o /\ e.kind \in {"open", "triggered"}
    BY <2>4 DEF Status, StatusKind
  <2>6. PICK ss : ss = IF o \in Protocol THEN <<>> ELSE <<e>>
    OBVIOUS
  <2>7. /\ ss \in Seq(Status) /\ \A k \in DOMAIN ss : ss[k].oid = o
        /\ IF o \in Protocol THEN ss = <<>> ELSE Len(ss) = 1 /\ ss[1].kind \in {"open", "triggered"}
    BY <2>5, <2>6
  <2>8. WritesDiff(d, ss)
    <3>1. WriteDiff(d, InsertAt(QueueNow[LevelOf(o)], RestAt(QueueNow[LevelOf(o)], b), o), ss)
      BY <2>1, <2>2, <2>4, <2>6 DEF NodeRest, RestAt
    <3>2. QED
      BY <2>3, <3>1 DEF WritesDiff, QueueAfter
  <2>9. /\ phase[o] = IF o \in Triggers THEN "armed" ELSE "unplaced"
        /\ phase' = [phase EXCEPT ![o] = "resting"]
    BY <2>1 DEF NodeRest
  <2>10. phase' \in [Oid -> Phase] /\ phase'[o] = "resting" /\ \A p \in Oid \ {o} : phase'[p] = phase[p]
    BY <1>2, <2>9 DEF Phase
  <2>11. Comes(o, ss)
    BY <2>3, <2>7, <2>8, <2>9, <2>10 DEF Comes
  <2>12. QED
    BY <1>2, <2>7, <2>10, <2>11 DEF Block
<1>4. CASE NodeArm(o)
  <2>1. PICK e : e = [oid |-> o, kind |-> "openTrigger"]
    OBVIOUS
  <2>2. e \in Status /\ e.oid = o /\ e.kind = "openTrigger"
    BY <2>1 DEF Status, StatusKind
  <2>3. PICK ss : ss = <<e>>
    OBVIOUS
  <2>4. ss \in Seq(Status) /\ (\A k \in DOMAIN ss : ss[k].oid = o) /\ NoneOpened(ss)
    BY <2>2, <2>3 DEF NoneOpened
  <2>5. WriteStatuses(ss) /\ phase[o] = "unplaced" /\ phase' = [phase EXCEPT ![o] = "armed"]
    BY <1>4, <2>1, <2>3 DEF NodeArm
  <2>6. phase' \in [Oid -> Phase] /\ phase'[o] = "armed" /\ \A p \in Oid \ {o} : phase'[p] = phase[p]
    BY <1>2, <2>5 DEF Phase
  <2>7. Passes(o, ss)
    BY <2>4, <2>5, <2>6 DEF Passes
  <2>8. QED
    BY <1>2, <2>4, <2>6, <2>7 DEF Block
<1>5. CASE NodeDisarm(o)
  <2>1. PICK e : e = [oid |-> o, kind |-> "terminal"]
    OBVIOUS
  <2>2. e \in Status /\ e.oid = o /\ e.kind = "terminal"
    BY <2>1 DEF Status, StatusKind
  <2>3. PICK ss : ss = <<e>>
    OBVIOUS
  <2>4. ss \in Seq(Status) /\ (\A k \in DOMAIN ss : ss[k].oid = o) /\ NoneOpened(ss)
    BY <2>2, <2>3 DEF NoneOpened
  <2>5. WriteStatuses(ss) /\ phase[o] = "armed" /\ phase' = [phase EXCEPT ![o] = "gone"]
    BY <1>5, <2>1, <2>3 DEF NodeDisarm
  <2>6. phase' \in [Oid -> Phase] /\ phase'[o] = "gone" /\ \A p \in Oid \ {o} : phase'[p] = phase[p]
    BY <1>2, <2>5 DEF Phase
  <2>7. Passes(o, ss)
    BY <2>4, <2>5, <2>6 DEF Passes
  <2>8. QED
    BY <1>2, <2>4, <2>6, <2>7 DEF Block
<1>6. CASE \E k \in {"open", "openIoc", "triggered"} : NodeFlash(o, k)
  <2>1. PICK k \in {"open", "openIoc", "triggered"} : NodeFlash(o, k)
    BY <1>6
  <2>2. PICK e : e = [oid |-> o, kind |-> k]
    OBVIOUS
  <2>3. PICK t : t = [oid |-> o, kind |-> "terminal"]
    OBVIOUS
  <2>4. e \in Status /\ e.oid = o /\ t \in Status /\ t.oid = o
    BY <2>2, <2>3 DEF Status, StatusKind
  <2>5. PICK ss : ss = <<e, t>>
    OBVIOUS
  <2>6. ss \in Seq(Status) /\ \A n \in DOMAIN ss : ss[n].oid = o
    BY <2>4, <2>5
  <2>7. /\ WriteStatuses(ss) /\ phase[o] \in {"unplaced", "armed"}
        /\ phase' = [phase EXCEPT ![o] = "gone"] /\ o \notin Protocol
    BY <2>1, <2>2, <2>3, <2>5 DEF NodeFlash
  <2>8. phase' \in [Oid -> Phase] /\ phase'[o] = "gone" /\ \A p \in Oid \ {o} : phase'[p] = phase[p]
    BY <1>2, <2>7 DEF Phase
  <2>9. Passes(o, ss)
    BY <2>7, <2>8 DEF Passes
  <2>10. QED
    BY <1>2, <2>6, <2>8, <2>9 DEF Block
<1>7. CASE \E s \in Size : NodeResize(o, s)
  <2>1. PICK s \in Size : NodeResize(o, s)
    BY <1>7
  <2>2. PICK d : d = [oid |-> o, kind |-> "Update", sz |-> s, before |-> NoOid]
    OBVIOUS
  <2>3. d \in Diff /\ d.oid = o /\ d.kind = "Update" /\ d.sz # 0
    BY <2>2, OrdersAssumption DEF Diff
  <2>4. PICK ss : ss = <<>>
    OBVIOUS
  <2>5. ss \in Seq(Status) /\ (\A n \in DOMAIN ss : ss[n].oid = o) /\ NoneOpened(ss)
    BY <2>4 DEF NoneOpened
  <2>6. WriteDiff(d, QueueNow[LevelOf(o)], ss) /\ phase[o] = "resting" /\ phase' = phase
    BY <2>1, <2>2, <2>4 DEF NodeResize
  <2>7. WritesDiff(d, ss)
    BY <2>3, <2>6 DEF WritesDiff, QueueAfter
  <2>8. Changes(o, ss)
    BY <2>3, <2>4, <2>5, <2>6, <2>7 DEF Changes
  <2>9. QED
    BY <1>2, <2>5, <2>6, <2>8 DEF Block
<1>8. ASSUME NEW kind \in {"Update", "Remove"}, NEW to \in {"zeroed", "gone"}, NEW ss,
             phase[o] \in {"resting", "zeroed"}, NodeLeave(o, kind, to, ss),
             ss = <<>> \/ ss = Terminal(o),
             phase[o] = "zeroed" => to = "gone" /\ ss = <<>>
      PROVE  Block(o, ss)
  <2>1. PICK d : d = [oid |-> o, kind |-> kind, sz |-> 0, before |-> NoOid]
    OBVIOUS
  <2>2. d \in Diff /\ d.oid = o /\ d.kind = kind /\ d.sz = 0 /\ d.kind # "New"
    BY <2>1 DEF Diff
  <2>3. PICK t : t = [oid |-> o, kind |-> "terminal"]
    OBVIOUS
  <2>4. t \in Status /\ t.oid = o /\ t.kind = "terminal"
    BY <2>3 DEF Status, StatusKind
  <2>5. ss = <<>> \/ (o \notin Protocol /\ ss = <<t>>)
    BY <1>8, <2>3 DEF Terminal
  <2>6. ss \in Seq(Status) /\ (\A n \in DOMAIN ss : ss[n].oid = o) /\ NoneOpened(ss)
    <3>1. CASE ss = <<>>
      BY <3>1 DEF NoneOpened
    <3>2. CASE ss = <<t>>
      <4>1. ss \in Seq(Status) /\ DOMAIN ss = {1} /\ ss[1] = t
        BY <2>4, <3>2
      <4>2. QED
        BY <2>4, <4>1 DEF NoneOpened
    <3>3. QED
      BY <2>5, <3>1, <3>2
  <2>7. WritesDiff(d, ss)
    <3>1. PICK q : q = QueueNow[LevelOf(o)]
      OBVIOUS
    <3>2. WriteDiff(d, IF PosIn(q, o) = 0 THEN q ELSE DeleteAt(q, PosIn(q, o)), ss)
      BY <1>8, <2>1, <3>1 DEF NodeLeave
    <3>3. QueueAfter(q, d) = IF PosIn(q, o) = 0 THEN q ELSE DeleteAt(q, PosIn(q, o))
      BY <2>2 DEF QueueAfter
    <3>4. QED
      BY <2>2, <3>1, <3>2, <3>3 DEF WritesDiff
  <2>8. phase' = [phase EXCEPT ![o] = to]
    BY <1>8 DEF NodeLeave
  <2>9. phase' \in [Oid -> Phase] /\ phase'[o] = to /\ \A p \in Oid \ {o} : phase'[p] = phase[p]
    BY <1>2, <2>8 DEF Phase
  <2>10. Changes(o, ss)
    BY <1>8, <2>2, <2>5, <2>6, <2>7, <2>9 DEF Changes
  <2>11. QED
    BY <1>2, <2>6, <2>9, <2>10 DEF Block
<1>9. CASE NodeFilled(o)
  BY <1>8, <1>9 DEF NodeFilled
<1>10. CASE NodeRemoveFilled(o)
  BY <1>8, <1>10 DEF NodeRemoveFilled
<1>11. CASE NodeCancel(o)
  BY <1>8, <1>11 DEF NodeCancel
<1>12. QED
  BY <1>1, <1>3, <1>4, <1>5, <1>6, <1>7, <1>9, <1>10, <1>11

-----------------------------------------------------------------------------
(* What the two files say of each other.                                   *)

\* Before an order comes to rest no status says it is open, and of an order that
\* is no stop order there is none at all.
NoneYet ==
  \A o \in Oid :
     /\ phase[o] \in {"unplaced", "armed"} => \A k \in DOMAIN slog : ~OpenedAt(o, k)
     /\ phase[o] = "unplaced" /\ o \notin Triggers => \A k \in DOMAIN slog : slog[k].oid # o

\* A New of an order that is not the protocol's has its opening status.
NewHasStatus ==
  \A o \in Oid \ Protocol : \A i \in DOMAIN dlog :
     NewAt(o, i) => \E k \in DOMAIN slog : OpenedAt(o, k)

\* Both files list the orders in the same order.
SameOrder ==
  \A o \in Oid \ Protocol : \A p \in Oid : \A i, j \in DOMAIN dlog : \A m \in DOMAIN slog :
     i < j /\ NewAt(o, i) /\ NewAt(p, j) /\ OpenedAt(p, m)
       => \E k \in DOMAIN slog : k < m /\ OpenedAt(o, k)

\* A cut that has an order's opening status has its New.
SameBlock ==
  \A o \in Oid : \A i \in DOMAIN dlog : \A k \in DOMAIN slog : \A c \in DOMAIN cuts :
     NewAt(o, i) /\ OpenedAt(o, k) /\ k <= cuts[c].s => i <= cuts[c].d

ProtocolHasNone == \A o \in Protocol : \A k \in DOMAIN slog : ~OpenedAt(o, k)

\* The first status of an order that rests, and is no stop order, opens it.
OpenedFirst ==
  \A o \in Oid \ Triggers : \A i \in DOMAIN dlog : \A k \in DOMAIN slog :
     NewAt(o, i) /\ slog[k].oid = o => \E m \in DOMAIN slog : m <= k /\ OpenedAt(o, m)

FilesAgree ==
  NoneYet /\ NewHasStatus /\ SameOrder /\ SameBlock /\ ProtocolHasNone /\ OpenedFirst

\* A New is the only one of its order, which did not rest before and rests after it.
LEMMA NewRests ==
  ASSUME NodeInv, NEW o \in Oid, NEW i \in DOMAIN dlog, NewAt(o, i)
  PROVE  /\ i \in 1..Len(dlog) /\ Len(nodeSz) = Len(dlog) + 1
         /\ nodeSz[i + 1][o] > 0
         /\ \A j \in 1..i : nodeSz[j][o] = 0
         /\ \A j \in DOMAIN dlog : NewAt(o, j) => j = i
<1>1. /\ dlog \in Seq(Diff) /\ Len(dlog) \in Nat /\ DOMAIN dlog = 1..Len(dlog)
      /\ nodeSz \in Seq([Oid -> Nat]) /\ Len(nodeSz) = Len(dlog) + 1
  BY DEF NodeInv, NodeTypeOK, HistoryOK
<1>2. ASSUME NEW j \in 1..Len(dlog), NewAt(o, j)
      PROVE  nodeSz[j + 1][o] > 0 /\ \A m \in 1..j : nodeSz[m][o] = 0
  <2>1. nodeSz[j + 1] = After(nodeSz[j], dlog[j])
    BY DEF NodeInv, HistoryOK
  <2>2. dlog[j].sz > 0 /\ \A m \in 1..j : nodeSz[m][o] = 0
    BY <1>2 DEF NodeInv, DiffsOK, NewAt
  <2>3. nodeSz[j] \in [Oid -> Nat]
    BY <1>1
  <2>4. nodeSz[j + 1][o] = dlog[j].sz
    BY <1>2, <2>1, <2>3 DEF After, NewAt
  <2>5. QED
    BY <2>2, <2>4
<1>3. ASSUME NEW j \in 1..Len(dlog), NewAt(o, j) PROVE j = i
  <2>1. CASE j < i
    <3>1. j + 1 \in 1..i
      BY <1>1, <2>1
    <3>2. QED
      BY <1>1, <1>2, <1>3, <3>1
  <2>2. CASE i < j
    <3>1. i + 1 \in 1..j
      BY <1>1, <2>2
    <3>2. QED
      BY <1>1, <1>2, <1>3, <3>1
  <2>3. QED
    BY <1>1, <2>1, <2>2
<1>4. QED
  BY <1>1, <1>2, <1>3

\* An order that has not come to rest has no New.
LEMMA NoNewYet ==
  ASSUME NodeInv, NEW o \in Oid, phase[o] \in {"unplaced", "armed"}, NEW i \in DOMAIN dlog
  PROVE  ~NewAt(o, i)
<1> SUFFICES ASSUME NewAt(o, i) PROVE FALSE
  OBVIOUS
<1>1. /\ i \in 1..Len(dlog) /\ Len(nodeSz) = Len(dlog) + 1 /\ nodeSz[i + 1][o] > 0
      /\ Len(dlog) \in Nat
  BY NewRests DEF NodeInv, NodeTypeOK
<1>2. i + 1 \in 1..Len(nodeSz)
  BY <1>1
<1>3. QED
  BY <1>1, <1>2 DEF NodeInv, PhaseOK

\* What a block changes in the two files, place by place.
LEMMA BlockFiles ==
  ASSUME NodeInv, NEW o \in Oid, NEW ss, Block(o, ss)
  PROVE  /\ DOMAIN slog = 1..Len(slog) /\ Len(slog) \in Nat
         /\ DOMAIN dlog = 1..Len(dlog) /\ Len(dlog) \in Nat
         /\ DOMAIN slog' = 1..Len(slog') /\ Len(slog') \in Nat /\ Len(slog') >= Len(slog)
         /\ DOMAIN dlog' = 1..Len(dlog') /\ Len(dlog') \in Nat /\ Len(dlog') >= Len(dlog)
         /\ \A k \in DOMAIN slog : slog'[k] = slog[k]
         /\ \A i \in DOMAIN dlog : dlog'[i] = dlog[i]
         /\ \A k \in DOMAIN slog' : k > Len(slog) =>
              /\ slog'[k].oid = o
              /\ slog'[k].kind \in {"open", "triggered"} =>
                    o \notin Protocol /\ ~Changes(o, ss) /\ ~(Passes(o, ss) /\ phase'[o] = "armed")
              /\ Changes(o, ss) => o \notin Protocol
              /\ Comes(o, ss) => /\ o \notin Protocol /\ k = Len(slog) + 1
                                 /\ slog'[k].kind \in {"open", "triggered"}
         /\ Comes(o, ss) /\ o \notin Protocol => Len(slog') = Len(slog) + 1
         /\ ss = <<>> => Len(slog') = Len(slog)
         /\ \A i \in DOMAIN dlog' : i > Len(dlog) =>
              /\ i = Len(dlog) + 1 /\ dlog'[i].oid = o
              /\ dlog'[i].kind = "New" => Comes(o, ss)
              /\ ~Passes(o, ss)
         /\ cuts' = Append(cuts, [d |-> Len(dlog'), s |-> Len(slog')])
<1>1. /\ dlog \in Seq(Diff) /\ slog \in Seq(Status) /\ ss \in Seq(Status)
      /\ \A k \in DOMAIN ss : ss[k].oid = o
  BY DEF NodeInv, NodeTypeOK, Block
<1>2. /\ slog' = slog \o ss
      /\ \/ Passes(o, ss) /\ dlog' = dlog
         \/ \E d \in Diff : /\ dlog' = Append(dlog, d) /\ d.oid = o
                            /\ (d.kind = "New" /\ Comes(o, ss)) \/ (d.kind # "New" /\ Changes(o, ss))
      /\ cuts' = Append(cuts, [d |-> Len(dlog'), s |-> Len(slog) + Len(ss)])
  <2>1. CASE Passes(o, ss)
    BY <2>1 DEF Passes, WriteStatuses
  <2>2. ASSUME NEW d \in Diff, WritesDiff(d, ss)
        PROVE  /\ dlog' = Append(dlog, d) /\ slog' = slog \o ss
               /\ cuts' = Append(cuts, [d |-> Len(dlog'), s |-> Len(slog) + Len(ss)])
    <3>1. Len(Append(dlog, d)) = Len(dlog) + 1
      BY <1>1
    <3>2. QED
      BY <2>2, <3>1 DEF WritesDiff, WriteDiff
  <2>3. CASE Comes(o, ss)
    <3>1. PICK d \in Diff : d.oid = o /\ d.kind = "New" /\ WritesDiff(d, ss)
      BY <2>3 DEF Comes
    <3>2. QED
      BY <2>2, <2>3, <3>1
  <2>4. CASE Changes(o, ss)
    <3>1. PICK d \in Diff : d.oid = o /\ d.kind # "New" /\ WritesDiff(d, ss)
      BY <2>4 DEF Changes
    <3>2. QED
      BY <2>2, <2>4, <3>1
  <2>5. QED
    BY <2>1, <2>3, <2>4 DEF Block
<1>3. Len(slog) \in Nat /\ Len(ss) \in Nat /\ Len(slog') = Len(slog) + Len(ss) /\ slog' \in Seq(Status)
  BY <1>1, <1>2
<1>4. /\ ~(Passes(o, ss) /\ Comes(o, ss)) /\ ~(Comes(o, ss) /\ Changes(o, ss))
      /\ ~(Passes(o, ss) /\ Changes(o, ss))
  BY DEF Passes, Comes, Changes
<1>5. \A k \in DOMAIN slog : slog'[k] = slog[k]
  BY <1>1, <1>2
<1>6. ASSUME NEW k \in DOMAIN slog', k > Len(slog)
      PROVE  /\ slog'[k].oid = o
             /\ slog'[k].kind \in {"open", "triggered"} =>
                   o \notin Protocol /\ ~Changes(o, ss) /\ ~(Passes(o, ss) /\ phase'[o] = "armed")
             /\ Changes(o, ss) => o \notin Protocol
             /\ Comes(o, ss) => /\ o \notin Protocol /\ k = Len(slog) + 1
                                /\ slog'[k].kind \in {"open", "triggered"}
  <2>1. PICK n : n = k - Len(slog)
    OBVIOUS
  <2>2. n \in 1..Len(ss) /\ slog'[k] = ss[n]
    BY <1>1, <1>2, <1>3, <1>6, <2>1
  <2>3. ss # <<>> /\ n \in DOMAIN ss
    BY <1>1, <2>2
  <2>4. Comes(o, ss) => o \notin Protocol /\ Len(ss) = 1 /\ ss[1].kind \in {"open", "triggered"}
    BY <2>3 DEF Comes
  <2>5. Changes(o, ss) => o \notin Protocol /\ ss[n].kind \notin {"open", "triggered"}
    BY <2>3 DEF Changes, NoneOpened
  <2>6. Passes(o, ss) /\ (o \in Protocol \/ phase'[o] = "armed") => ss[n].kind \notin {"open", "triggered"}
    BY <2>3 DEF Passes, NoneOpened
  <2>7. Comes(o, ss) => k = Len(slog) + 1 /\ ss[n].kind \in {"open", "triggered"}
    <3>1. ASSUME Comes(o, ss) PROVE n = 1
      <4>1. Len(ss) = 1 /\ n \in 1..Len(ss)
        BY <2>2, <2>4, <3>1
      <4>2. QED
        BY <4>1
    <3>2. k \in Nat
      BY <1>3
    <3>3. n = 1 => k = Len(slog) + 1
      BY <1>3, <2>1, <3>2
    <3>4. QED
      BY <2>4, <3>1, <3>3
  <2>8. Comes(o, ss) \/ Passes(o, ss) \/ Changes(o, ss)
    BY DEF Block
  <2>9. QED
    BY <1>1, <1>4, <2>2, <2>3, <2>4, <2>5, <2>6, <2>7, <2>8
<1>7. Comes(o, ss) /\ o \notin Protocol => Len(slog') = Len(slog) + 1
  BY <1>3 DEF Comes
<1>8. /\ dlog' \in Seq(Diff) /\ Len(dlog') >= Len(dlog)
      /\ \A i \in DOMAIN dlog : dlog'[i] = dlog[i]
      /\ \A i \in DOMAIN dlog' : i > Len(dlog) =>
              /\ i = Len(dlog) + 1 /\ dlog'[i].oid = o
              /\ dlog'[i].kind = "New" => Comes(o, ss)
              /\ ~Passes(o, ss)
  <2>1. CASE Passes(o, ss) /\ dlog' = dlog
    BY <1>1, <2>1
  <2>2. ASSUME NEW d \in Diff, dlog' = Append(dlog, d), d.oid = o,
               (d.kind = "New" /\ Comes(o, ss)) \/ (d.kind # "New" /\ Changes(o, ss))
        PROVE  /\ dlog' \in Seq(Diff) /\ Len(dlog') >= Len(dlog)
               /\ \A i \in DOMAIN dlog : dlog'[i] = dlog[i]
               /\ \A i \in DOMAIN dlog' : i > Len(dlog) =>
                    /\ i = Len(dlog) + 1 /\ dlog'[i].oid = o
                    /\ dlog'[i].kind = "New" => Comes(o, ss)
                    /\ ~Passes(o, ss)
    <3>1. /\ Len(dlog') = Len(dlog) + 1 /\ dlog'[Len(dlog) + 1] = d
          /\ \A i \in 1..Len(dlog) : dlog'[i] = dlog[i]
          /\ dlog' \in Seq(Diff)
      BY <1>1, <2>2
    <3>2. QED
      BY <1>4, <2>2, <3>1
  <2>3. QED
    BY <1>2, <2>1, <2>2
<1>9. ss = <<>> => Len(slog') = Len(slog)
  BY <1>3
<1>10. QED
  BY <1>1, <1>2, <1>3, <1>5, <1>6, <1>7, <1>8, <1>9

\* A block keeps what the files say of each other.
LEMMA BlockKeepsAgreement ==
  ASSUME NodeInv, FilesAgree, NEW o \in Oid, NEW ss, Block(o, ss)
  PROVE  FilesAgree'
<1>1. /\ DOMAIN slog = 1..Len(slog) /\ Len(slog) \in Nat
      /\ DOMAIN dlog = 1..Len(dlog) /\ Len(dlog) \in Nat
      /\ DOMAIN slog' = 1..Len(slog') /\ Len(slog') \in Nat /\ Len(slog') >= Len(slog)
      /\ DOMAIN dlog' = 1..Len(dlog') /\ Len(dlog') \in Nat /\ Len(dlog') >= Len(dlog)
  BY BlockFiles
<1>2. /\ \A k \in DOMAIN slog : k \in DOMAIN slog' /\ slog'[k] = slog[k]
      /\ \A i \in DOMAIN dlog : i \in DOMAIN dlog' /\ dlog'[i] = dlog[i]
  <2>1. /\ \A k \in DOMAIN slog : k \in DOMAIN slog'
        /\ \A i \in DOMAIN dlog : i \in DOMAIN dlog'
    BY <1>1
  <2>2. QED
    BY <2>1, BlockFiles
<1>3. ASSUME NEW k \in DOMAIN slog', k \notin DOMAIN slog
      PROVE  /\ k > Len(slog) /\ slog'[k].oid = o
             /\ \A p \in Oid : OpenedAt(p, k)' => p = o /\ o \notin Protocol /\ ~Changes(o, ss)
                                                 /\ ~(Passes(o, ss) /\ phase'[o] = "armed")
             /\ Changes(o, ss) => o \notin Protocol
             /\ Comes(o, ss) => o \notin Protocol /\ OpenedAt(o, k)'
  <2>1. k > Len(slog)
    BY <1>1, <1>3
  <2>2. QED
    BY <2>1, BlockFiles DEF OpenedAt
<1>4. ASSUME NEW i \in DOMAIN dlog', i \notin DOMAIN dlog
      PROVE  /\ i = Len(dlog) + 1 /\ i = Len(dlog') /\ ~Passes(o, ss)
             /\ \A p \in Oid : NewAt(p, i)' => p = o /\ Comes(o, ss)
  <2>1. i > Len(dlog)
    BY <1>1, <1>4
  <2>2. i = Len(dlog) + 1 /\ dlog'[i].oid = o /\ (dlog'[i].kind = "New" => Comes(o, ss)) /\ ~Passes(o, ss)
    BY <2>1, BlockFiles
  <2>3. i = Len(dlog')
    <3>1. CASE Len(dlog') > i
      <4>1. i + 1 \in DOMAIN dlog' /\ i + 1 > Len(dlog) /\ i + 1 # Len(dlog) + 1
        BY <1>1, <2>2, <3>1
      <4>2. QED
        BY <4>1, BlockFiles
    <3>2. QED
      BY <1>1, <3>1
  <2>4. QED
    BY <2>2, <2>3 DEF NewAt
<1>5. /\ \A p \in Oid : \A k \in DOMAIN slog : OpenedAt(p, k)' <=> OpenedAt(p, k)
      /\ \A p \in Oid : \A i \in DOMAIN dlog : NewAt(p, i)' <=> NewAt(p, i)
  <2>1. ASSUME NEW p \in Oid, NEW k \in DOMAIN slog PROVE OpenedAt(p, k)' <=> OpenedAt(p, k)
    <3>1. slog'[k] = slog[k]
      BY <1>2
    <3>2. QED
      BY <3>1 DEF OpenedAt
  <2>2. ASSUME NEW p \in Oid, NEW i \in DOMAIN dlog PROVE NewAt(p, i)' <=> NewAt(p, i)
    <3>1. dlog'[i] = dlog[i]
      BY <1>2
    <3>2. QED
      BY <3>1 DEF NewAt
  <2>3. QED
    BY <2>1, <2>2
<1>6. Comes(o, ss) /\ o \notin Protocol => Len(slog) + 1 \in DOMAIN slog' /\ Len(slog) + 1 \notin DOMAIN slog
  <2>1. Comes(o, ss) /\ o \notin Protocol => Len(slog') = Len(slog) + 1
    BY BlockFiles
  <2>2. QED
    BY <1>1, <2>1
<1>7. /\ Comes(o, ss) => phase[o] \in {"unplaced", "armed"} /\ phase'[o] = "resting"
                         /\ (o \notin Triggers => phase[o] = "unplaced")
      /\ Passes(o, ss) => phase[o] \in {"unplaced", "armed"} /\ phase'[o] \in {"armed", "gone"}
      /\ Changes(o, ss) => phase'[o] \notin {"unplaced", "armed"}
      /\ Comes(o, ss) \/ Passes(o, ss) \/ Changes(o, ss)
      /\ \A p \in Oid \ {o} : phase'[p] = phase[p]
  BY DEF Comes, Passes, Changes, Block
<1>8. phase[o] \in {"unplaced", "armed"} => \A i \in DOMAIN dlog : ~NewAt(o, i)
  BY NoNewYet
<1>9. phase[o] \in {"unplaced", "armed"} => \A k \in DOMAIN slog : ~OpenedAt(o, k)
  BY DEF FilesAgree, NoneYet
<1>10. NoneYet'
  <2> SUFFICES ASSUME NEW p \in Oid
               PROVE  /\ phase'[p] \in {"unplaced", "armed"} => \A k \in DOMAIN slog' : ~OpenedAt(p, k)'
                      /\ phase'[p] = "unplaced" /\ p \notin Triggers =>
                            \A k \in DOMAIN slog' : slog'[k].oid # p
    BY DEF NoneYet, OpenedAt
  <2>1. CASE p = o
    <3>1. phase'[o] # "unplaced"
      BY <1>7
    <3>2. ASSUME phase'[o] \in {"unplaced", "armed"}, NEW k \in DOMAIN slog' PROVE ~OpenedAt(o, k)'
      <4>1. Passes(o, ss) /\ phase'[o] = "armed"
        BY <1>7, <3>2
      <4>2. CASE k \in DOMAIN slog
        BY <1>5, <1>7, <1>9, <4>1, <4>2
      <4>3. CASE k \notin DOMAIN slog
        BY <1>3, <4>1, <4>3
      <4>4. QED
        BY <4>2, <4>3
    <3>3. QED
      BY <2>1, <3>1, <3>2
  <2>2. CASE p # o
    <3>1. phase'[p] = phase[p]
      BY <1>7, <2>2
    <3>2. \A k \in DOMAIN slog' : k \notin DOMAIN slog => slog'[k].oid # p /\ ~OpenedAt(p, k)'
      BY <1>3, <2>2
    <3>3. QED
      BY <1>2, <1>5, <3>1, <3>2 DEF FilesAgree, NoneYet
  <2>3. QED
    BY <2>1, <2>2
<1>11. NewHasStatus'
  <2> SUFFICES ASSUME NEW p \in Oid \ Protocol, NEW i \in DOMAIN dlog', NewAt(p, i)'
               PROVE  \E k \in DOMAIN slog' : OpenedAt(p, k)'
    BY DEF NewHasStatus, OpenedAt, NewAt
  <2>1. CASE i \in DOMAIN dlog
    <3>1. PICK k \in DOMAIN slog : OpenedAt(p, k)
      BY <1>5, <2>1 DEF FilesAgree, NewHasStatus
    <3>2. QED
      BY <1>2, <1>5, <3>1
  <2>2. CASE i \notin DOMAIN dlog
    BY <1>3, <1>4, <1>6, <2>2
  <2>3. QED
    BY <2>1, <2>2
<1>12. SameOrder'
  <2> SUFFICES ASSUME NEW p \in Oid \ Protocol, NEW r \in Oid, NEW i \in DOMAIN dlog', NEW j \in DOMAIN dlog',
                      NEW m \in DOMAIN slog', i < j, NewAt(p, i)', NewAt(r, j)', OpenedAt(r, m)'
               PROVE  \E k \in DOMAIN slog' : k < m /\ OpenedAt(p, k)'
    BY DEF SameOrder, OpenedAt, NewAt
  <2>1. i \in DOMAIN dlog
    <3>1. CASE i \notin DOMAIN dlog
      BY <1>1, <1>4, <3>1
    <3>2. QED
      BY <3>1
  <2>2. CASE m \notin DOMAIN slog
    <3>1. PICK k \in DOMAIN slog : OpenedAt(p, k)
      BY <1>5, <2>1 DEF FilesAgree, NewHasStatus
    <3>2. k < m
      BY <1>1, <2>2, <3>1
    <3>3. QED
      BY <1>2, <1>5, <3>1, <3>2
  <2>3. CASE m \in DOMAIN slog
    <3>1. OpenedAt(r, m)
      BY <1>5, <2>3
    <3>2. j \in DOMAIN dlog
      BY <1>4, <1>7, <1>9, <2>3, <3>1
    <3>3. PICK k \in DOMAIN slog : k < m /\ OpenedAt(p, k)
      BY <1>5, <2>1, <2>3, <3>1, <3>2 DEF FilesAgree, SameOrder
    <3>4. QED
      BY <1>2, <1>5, <3>3
  <2>4. QED
    BY <2>2, <2>3
<1>13. SameBlock'
  <2>1. cuts \in Seq(Cut) /\ cuts' = Append(cuts, [d |-> Len(dlog'), s |-> Len(slog')])
    BY BlockFiles DEF NodeInv, NodeTypeOK
  <2> SUFFICES ASSUME NEW p \in Oid, NEW i \in DOMAIN dlog', NEW k \in DOMAIN slog', NEW c \in DOMAIN cuts',
                      NewAt(p, i)', OpenedAt(p, k)', k <= cuts'[c].s
               PROVE  i <= cuts'[c].d
    BY DEF SameBlock, OpenedAt, NewAt
  <2>2. CASE c \notin DOMAIN cuts
    <3>1. cuts'[c].d = Len(dlog')
      BY <2>1, <2>2
    <3>2. QED
      BY <1>1, <3>1
  <2>3. CASE c \in DOMAIN cuts
    <3>1. cuts'[c] = cuts[c] /\ cuts[c].s <= Len(slog) /\ cuts[c].s \in Nat
      <4>1. c \in 1..Len(cuts) /\ cuts[c] \in Cut
        BY <2>1, <2>3
      <4>2. cuts'[c] = cuts[c]
        BY <2>1, <4>1
      <4>3. cuts[c].s <= Len(slog)
        BY <2>3 DEF NodeInv, CutsOK
      <4>4. QED
        BY <4>1, <4>2, <4>3 DEF Cut
    <3>2. k \in DOMAIN slog
      BY <1>1, <3>1
    <3>3. OpenedAt(p, k)
      BY <1>5, <3>2
    <3>4. i \in DOMAIN dlog
      BY <1>4, <1>7, <1>9, <3>2, <3>3
    <3>5. QED
      BY <1>5, <2>3, <3>1, <3>2, <3>3, <3>4 DEF FilesAgree, SameBlock
  <2>4. QED
    BY <2>2, <2>3
<1>14. ProtocolHasNone'
  <2> SUFFICES ASSUME NEW p \in Protocol, NEW k \in DOMAIN slog' PROVE ~OpenedAt(p, k)'
    BY DEF ProtocolHasNone, OpenedAt
  <2>1. p \in Oid
    BY NodeAssumption
  <2>2. QED
    BY <1>3, <1>5, <2>1 DEF FilesAgree, ProtocolHasNone
<1>15. OpenedFirst'
  <2> SUFFICES ASSUME NEW p \in Oid \ Triggers, NEW i \in DOMAIN dlog', NEW k \in DOMAIN slog',
                      NewAt(p, i)', slog'[k].oid = p
               PROVE  \E m \in DOMAIN slog' : m <= k /\ OpenedAt(p, m)'
    BY DEF OpenedFirst, OpenedAt, NewAt
  <2>1. CASE k \in DOMAIN slog /\ i \in DOMAIN dlog
    <3>1. PICK m \in DOMAIN slog : m <= k /\ OpenedAt(p, m)
      BY <1>2, <1>5, <2>1 DEF FilesAgree, OpenedFirst
    <3>2. QED
      BY <1>2, <1>5, <3>1
  <2>2. CASE k \in DOMAIN slog /\ i \notin DOMAIN dlog
    <3>1. p = o /\ phase[o] = "unplaced"
      BY <1>4, <1>7, <2>2
    <3>2. QED
      BY <1>2, <2>2, <3>1 DEF FilesAgree, NoneYet
  <2>3. CASE k \notin DOMAIN slog
    <3>1. p = o
      BY <1>3, <2>3
    <3>2. CASE Comes(o, ss)
      <4>1. OpenedAt(o, k)' /\ k <= k
        BY <1>1, <1>3, <2>3, <3>2
      <4>2. QED
        BY <3>1, <4>1
    <3>3. CASE Passes(o, ss)
      <4>1. i \in DOMAIN dlog
        BY <1>4, <3>3
      <4>2. QED
        BY <1>5, <1>7, <1>8, <3>1, <3>3, <4>1
    <3>4. CASE Changes(o, ss)
      <4>1. ~Comes(o, ss)
        BY <1>7, <3>4 DEF Changes, Comes
      <4>2. i \in DOMAIN dlog
        BY <1>4, <4>1
      <4>3. PICK m \in DOMAIN slog : OpenedAt(p, m)
        BY <1>3, <1>5, <2>3, <3>1, <3>4, <4>2 DEF FilesAgree, NewHasStatus
      <4>4. m <= k
        BY <1>1, <2>3, <4>3
      <4>5. QED
        BY <1>2, <1>5, <4>3, <4>4
    <3>5. QED
      BY <1>7, <3>2, <3>3, <3>4
  <2>4. QED
    BY <2>1, <2>2, <2>3
<1>16. QED
  BY <1>10, <1>11, <1>12, <1>13, <1>14, <1>15 DEF FilesAgree

-----------------------------------------------------------------------------
(* The pairing of the two halves.                                          *)

\* Whichever half of an order came first waits for the other.
Paired(o) ==
  \* its opening status was read and its New is still to come: the status waits
  /\ o \notin aged /\ StatusRead(o) =>
       \A i \in DOMAIN dlog : i > dpos /\ NewAt(o, i) => WaitingStatus(o)
  \* its New waits: no opening status has been read
  /\ o \notin aged /\ WaitingNew(o) => ~StatusRead(o)
  \* what waits was read
  /\ WaitingStatus(o) => StatusRead(o)
  /\ WaitingNew(o) => /\ pending_new_diffs[o].at \in 1..dpos
                      /\ NewAt(o, pending_new_diffs[o].at)
                      /\ pending_new_diffs[o].before = dlog[pending_new_diffs[o].at].before

\* The pairing does not rest on the sizes in the book.
PairsOK ==
  /\ NodeInv
  /\ ControlTypeOK
  /\ FilesAgree
  /\ Trusted => BookTypeOK /\ \A o \in Oid : Paired(o)

PairingInv ==
  /\ IInv
  /\ FilesAgree
  /\ Trusted => \A o \in Oid : Paired(o)

\* StatusRead in the words of this module.
LEMMA StatusReadIs ==
  ASSUME NEW o \in Oid
  PROVE  StatusRead(o) <=> \E k \in 1..spos : OpenedAt(o, k)
BY DEF StatusRead, OpenedAt

\* An order that a step of the server is not about stays paired.
LEMMA PairedStays ==
  ASSUME NEW o \in Oid, Paired(o), UNCHANGED nodeVars, dlog \in Seq(Diff),
         dpos \in Nat, dpos' \in Nat, dpos <= dpos',
         StatusRead(o)' <=> StatusRead(o),
         aged \subseteq aged',
         WaitingStatus(o)' => WaitingStatus(o),
         WaitingStatus(o) => WaitingStatus(o)' \/ o \in aged',
         WaitingNew(o)' => /\ WaitingNew(o)
                           /\ pending_new_diffs'[o].at = pending_new_diffs[o].at
                           /\ pending_new_diffs'[o].before = pending_new_diffs[o].before
  PROVE  Paired(o)'
<1>1. dlog' = dlog
  BY DEF nodeVars
<1>2. \A i : NewAt(o, i)' <=> NewAt(o, i)
  BY <1>1 DEF NewAt
<1>3. o \notin aged' /\ StatusRead(o)' =>
       \A i \in DOMAIN dlog' : i > dpos' /\ NewAt(o, i)' => WaitingStatus(o)'
  <2> SUFFICES ASSUME o \notin aged', StatusRead(o)', NEW i \in DOMAIN dlog, i > dpos', NewAt(o, i)
               PROVE  WaitingStatus(o)'
    BY <1>1, <1>2
  <2>1. i > dpos
    <3>1. i \in Nat
      OBVIOUS
    <3>2. QED
      BY <3>1
  <2>2. WaitingStatus(o)
    BY <2>1 DEF Paired
  <2>3. QED
    BY <2>2
<1>4. o \notin aged' /\ WaitingNew(o)' => ~StatusRead(o)'
  BY DEF Paired
<1>5. WaitingStatus(o)' => StatusRead(o)'
  BY DEF Paired
<1>6. WaitingNew(o)' => /\ pending_new_diffs'[o].at \in 1..dpos'
                        /\ NewAt(o, pending_new_diffs[o].at)'
                        /\ pending_new_diffs'[o].before = dlog'[pending_new_diffs'[o].at].before
  <2> SUFFICES ASSUME WaitingNew(o)'
               PROVE  /\ pending_new_diffs'[o].at \in 1..dpos'
                      /\ NewAt(o, pending_new_diffs[o].at)'
                      /\ pending_new_diffs'[o].before = dlog'[pending_new_diffs'[o].at].before
    OBVIOUS
  <2>1. PICK n : n = pending_new_diffs[o].at
    OBVIOUS
  <2>2. n \in 1..dpos /\ NewAt(o, n) /\ pending_new_diffs[o].before = dlog[n].before
        /\ pending_new_diffs'[o].at = n
    BY <2>1 DEF Paired
  <2>3. n \in 1..dpos'
    BY <2>2
  <2>4. QED
    BY <1>1, <1>2, <2>1, <2>2, <2>3
<1>7. QED
  BY <1>3, <1>4, <1>5, <1>6 DEF Paired, NewAt

\* What every step of the server starts from.
LEMMA ServerStart ==
  ASSUME PairingInv
  PROVE  /\ NodeInv /\ ControlTypeOK
         /\ dlog \in Seq(Diff) /\ slog \in Seq(Status) /\ Len(dlog) \in Nat /\ Len(slog) \in Nat
         /\ dpos \in 0..Len(dlog) /\ spos \in 0..Len(slog) /\ dpos \in Nat /\ spos \in Nat
         /\ pending_order_statuses \in [Oid -> Nat]
         /\ Trusted => /\ BookTypeOK /\ sz \in [Oid -> Nat] /\ pending_new_diffs \in [Oid -> PendingNew]
                       /\ \A o \in Oid : Paired(o) /\ OrderOK(o)
BY DEF PairingInv, IInv, ControlTypeOK, NodeTypeOK, BookTypeOK

\* What a step of the server needs to keep the pairing.
LEMMA PairsStart ==
  ASSUME PairsOK
  PROVE  /\ NodeInv /\ ControlTypeOK
         /\ dlog \in Seq(Diff) /\ slog \in Seq(Status) /\ Len(dlog) \in Nat /\ Len(slog) \in Nat
         /\ dpos \in 0..Len(dlog) /\ spos \in 0..Len(slog) /\ dpos \in Nat /\ spos \in Nat
         /\ pending_order_statuses \in [Oid -> Nat]
         /\ Trusted => /\ BookTypeOK /\ sz \in [Oid -> Nat] /\ pending_new_diffs \in [Oid -> PendingNew]
                       /\ \A o \in Oid : Paired(o)
BY DEF PairsOK, ControlTypeOK, NodeTypeOK, BookTypeOK

\* A diff that is not a New: only what waits may be dropped or change its size.
LEMMA OtherDiffsKeepPairs ==
  ASSUME PairsOK, ApplyUpdate \/ ApplyRemove, Trusted'
  PROVE  \A o \in Oid : Paired(o)'
<1> SUFFICES ASSUME NEW o \in Oid PROVE Paired(o)'
  OBVIOUS
<1>1. /\ UNCHANGED nodeVars /\ dpos' = dpos + 1
      /\ UNCHANGED <<ready, spos, aged, pending_order_statuses, loss>>
      /\ \/ UNCHANGED pending_new_diffs
         \/ \E s : apply_diff_to_pending_new(NextDiff.oid, s)
  BY DEF ApplyUpdate, ApplyRemove, ReadDiff
<1>2. Trusted
  BY <1>1 DEF Trusted
<1>3. /\ dlog \in Seq(Diff) /\ dpos \in Nat /\ pending_new_diffs \in [Oid -> PendingNew]
      /\ Paired(o) /\ dpos < Len(dlog)
  BY <1>2, PairsStart DEF ApplyUpdate, ApplyRemove, ReadDiff
<1>4. StatusRead(o)' <=> StatusRead(o)
  BY <1>1 DEF StatusRead, nodeVars
<1>5. WaitingStatus(o)' <=> WaitingStatus(o)
  BY <1>1 DEF WaitingStatus
<1>6. WaitingNew(o)' => /\ WaitingNew(o)
                        /\ pending_new_diffs'[o].at = pending_new_diffs[o].at
                        /\ pending_new_diffs'[o].before = pending_new_diffs[o].before
  <2>1. CASE UNCHANGED pending_new_diffs
    BY <2>1 DEF WaitingNew
  <2>2. CASE \E s : apply_diff_to_pending_new(NextDiff.oid, s)
    <3>1. PICK s : apply_diff_to_pending_new(NextDiff.oid, s)
      BY <2>2
    <3>2. pending_new_diffs[o] \in PendingNew
      BY <1>3
    <3>3. \/ pending_new_diffs' = pending_new_diffs
          \/ pending_new_diffs' = [pending_new_diffs EXCEPT ![NextDiff.oid] = NoNew]
          \/ pending_new_diffs' = [pending_new_diffs EXCEPT ![NextDiff.oid].sz = s]
      BY <3>1 DEF apply_diff_to_pending_new
    <3>4. NoNew.at = 0
      BY DEF NoNew
    <3>5. \/ pending_new_diffs'[o] = pending_new_diffs[o]
          \/ pending_new_diffs'[o] = NoNew
          \/ pending_new_diffs'[o] = [pending_new_diffs[o] EXCEPT !.sz = s]
      BY <1>3, <3>3
    <3>6. QED
      BY <3>2, <3>4, <3>5 DEF WaitingNew, PendingNew
  <2>3. QED
    BY <1>1, <2>1, <2>2
<1>7. dpos' \in Nat /\ dpos <= dpos'
  BY <1>1, <1>3
<1>8. QED
  BY <1>1, <1>3, <1>4, <1>5, <1>6, <1>7, PairedStays

\* A New: it meets its status or waits for it.
LEMMA NewKeepsPairs ==
  ASSUME PairsOK, ApplyNew, Trusted'
  PROVE  \A p \in Oid : Paired(p)'
<1>1. PICK o : o = NextDiff.oid
  OBVIOUS
<1>2. /\ UNCHANGED nodeVars /\ dpos' = dpos + 1 /\ UNCHANGED <<ready, spos, aged>>
      /\ dpos < Len(dlog) /\ NextDiff.kind = "New"
      /\ \/ /\ WaitingStatus(o)
            /\ pending_order_statuses' = [pending_order_statuses EXCEPT ![o] = 0]
            /\ UNCHANGED <<pending_new_diffs, loss>>
         \/ /\ ~WaitingStatus(o)
            /\ pending_new_diffs' =
                 [pending_new_diffs EXCEPT ![o] = [sz |-> NextDiff.sz, before |-> NextDiff.before, at |-> dpos + 1]]
            /\ UNCHANGED <<pending_order_statuses, loss>>
  BY <1>1 DEF ApplyNew, ReadDiff
<1>3. Trusted
  BY <1>2 DEF Trusted
<1>4. /\ NodeInv /\ dlog \in Seq(Diff) /\ dpos \in Nat /\ spos \in Nat /\ Len(dlog) \in Nat
      /\ pending_new_diffs \in [Oid -> PendingNew] /\ pending_order_statuses \in [Oid -> Nat]
      /\ \A p \in Oid : Paired(p)
  BY <1>3, PairsStart
<1>5. /\ dpos + 1 \in DOMAIN dlog /\ dpos' \in Nat /\ dpos <= dpos' /\ dpos + 1 > dpos
      /\ dpos' = dpos + 1
  BY <1>2, <1>4
<1>6. o \in Oid /\ NewAt(o, dpos + 1)
  <2>1. NextDiff \in Diff
    BY <1>4, <1>5 DEF NextDiff
  <2>2. o \in Oid
    BY <1>1, <2>1 DEF Diff
  <2>3. QED
    BY <1>1, <1>2, <2>2 DEF NextDiff, NewAt
<1>7. \A i \in DOMAIN dlog : NewAt(o, i) => i = dpos + 1
  <2>1. PICK n \in DOMAIN dlog : n = dpos + 1
    BY <1>5
  <2>2. NewAt(o, n)
    BY <1>6, <2>1
  <2>3. QED
    BY <1>4, <1>6, <2>1, <2>2, NewRests
<1>8. \A p \in Oid : StatusRead(p)' <=> StatusRead(p)
  BY <1>2 DEF StatusRead, nodeVars
<1>9. ASSUME NEW p \in Oid \ {o} PROVE Paired(p)'
  <2>1. WaitingStatus(p)' <=> WaitingStatus(p)
    BY <1>2, <1>4 DEF WaitingStatus
  <2>2. pending_new_diffs'[p] = pending_new_diffs[p]
    BY <1>2, <1>4
  <2>3. QED
    BY <1>2, <1>4, <1>5, <1>8, <2>1, <2>2, PairedStays DEF WaitingNew
<1>10. Paired(o)'
  <2>1. dlog' = dlog /\ \A i : NewAt(o, i)' <=> NewAt(o, i)
    BY <1>2 DEF nodeVars, NewAt
  <2>2. \A i \in DOMAIN dlog' : ~(i > dpos' /\ NewAt(o, i)')
    BY <1>5, <1>7, <2>1
  <2>3. WaitingStatus(o)' => StatusRead(o)'
    BY <1>2, <1>4, <1>6, <1>8 DEF WaitingStatus, Paired
  <2>4. CASE UNCHANGED pending_new_diffs
    <3>1. WaitingNew(o)' <=> WaitingNew(o)
      BY <2>4 DEF WaitingNew
    <3>2. o \notin aged' /\ WaitingNew(o)' => ~StatusRead(o)'
      BY <1>2, <1>4, <1>6, <1>8, <3>1 DEF Paired
    <3>3. WaitingNew(o)' =>
             /\ pending_new_diffs'[o].at \in 1..dpos'
             /\ NewAt(o, pending_new_diffs[o].at)'
             /\ pending_new_diffs'[o].before = dlog'[pending_new_diffs'[o].at].before
      <4> SUFFICES ASSUME WaitingNew(o)
                   PROVE  /\ pending_new_diffs[o].at \in 1..dpos'
                          /\ NewAt(o, pending_new_diffs[o].at)
                          /\ pending_new_diffs[o].before = dlog[pending_new_diffs[o].at].before
        BY <2>1, <2>4, <3>1
      <4>1. PICK n : n = pending_new_diffs[o].at
        OBVIOUS
      <4>2. n \in 1..dpos /\ NewAt(o, n) /\ pending_new_diffs[o].before = dlog[n].before
        BY <1>4, <1>6, <4>1 DEF Paired
      <4>3. n \in 1..dpos'
        BY <1>4, <1>5, <4>2
      <4>4. QED
        BY <4>1, <4>2, <4>3
    <3>4. QED
      BY <2>2, <2>3, <3>2, <3>3 DEF Paired, NewAt
  <2>5. CASE /\ ~WaitingStatus(o)
             /\ pending_new_diffs' =
                  [pending_new_diffs EXCEPT ![o] = [sz |-> NextDiff.sz, before |-> NextDiff.before, at |-> dpos + 1]]
    <3>1. o \notin aged => ~StatusRead(o)
      BY <1>4, <1>5, <1>6, <2>5 DEF Paired
    <3>2. pending_new_diffs'[o] = [sz |-> NextDiff.sz, before |-> NextDiff.before, at |-> dpos + 1]
      BY <1>4, <1>6, <2>5
    <3>3. /\ pending_new_diffs'[o].at = dpos + 1
          /\ pending_new_diffs'[o].before = dlog[dpos + 1].before
      BY <3>2 DEF NextDiff
    <3>4. o \notin aged' => ~StatusRead(o)'
      BY <1>2, <1>6, <1>8, <3>1
    <3>5. dpos + 1 \in 1..dpos'
      BY <1>4, <1>5
    <3>6. QED
      BY <1>6, <2>1, <2>2, <2>3, <3>3, <3>4, <3>5 DEF Paired, NewAt
  <2>6. QED
    BY <1>2, <2>4, <2>5
<1>11. QED
  BY <1>9, <1>10

\* A status: it completes the New that waits, or waits for it.
LEMMA StatusKeepsPairs ==
  ASSUME PairsOK, ApplyStatus, Trusted'
  PROVE  \A p \in Oid : Paired(p)'
<1>1. PICK o : o = NextStatus.oid
  OBVIOUS
<1>2. /\ UNCHANGED <<nodeVars, ready, dpos, aged, loss>> /\ spos < Len(slog) /\ spos' = spos + 1
      /\ \/ /\ WaitingNew(o)
            /\ pending_new_diffs' = [pending_new_diffs EXCEPT ![o] = NoNew]
            /\ UNCHANGED pending_order_statuses
         \/ /\ ~WaitingNew(o)
            /\ is_inserted_into_book(NextStatus)
            /\ pending_order_statuses' = [pending_order_statuses EXCEPT ![o] = spos + 1]
            /\ UNCHANGED pending_new_diffs
         \/ /\ ~WaitingNew(o)
            /\ ~is_inserted_into_book(NextStatus)
            /\ UNCHANGED <<pending_order_statuses, pending_new_diffs>>
  <2>1. ReadStatus
    BY DEF ApplyStatus, StatusCompletesNew, StatusWaits, StatusIgnored, StatusFails
  <2>2. CASE StatusFails
    BY <2>2 DEF StatusFails, Trusted
  <2>3. CASE StatusCompletesNew
    BY <1>1, <2>1, <2>3 DEF StatusCompletesNew, ReadStatus
  <2>4. CASE StatusWaits
    BY <1>1, <2>1, <2>4 DEF StatusWaits, ReadStatus
  <2>5. CASE StatusIgnored
    BY <1>1, <2>1, <2>5 DEF StatusIgnored, ReadStatus
  <2>6. QED
    BY <2>2, <2>3, <2>4, <2>5 DEF ApplyStatus
<1>3. Trusted
  BY <1>2 DEF Trusted
<1>4. /\ NodeInv /\ dlog \in Seq(Diff) /\ slog \in Seq(Status)
      /\ dpos \in Nat /\ dpos \in 0..Len(dlog) /\ spos \in Nat /\ Len(dlog) \in Nat /\ Len(slog) \in Nat
      /\ pending_new_diffs \in [Oid -> PendingNew] /\ pending_order_statuses \in [Oid -> Nat]
      /\ \A p \in Oid : Paired(p)
  BY <1>3, PairsStart
<1>5. spos + 1 \in DOMAIN slog
  BY <1>2, <1>4
<1>6. /\ o \in Oid /\ slog[spos + 1].oid = o
      /\ is_inserted_into_book(NextStatus) <=> OpenedAt(o, spos + 1)
  <2>1. NextStatus \in Status
    BY <1>4, <1>5 DEF NextStatus
  <2>2. QED
    BY <1>1, <2>1 DEF NextStatus, Status, OpenedAt, is_inserted_into_book
<1>7. /\ slog' = slog /\ dlog' = dlog /\ dpos' = dpos /\ aged' = aged
      /\ \A p, k : OpenedAt(p, k)' <=> OpenedAt(p, k)
      /\ \A p, i : NewAt(p, i)' <=> NewAt(p, i)
  BY <1>2 DEF nodeVars, OpenedAt, NewAt
<1>8. \A p \in Oid : StatusRead(p)' <=> StatusRead(p) \/ OpenedAt(p, spos + 1)
  <2> SUFFICES ASSUME NEW p \in Oid PROVE StatusRead(p)' <=> StatusRead(p) \/ OpenedAt(p, spos + 1)
    OBVIOUS
  <2>1. StatusRead(p)' <=> \E k \in 1..(spos + 1) : OpenedAt(p, k)
    BY <1>2, <1>7 DEF StatusRead, OpenedAt
  <2>2. 1..(spos + 1) = (1..spos) \cup {spos + 1}
    BY <1>4
  <2>3. QED
    BY <2>1, <2>2, StatusReadIs
<1>9. ASSUME NEW p \in Oid \ {o} PROVE Paired(p)'
  <2>1. WaitingStatus(p)' <=> WaitingStatus(p)
    BY <1>2, <1>4 DEF WaitingStatus
  <2>2. pending_new_diffs'[p] = pending_new_diffs[p]
    BY <1>2, <1>4
  <2>3. StatusRead(p)' <=> StatusRead(p)
    BY <1>6, <1>8 DEF OpenedAt
  <2>4. dpos' \in Nat /\ dpos <= dpos'
    BY <1>4, <1>7
  <2>5. QED
    BY <1>2, <1>4, <1>7, <2>1, <2>2, <2>3, <2>4, PairedStays DEF WaitingNew
<1>10. Paired(o)'
  <2>1. CASE /\ WaitingNew(o)
             /\ pending_new_diffs' = [pending_new_diffs EXCEPT ![o] = NoNew]
             /\ UNCHANGED pending_order_statuses
    <3>1. ~WaitingNew(o)'
      BY <1>4, <1>6, <2>1 DEF WaitingNew, NoNew
    <3>2. \A i \in DOMAIN dlog : NewAt(o, i) => ~(i > dpos)
      <4>1. PICK n : n = pending_new_diffs[o].at
        OBVIOUS
      <4>2. n \in 1..dpos /\ NewAt(o, n)
        BY <1>4, <1>6, <2>1, <4>1 DEF Paired
      <4>3. n \in DOMAIN dlog /\ n \in Nat /\ ~(n > dpos)
        BY <1>4, <4>2
      <4>4. \A i \in DOMAIN dlog : NewAt(o, i) => i = n
        BY <1>4, <1>6, <4>2, <4>3, NewRests
      <4>5. QED
        BY <4>3, <4>4
    <3>3. WaitingStatus(o)' => StatusRead(o)'
      BY <1>4, <1>6, <1>8, <2>1 DEF Paired, WaitingStatus
    <3>4. QED
      BY <1>7, <3>1, <3>2, <3>3 DEF Paired
  <2>2. CASE /\ ~WaitingNew(o)
             /\ is_inserted_into_book(NextStatus)
             /\ pending_order_statuses' = [pending_order_statuses EXCEPT ![o] = spos + 1]
             /\ UNCHANGED pending_new_diffs
    <3>1. ~WaitingNew(o)' /\ WaitingStatus(o)' /\ StatusRead(o)'
      BY <1>4, <1>6, <1>8, <2>2 DEF WaitingNew, WaitingStatus
    <3>2. QED
      BY <3>1 DEF Paired
  <2>3. CASE /\ ~WaitingNew(o)
             /\ ~is_inserted_into_book(NextStatus)
             /\ UNCHANGED <<pending_order_statuses, pending_new_diffs>>
    <3>1. StatusRead(o)' <=> StatusRead(o)
      BY <1>6, <1>8, <2>3
    <3>2. ~WaitingNew(o)' /\ (WaitingStatus(o)' <=> WaitingStatus(o))
      BY <2>3 DEF WaitingNew, WaitingStatus
    <3>3. Paired(o)
      BY <1>4, <1>6
    <3>4. QED
      BY <1>7, <3>1, <3>2, <3>3 DEF Paired
  <2>4. QED
    BY <1>2, <2>1, <2>2, <2>3
<1>11. QED
  BY <1>9, <1>10

\* A cleanup: a status that is dropped from a book that stays trusted has aged.
LEMMA CleanupKeepsPairs ==
  ASSUME PairsOK, NEW i, NEW j, cleanup_stale_pending(i, j), Trusted'
  PROVE  \A p \in Oid : Paired(p)'
<1> DEFINE newAt == [o \in Oid |-> pending_new_diffs[o].at]
           statusAt == pending_order_statuses
           agedStatuses == {o \in Oid : WaitingStatus(o) /\ statusAt[o] <= i}
           agedNews == {o \in Oid : WaitingNew(o) /\ newAt[o] <= j}
           overStatuses == Excess({o \in Oid : WaitingStatus(o)} \ agedStatuses, MAX_PENDING_ORDERS, statusAt)
           overNews == Excess({o \in Oid : WaitingNew(o)} \ agedNews, MAX_PENDING_DIFFS, newAt)
<1>1. /\ UNCHANGED <<nodeVars, ready, dpos, spos, bookVars, zeroed, untriggered_orders>>
      /\ pending_order_statuses' =
           [o \in Oid |-> IF o \in agedStatuses \cup overStatuses THEN 0 ELSE pending_order_statuses[o]]
      /\ pending_new_diffs' =
           [o \in Oid |-> IF o \in agedNews \cup overNews THEN NoNew ELSE pending_new_diffs[o]]
      /\ loss' = (loss \/ Lost(agedNews, overStatuses, overNews))
      /\ aged' = aged \cup agedStatuses
  BY DEF cleanup_stale_pending
<1> HIDE DEF agedStatuses, agedNews, overStatuses, overNews
<1>2. Trusted /\ overStatuses = {}
  BY <1>1 DEF Trusted, Lost
<1>3. /\ dlog \in Seq(Diff) /\ dpos \in Nat /\ \A p \in Oid : Paired(p)
  BY <1>2, PairsStart
<1> SUFFICES ASSUME NEW p \in Oid PROVE Paired(p)'
  OBVIOUS
<1>4. StatusRead(p)' <=> StatusRead(p)
  BY <1>1 DEF StatusRead, nodeVars
<1>5. /\ WaitingStatus(p)' => WaitingStatus(p)
      /\ WaitingStatus(p) => WaitingStatus(p)' \/ p \in aged'
  BY <1>1, <1>2 DEF WaitingStatus
<1>6. pending_new_diffs'[p] = pending_new_diffs[p] \/ pending_new_diffs'[p] = NoNew
  BY <1>1
<1>7. WaitingNew(p)' => WaitingNew(p) /\ pending_new_diffs'[p] = pending_new_diffs[p]
  BY <1>6 DEF WaitingNew, NoNew
<1>8. dpos' \in Nat /\ dpos <= dpos' /\ aged \subseteq aged' /\ UNCHANGED nodeVars
  BY <1>1, <1>3
<1>9. QED
  BY <1>3, <1>4, <1>5, <1>7, <1>8, PairedStays

\* An install starts at a block's end, where both files have the same orders.
LEMMA InstallKeepsPairs ==
  ASSUME PairsOK, NEW c \in DOMAIN cuts, NEW d, InstallAt(c, d)
  PROVE  \A p \in Oid : Paired(p)'
<1>2. /\ UNCHANGED nodeVars /\ dpos' = cuts[c].d /\ spos' = cuts[c].s
      /\ pending_order_statuses' = [o \in Oid |-> 0]
      /\ pending_new_diffs' = [o \in Oid |-> NoNew]
  BY DEF InstallAt, ResumeAfter
<1> SUFFICES ASSUME NEW p \in Oid PROVE Paired(p)'
  OBVIOUS
<1>3. ~WaitingStatus(p)' /\ ~WaitingNew(p)'
  BY <1>2 DEF WaitingStatus, WaitingNew, NoNew
<1>4. /\ cuts \in Seq(Cut) /\ slog \in Seq(Status) /\ cuts[c].s <= Len(slog) /\ dlog \in Seq(Diff)
  BY PairsStart DEF NodeInv, NodeTypeOK, CutsOK
<1>5. cuts[c] \in Cut
  BY <1>4
<1>6. cuts[c].s \in Nat /\ cuts[c].d \in Nat /\ Len(slog) \in Nat
  BY <1>4, <1>5 DEF Cut
<1>7. ASSUME StatusRead(p)', NEW i \in DOMAIN dlog, NewAt(p, i) PROVE ~(i > dpos')
  <2>1. PICK k \in 1..(cuts[c].s) : OpenedAt(p, k)
    BY <1>2, <1>7 DEF StatusRead, OpenedAt, nodeVars
  <2>2. k \in DOMAIN slog /\ k <= cuts[c].s
    BY <1>4, <1>6
  <2>3. i <= cuts[c].d
    BY <1>7, <2>1, <2>2 DEF PairsOK, FilesAgree, SameBlock
  <2>4. i \in Nat
    BY <1>4
  <2>5. QED
    BY <1>2, <1>6, <2>3, <2>4
<1>8. dlog' = dlog /\ \A i : NewAt(p, i)' <=> NewAt(p, i)
  BY <1>2 DEF nodeVars, NewAt
<1>9. QED
  BY <1>3, <1>7, <1>8 DEF Paired

\* The node writes on: an order that now comes to rest has no opening status yet.
LEMMA NodeKeepsPairs ==
  ASSUME PairsOK, NodeStep, Trusted
  PROVE  \A p \in Oid : Paired(p)'
<1>1. PICK o \in Oid : \E ss : Block(o, ss)
  BY NodeStepIsBlock DEF PairsOK, NodeStep
<1>2. PICK ss : Block(o, ss)
  BY <1>1
<1>3. UNCHANGED stateVars
  BY DEF NodeStep
<1>4. /\ NodeInv /\ dlog \in Seq(Diff) /\ slog \in Seq(Status) /\ Len(dlog) \in Nat /\ Len(slog) \in Nat
      /\ dpos \in 0..Len(dlog) /\ spos \in 0..Len(slog) /\ dpos \in Nat /\ spos \in Nat
      /\ \A p \in Oid : Paired(p)
  BY PairsStart
<1>5. /\ DOMAIN dlog = 1..Len(dlog)
      /\ \A k \in 1..Len(slog) : slog'[k] = slog[k]
      /\ \A i \in 1..Len(dlog) : dlog'[i] = dlog[i]
      /\ \A i \in DOMAIN dlog' : i > Len(dlog) => dlog'[i].oid = o /\ (dlog'[i].kind = "New" => Comes(o, ss))
      /\ DOMAIN dlog' = 1..Len(dlog') /\ Len(dlog') \in Nat
  BY <1>2, <1>4, BlockFiles
<1> SUFFICES ASSUME NEW p \in Oid PROVE Paired(p)'
  OBVIOUS
<1>6. Paired(p)
  BY <1>4
<1>7. \A k \in 1..spos : OpenedAt(p, k)' <=> OpenedAt(p, k)
  <2> SUFFICES ASSUME NEW k \in 1..spos PROVE OpenedAt(p, k)' <=> OpenedAt(p, k)
    OBVIOUS
  <2>1. slog'[k] = slog[k]
    BY <1>4, <1>5
  <2>2. QED
    BY <2>1 DEF OpenedAt
<1>8. StatusRead(p)' <=> StatusRead(p)
  BY <1>3, <1>7 DEF StatusRead, OpenedAt, stateVars
<1>9. \A i \in 1..Len(dlog) : NewAt(p, i)' <=> NewAt(p, i)
  <2> SUFFICES ASSUME NEW i \in 1..Len(dlog) PROVE NewAt(p, i)' <=> NewAt(p, i)
    OBVIOUS
  <2>1. dlog'[i] = dlog[i]
    BY <1>5
  <2>2. QED
    BY <2>1 DEF NewAt
<1>10. /\ dpos' = dpos /\ aged' = aged /\ pending_new_diffs' = pending_new_diffs
       /\ WaitingStatus(p)' <=> WaitingStatus(p)
       /\ WaitingNew(p)' <=> WaitingNew(p)
  BY <1>3 DEF stateVars, WaitingStatus, WaitingNew
<1>11. ASSUME p \notin aged, StatusRead(p), NEW i \in DOMAIN dlog', i > dpos, NewAt(p, i)'
       PROVE  WaitingStatus(p)
  <2>1. CASE i \in 1..Len(dlog)
    BY <1>5, <1>6, <1>9, <1>11, <2>1 DEF Paired
  <2>2. CASE i \notin 1..Len(dlog)
    <3>1. i > Len(dlog)
      BY <1>4, <1>5, <2>2
    <3>2. p = o /\ Comes(o, ss)
      BY <1>5, <1>11, <3>1 DEF NewAt
    <3>3. phase[p] \in {"unplaced", "armed"}
      BY <3>2 DEF Comes
    <3>4. \A k \in DOMAIN slog : ~OpenedAt(p, k)
      BY <3>3 DEF PairsOK, FilesAgree, NoneYet
    <3>5. \A k \in 1..spos : k \in DOMAIN slog
      BY <1>4
    <3>6. QED
      BY <1>11, <3>4, <3>5, StatusReadIs
  <2>3. QED
    BY <2>1, <2>2
<1>12. WaitingNew(p)' => /\ pending_new_diffs'[p].at \in 1..dpos'
                         /\ NewAt(p, pending_new_diffs[p].at)'
                         /\ pending_new_diffs'[p].before = dlog'[pending_new_diffs'[p].at].before
  <2> SUFFICES ASSUME WaitingNew(p)
               PROVE  /\ pending_new_diffs[p].at \in 1..dpos
                      /\ NewAt(p, pending_new_diffs[p].at)'
                      /\ pending_new_diffs[p].before = dlog'[pending_new_diffs[p].at].before
    BY <1>10
  <2>1. PICK n : n = pending_new_diffs[p].at
    OBVIOUS
  <2>2. n \in 1..dpos /\ NewAt(p, n) /\ pending_new_diffs[p].before = dlog[n].before
    BY <1>6, <2>1 DEF Paired
  <2>3. n \in 1..Len(dlog)
    BY <1>4, <2>2
  <2>4. NewAt(p, n)' /\ dlog'[n] = dlog[n]
    BY <1>5, <1>9, <2>2, <2>3
  <2>5. NewAt(p, pending_new_diffs[p].at)'
    <3>1. pending_new_diffs'[p].at = n
      BY <1>10, <2>1
    <3>2. QED
      BY <2>4, <3>1 DEF NewAt
  <2>6. QED
    BY <2>1, <2>2, <2>4, <2>5
<1>13. QED
  BY <1>6, <1>8, <1>10, <1>11, <1>12 DEF Paired, NewAt

\* Before anything is written or read.
LEMMA InitPairing == Init => PairingInv
<1> SUFFICES ASSUME Init PROVE PairingInv
  OBVIOUS
<1>1. IInv
  BY InitIInv
<1>2. slog = <<>> /\ dlog = <<>> /\ ~Trusted
  BY DEF Init, NodeInit, Trusted
<1>3. DOMAIN slog = {} /\ DOMAIN dlog = {}
  BY <1>2
<1>4. FilesAgree
  BY <1>3 DEF FilesAgree, NoneYet, NewHasStatus, SameOrder, SameBlock, ProtocolHasNone, OpenedFirst
<1>5. QED
  BY <1>1, <1>2, <1>4 DEF PairingInv

\* A step that is not the node's leaves what the files say of each other.
LEMMA AgreementStays == FilesAgree /\ UNCHANGED nodeVars => FilesAgree'
BY DEF FilesAgree, NoneYet, NewHasStatus, SameOrder, SameBlock, ProtocolHasNone, OpenedFirst,
       OpenedAt, NewAt, nodeVars

\* Every step keeps the pairing.
LEMMA NextPairing == PairingInv /\ [Next]_vars => PairingInv'
<1> SUFFICES ASSUME PairingInv, [Next]_vars PROVE PairingInv'
  OBVIOUS
<1>0. PairsOK
  BY DEF PairingInv, IInv, PairsOK
<1>1. IInv'
  BY NextIInv DEF PairingInv
<1>2. FilesAgree'
  <2>1. CASE UNCHANGED nodeVars
    BY <2>1, AgreementStays DEF PairingInv
  <2>2. CASE NodeStep
    <3>1. PICK o \in Oid : \E ss : Block(o, ss)
      BY <2>2, NodeStepIsBlock DEF PairingInv, IInv, NodeStep
    <3>2. PICK ss : Block(o, ss)
      BY <3>1
    <3>3. QED
      BY <3>2, BlockKeepsAgreement DEF PairingInv, IInv
  <2>3. NodeStep \/ UNCHANGED nodeVars
    BY DEF Next, vars, ApplyStatus, StatusCompletesNew, StatusWaits, StatusIgnored, StatusFails,
           ApplyDiff, ApplyNew, ApplyUpdate, ApplyRemove, DiffFails, ReadDiff,
           Cleanup, cleanup_stale_pending, Install, InstallAt
  <2>4. QED
    BY <2>1, <2>2, <2>3
<1>3. ASSUME Trusted' PROVE \A o \in Oid : Paired(o)'
  <2>1. CASE NodeStep
    <3>1. Trusted
      BY <1>3, <2>1 DEF NodeStep, stateVars, Trusted
    <3>2. QED
      BY <1>0, <2>1, <3>1, NodeKeepsPairs
  <2>2. CASE ApplyStatus
    BY <1>0, <1>3, <2>2, StatusKeepsPairs
  <2>3. CASE ApplyDiff
    <3>1. ~DiffFails
      BY <1>3 DEF DiffFails, Trusted
    <3>2. QED
      BY <1>0, <1>3, <2>3, <3>1, NewKeepsPairs, OtherDiffsKeepPairs DEF ApplyDiff
  <2>4. CASE Cleanup
    BY <1>0, <1>3, <2>4, CleanupKeepsPairs DEF Cleanup
  <2>5. CASE Install
    BY <1>0, <2>5, InstallKeepsPairs DEF Install
  <2>6. CASE UNCHANGED vars
    <3>1. Trusted
      BY <1>3, <2>6 DEF vars, stateVars, Trusted
    <3>2. \A o \in Oid : Paired(o)
      BY <3>1 DEF PairingInv
    <3>3. QED
      BY <2>6, <3>2 DEF vars, stateVars, nodeVars, Paired, StatusRead, WaitingStatus, WaitingNew, NewAt
  <2>7. QED
    BY <2>1, <2>2, <2>3, <2>4, <2>5, <2>6 DEF Next
<1>4. QED
  BY <1>1, <1>2, <1>3 DEF PairingInv

\* Every order of a trusted book is paired: whichever half of it (apply_order_statuses_hft,
\* apply_order_diffs_hft) came first waits for the other.
THEOREM PairingInvariance == Spec => []PairingInv
BY InitPairing, NextPairing, PTL DEF Spec

\* Pairing converges: an order the node has in its book, whose opening status has
\* been read, is in a trusted book with its size, unless its status aged out.
THEOREM PairedOrdersRestThm == Spec => []PairedOrdersRest
<1>1. PairingInv => PairedOrdersRest
  <2> SUFFICES ASSUME PairingInv, Trusted, NEW o \in Oid \ aged, Applied[o] > 0, StatusRead(o)
               PROVE  sz[o] = Applied[o]
    BY DEF PairedOrdersRest
  <2>1. o \notin Protocol
    <3>1. PICK k \in 1..spos : OpenedAt(o, k)
      BY StatusReadIs
    <3>2. k \in DOMAIN slog
      BY ServerStart
    <3>3. QED
      BY <3>1, <3>2 DEF PairingInv, FilesAgree, ProtocolHasNone
  <2>2. ~WaitingNew(o)
    BY DEF PairingInv, Paired
  <2>3. QED
    BY <2>1, <2>2 DEF PairingInv, IInv, OrderOK
<1>2. QED
  BY <1>1, PairingInvariance, PTL

-----------------------------------------------------------------------------
(* The node's queues from diff to diff.                                    *)

\* Each diff turns the node's queues into the next ones.
QueueHistory ==
  \A i \in DOMAIN dlog :
     nodeQueue[i + 1] = [nodeQueue[i] EXCEPT ![LevelOf(dlog[i].oid)] =
                           QueueAfter(nodeQueue[i][LevelOf(dlog[i].oid)], dlog[i])]

\* A queue of the node has each resting order of its level once.
NodeHoldsOnce ==
  \A j \in 1..Len(nodeQueue) : \A l \in Level :
     /\ OnQueue(nodeQueue[j][l]) = {o \in Oid : nodeSz[j][o] > 0 /\ LevelOf(o) = l}
     /\ OnceEach(nodeQueue[j][l])

\* An order comes to rest by its New only.
RestsByNew ==
  \A o \in Oid : \A k, j \in 1..Len(nodeSz) :
     k < j /\ nodeSz[k][o] = 0 /\ nodeSz[j][o] > 0 => \E i \in k..(j - 1) : NewAt(o, i)

\* Two orders that still rest stand as they stood.
OrderKept ==
  \A i, j \in 1..Len(nodeQueue) : \A l \in Level : \A x, y \in Oid :
     i <= j /\ nodeSz[j][x] > 0 /\ nodeSz[j][y] > 0 /\ StandsBefore(nodeQueue[i][l], x, y)
       => StandsBefore(nodeQueue[j][l], x, y)

QueuesOK == QueueHistory /\ NodeHoldsOnce /\ RestsByNew /\ OrderKept

\* A level's queue after a diff.
LEMMA QueueAfterIs ==
  ASSUME NEW q \in Seq(Oid), OnceEach(q), NEW d \in Diff,
         d.kind = "New" => d.oid \notin OnQueue(q)
  PROVE  /\ QueueAfter(q, d) \in Seq(Oid)
         /\ OnceEach(QueueAfter(q, d))
         /\ d.kind = "New" => OnQueue(QueueAfter(q, d)) = OnQueue(q) \cup {d.oid}
         /\ d.kind # "New" /\ d.sz = 0 => OnQueue(QueueAfter(q, d)) = OnQueue(q) \ {d.oid}
         /\ d.kind # "New" /\ d.sz # 0 => OnQueue(QueueAfter(q, d)) = OnQueue(q)
         /\ \A x, y \in OnQueue(q) : x \in OnQueue(QueueAfter(q, d)) /\ y \in OnQueue(QueueAfter(q, d)) =>
              (StandsBefore(QueueAfter(q, d), x, y) <=> StandsBefore(q, x, y))
<1>1. PICK o : o = d.oid
  OBVIOUS
<1>2. o \in Oid
  BY <1>1 DEF Diff
<1>3. CASE d.kind = "New"
  <2>1. PICK r : r = InsertAt(q, RestAt(q, d.before), o)
    OBVIOUS
  <2>2. /\ r \in Seq(Oid) /\ OnceEach(r) /\ OnQueue(r) = OnQueue(q) \cup {o}
        /\ \A x, y \in OnQueue(q) : StandsBefore(r, x, y) <=> StandsBefore(q, x, y)
    BY <1>1, <1>2, <1>3, <2>1, SpliceIs
  <2>3. QueueAfter(q, d) = r
    BY <1>1, <1>3, <2>1 DEF QueueAfter
  <2>4. QED
    BY <1>1, <1>3, <2>2, <2>3
<1>4. CASE d.kind # "New" /\ d.sz = 0 /\ PosIn(q, o) # 0
  <2>1. PICK at : at = PosIn(q, o)
    OBVIOUS
  <2>2. at \in 1..Len(q) /\ q[at] = o
    BY <1>4, <2>1, PosInIs
  <2>3. PICK r : r = DeleteAt(q, at)
    OBVIOUS
  <2>4. /\ r \in Seq(Oid) /\ OnceEach(r) /\ OnQueue(r) = OnQueue(q) \ {o}
        /\ \A x, y \in OnQueue(q) \ {o} : StandsBefore(r, x, y) <=> StandsBefore(q, x, y)
    BY <2>2, <2>3, DeleteKeepsOrder
  <2>5. QueueAfter(q, d) = r
    BY <1>1, <1>4, <2>1, <2>3 DEF QueueAfter
  <2>6. QED
    BY <1>1, <1>4, <2>4, <2>5
<1>5. CASE d.kind # "New" /\ ~(d.sz = 0 /\ PosIn(q, o) # 0)
  <2>1. QueueAfter(q, d) = q
    BY <1>1, <1>5 DEF QueueAfter
  <2>2. d.sz = 0 => o \notin OnQueue(q)
    BY <1>5, PosInIs
  <2>3. QED
    BY <1>1, <1>5, <2>1, <2>2
<1>6. QED
  BY <1>3, <1>4, <1>5

\* The node's queues, and what one more diff makes of them.
LEMMA NodeQueueTypes ==
  ASSUME NodeInv
  PROVE  /\ dlog \in Seq(Diff) /\ Len(dlog) \in Nat /\ DOMAIN dlog = 1..Len(dlog)
         /\ Len(nodeSz) = Len(dlog) + 1 /\ Len(nodeQueue) = Len(dlog) + 1
         /\ nodeSz \in Seq([Oid -> Nat]) /\ nodeQueue \in Seq([Level -> Seq(Oid)])
         /\ \A j \in 1..(Len(dlog) + 1) : nodeSz[j] \in [Oid -> Nat] /\ nodeQueue[j] \in [Level -> Seq(Oid)]
         /\ \A o \in Oid : LevelOf(o) \in Level
<1>1. /\ dlog \in Seq(Diff) /\ Len(dlog) \in Nat /\ DOMAIN dlog = 1..Len(dlog)
      /\ Len(nodeSz) = Len(dlog) + 1 /\ Len(nodeQueue) = Len(dlog) + 1
      /\ nodeSz \in Seq([Oid -> Nat]) /\ nodeQueue \in Seq([Level -> Seq(Oid)])
  BY DEF NodeInv, NodeTypeOK, HistoryOK
<1>2. \A j \in 1..(Len(dlog) + 1) : nodeSz[j] \in [Oid -> Nat] /\ nodeQueue[j] \in [Level -> Seq(Oid)]
  BY <1>1
<1>3. \A o \in Oid : LevelOf(o) \in Level
  BY DEF LevelOf, Level
<1>4. QED
  BY <1>1, <1>2, <1>3

\* A block that writes a diff keeps the node's queues right.
LEMMA DiffKeepsQueues ==
  ASSUME NodeInv, NodeInv', QueuesOK, NEW d \in Diff, NEW ss, WritesDiff(d, ss)
  PROVE  QueuesOK'
<1>1. PICK n : n = Len(dlog) + 1
  OBVIOUS
<1>2. PICK o : o = d.oid
  OBVIOUS
<1>3. /\ dlog \in Seq(Diff) /\ Len(dlog) \in Nat /\ n \in Nat /\ Len(nodeSz) = n /\ Len(nodeQueue) = n
      /\ nodeSz \in Seq([Oid -> Nat]) /\ nodeQueue \in Seq([Level -> Seq(Oid)])
      /\ o \in Oid /\ LevelOf(o) \in Level
  BY <1>1, <1>2, NodeQueueTypes DEF Diff
<1>4. PICK Q : Q = nodeQueue[n]
  OBVIOUS
<1>5. PICK f : f = nodeSz[n]
  OBVIOUS
<1>6. /\ dlog' = Append(dlog, d)
      /\ nodeSz' = Append(nodeSz, After(f, d))
      /\ nodeQueue' = Append(nodeQueue, [Q EXCEPT ![LevelOf(o)] = QueueAfter(Q[LevelOf(o)], d)])
  BY <1>2, <1>3, <1>4, <1>5 DEF WritesDiff, WriteDiff, SzNow, QueueNow
<1>7. /\ Len(dlog') = n /\ Len(nodeSz') = n + 1 /\ Len(nodeQueue') = n + 1
      /\ dlog'[n] = d /\ nodeSz'[n + 1] = After(f, d)
      /\ nodeQueue'[n + 1] = [Q EXCEPT ![LevelOf(o)] = QueueAfter(Q[LevelOf(o)], d)]
      /\ DOMAIN dlog = 1..(n - 1) /\ DOMAIN dlog' = 1..n
      /\ \A i \in 1..(n - 1) : dlog'[i] = dlog[i]
      /\ \A j \in 1..n : nodeSz'[j] = nodeSz[j] /\ nodeQueue'[j] = nodeQueue[j]
  BY <1>1, <1>3, <1>6
<1>8. n \in 1..n /\ Q \in [Level -> Seq(Oid)] /\ f \in [Oid -> Nat]
  BY <1>1, <1>3, <1>4, <1>5
<1>9. /\ d.kind = "New" => d.sz > 0 /\ \A j \in 1..n : nodeSz[j][o] = 0
      /\ d.kind = "Update" => f[o] > 0
      /\ d.kind = "Remove" => d.sz = 0
      /\ d.kind \in {"New", "Update", "Remove"} /\ d.sz \in Nat
  <2>1. n \in 1..Len(dlog')
    BY <1>7, <1>8
  <2>2. /\ dlog'[n].kind = "New" => dlog'[n].sz > 0 /\ \A j \in 1..n : nodeSz'[j][dlog'[n].oid] = 0
        /\ dlog'[n].kind = "Update" => nodeSz'[n][dlog'[n].oid] > 0
        /\ dlog'[n].kind = "Remove" => dlog'[n].sz = 0
    BY <2>1 DEF NodeInv, DiffsOK
  <2>3. nodeSz'[n] = f
    BY <1>5, <1>7, <1>8
  <2>4. d.kind \in {"New", "Update", "Remove"} /\ d.sz \in Nat
    BY DEF Diff
  <2>5. QED
    BY <1>2, <1>7, <2>2, <2>3, <2>4
<1>10. /\ nodeSz'[n + 1][o] = d.sz
       /\ \A p \in Oid \ {o} : nodeSz'[n + 1][p] = f[p]
  BY <1>2, <1>3, <1>7, <1>8 DEF After
<1>11. \A l \in Level : /\ OnQueue(Q[l]) = {p \in Oid : f[p] > 0 /\ LevelOf(p) = l}
                        /\ OnceEach(Q[l])
  BY <1>3, <1>4, <1>5, <1>8 DEF QueuesOK, NodeHoldsOnce
<1>12. PICK r : r = QueueAfter(Q[LevelOf(o)], d)
  OBVIOUS
<1>13. d.kind = "New" => o \notin OnQueue(Q[LevelOf(o)])
  <2>1. d.kind = "New" => f[o] = 0
    BY <1>5, <1>8, <1>9
  <2>2. QED
    BY <1>3, <1>11, <2>1
<1>14. /\ r \in Seq(Oid) /\ OnceEach(r)
       /\ d.kind = "New" => OnQueue(r) = OnQueue(Q[LevelOf(o)]) \cup {o}
       /\ d.kind # "New" /\ d.sz = 0 => OnQueue(r) = OnQueue(Q[LevelOf(o)]) \ {o}
       /\ d.kind # "New" /\ d.sz # 0 => OnQueue(r) = OnQueue(Q[LevelOf(o)])
       /\ \A x, y \in OnQueue(Q[LevelOf(o)]) : x \in OnQueue(r) /\ y \in OnQueue(r) =>
             (StandsBefore(r, x, y) <=> StandsBefore(Q[LevelOf(o)], x, y))
  <2>1. Q[LevelOf(o)] \in Seq(Oid) /\ OnceEach(Q[LevelOf(o)])
    BY <1>3, <1>8, <1>11
  <2>2. QED
    BY <1>2, <1>12, <1>13, <2>1, QueueAfterIs
<1>15. /\ nodeQueue'[n + 1][LevelOf(o)] = r
       /\ \A l \in Level \ {LevelOf(o)} : nodeQueue'[n + 1][l] = Q[l]
  BY <1>3, <1>7, <1>8, <1>12
<1>16. /\ \A p \in Oid : \A i \in 1..(n - 1) : NewAt(p, i)' <=> NewAt(p, i)
       /\ d.kind = "New" => NewAt(o, n)'
  <2>1. ASSUME NEW p \in Oid, NEW i \in 1..(n - 1) PROVE NewAt(p, i)' <=> NewAt(p, i)
    <3>1. dlog'[i] = dlog[i]
      BY <1>7
    <3>2. QED
      BY <3>1 DEF NewAt
  <2>2. d.kind = "New" => NewAt(o, n)'
    BY <1>2, <1>7 DEF NewAt
  <2>3. QED
    BY <2>1, <2>2
<1>17. QueueHistory'
  <2> SUFFICES ASSUME NEW i \in 1..n
               PROVE  nodeQueue'[i + 1] = [nodeQueue'[i] EXCEPT ![LevelOf(dlog'[i].oid)] =
                                             QueueAfter(nodeQueue'[i][LevelOf(dlog'[i].oid)], dlog'[i])]
    BY <1>7 DEF QueueHistory
  <2>1. CASE i = n
    BY <1>2, <1>4, <1>7, <1>8, <2>1
  <2>2. CASE i # n
    <3>1. i \in 1..(n - 1) /\ i \in 1..n /\ i + 1 \in 1..n
      BY <1>3, <2>2
    <3>2. nodeQueue[i + 1] = [nodeQueue[i] EXCEPT ![LevelOf(dlog[i].oid)] =
                                QueueAfter(nodeQueue[i][LevelOf(dlog[i].oid)], dlog[i])]
      BY <1>7, <3>1 DEF QueuesOK, QueueHistory
    <3>3. QED
      BY <1>7, <3>1, <3>2
  <2>3. QED
    BY <2>1, <2>2
<1>18. NodeHoldsOnce'
  <2> SUFFICES ASSUME NEW j \in 1..(n + 1), NEW l \in Level
               PROVE  /\ OnQueue(nodeQueue'[j][l]) = {p \in Oid : nodeSz'[j][p] > 0 /\ LevelOf(p) = l}
                      /\ OnceEach(nodeQueue'[j][l])
    BY <1>7 DEF NodeHoldsOnce, OnQueue, OnceEach
  <2>1. CASE j \in 1..n
    <3>1. nodeSz'[j] = nodeSz[j] /\ nodeQueue'[j] = nodeQueue[j]
      BY <1>7, <2>1
    <3>2. QED
      BY <1>3, <2>1, <3>1 DEF QueuesOK, NodeHoldsOnce
  <2>2. CASE j = n + 1 /\ l # LevelOf(o)
    <3>1. nodeQueue'[j][l] = Q[l]
      BY <1>15, <2>2
    <3>2. \A p \in Oid : LevelOf(p) = l => nodeSz'[j][p] = f[p]
      BY <1>10, <2>2
    <3>3. QED
      BY <1>11, <3>1, <3>2
  <2>3. CASE j = n + 1 /\ l = LevelOf(o)
    <3>1. nodeQueue'[j][l] = r
      BY <1>15, <2>3
    <3>2. ASSUME NEW p \in Oid \ {o} PROVE p \in OnQueue(r) <=> nodeSz'[j][p] > 0 /\ LevelOf(p) = l
      BY <1>3, <1>9, <1>10, <1>11, <1>14, <2>3
    <3>3. o \in OnQueue(r) <=> nodeSz'[j][o] > 0
      <4>1. nodeSz'[j][o] = d.sz
        BY <1>10, <2>3
      <4>2. CASE d.kind = "New"
        BY <1>9, <1>14, <4>1, <4>2
      <4>3. CASE d.kind # "New" /\ d.sz = 0
        BY <1>14, <4>1, <4>3
      <4>4. CASE d.kind # "New" /\ d.sz # 0
        <5>1. d.kind = "Update"
          BY <1>9, <4>4
        <5>2. o \in OnQueue(Q[LevelOf(o)])
          BY <1>3, <1>9, <1>11, <5>1
        <5>3. QED
          BY <1>9, <1>14, <4>1, <4>4, <5>2
      <4>5. QED
        BY <4>2, <4>3, <4>4
    <3>4. OnQueue(r) \subseteq Oid
      BY <1>14 DEF OnQueue
    <3>5. OnQueue(r) = {p \in Oid : nodeSz'[j][p] > 0 /\ LevelOf(p) = l}
      BY <1>3, <2>3, <3>2, <3>3, <3>4
    <3>6. QED
      BY <1>14, <3>1, <3>5
  <2>4. j \in 1..n \/ j = n + 1
    BY <1>3
  <2>5. QED
    BY <2>1, <2>2, <2>3, <2>4
<1>19. RestsByNew'
  <2> SUFFICES ASSUME NEW p \in Oid, NEW k \in 1..Len(nodeSz'), NEW j \in 1..Len(nodeSz'),
                      k < j, nodeSz'[k][p] = 0, nodeSz'[j][p] > 0
               PROVE  \E i \in k..(j - 1) : NewAt(p, i)'
    BY DEF RestsByNew, NewAt
  <2>0. k \in 1..(n + 1) /\ j \in 1..(n + 1)
    BY <1>7
  <2>1. k \in 1..n /\ nodeSz[k][p] = 0
    BY <1>3, <1>7, <2>0
  <2>2. ASSUME NEW m \in 1..n, k < m, nodeSz[m][p] > 0
        PROVE  \E i \in k..(m - 1) : NewAt(p, i)'
    <3>1. PICK i \in k..(m - 1) : NewAt(p, i)
      BY <1>3, <2>1, <2>2 DEF QueuesOK, RestsByNew
    <3>2. i \in 1..(n - 1)
      BY <1>3, <2>1
    <3>3. QED
      BY <1>16, <3>1, <3>2
  <2>3. CASE j \in 1..n
    <3>1. nodeSz[j][p] > 0
      BY <1>7, <2>3
    <3>2. QED
      BY <2>2, <2>3, <3>1
  <2>4. CASE j = n + 1 /\ f[p] > 0
    <3>1. k < n
      BY <1>3, <1>5, <1>8, <2>1, <2>4
    <3>2. PICK i \in k..(n - 1) : NewAt(p, i)'
      BY <1>5, <1>8, <2>2, <2>4, <3>1
    <3>3. i \in k..(j - 1)
      BY <1>3, <2>1, <2>4
    <3>4. QED
      BY <3>2, <3>3
  <2>5. CASE j = n + 1 /\ ~(f[p] > 0)
    <3>1. p = o
      BY <1>10, <2>5
    <3>2. d.kind = "New"
      BY <1>9, <1>10, <2>5, <3>1
    <3>3. n \in k..(j - 1)
      BY <1>3, <2>1, <2>5
    <3>4. QED
      BY <1>16, <3>1, <3>2, <3>3
  <2>6. j \in 1..n \/ j = n + 1
    BY <1>3, <2>0
  <2>7. QED
    BY <2>3, <2>4, <2>5, <2>6
<1>20. OrderKept'
  <2> SUFFICES ASSUME NEW i \in 1..Len(nodeQueue'), NEW j \in 1..Len(nodeQueue'), NEW l \in Level,
                      NEW x \in Oid, NEW y \in Oid, i <= j,
                      nodeSz'[j][x] > 0, nodeSz'[j][y] > 0, StandsBefore(nodeQueue'[i][l], x, y)
               PROVE  StandsBefore(nodeQueue'[j][l], x, y)
    BY DEF OrderKept, StandsBefore
  <2>0. i \in 1..(n + 1) /\ j \in 1..(n + 1)
    BY <1>7
  <2>1. CASE j \in 1..n
    <3>1. i \in 1..n
      BY <1>3, <2>0, <2>1
    <3>2. nodeQueue'[i] = nodeQueue[i] /\ nodeQueue'[j] = nodeQueue[j] /\ nodeSz'[j] = nodeSz[j]
      BY <1>7, <2>1, <3>1
    <3>3. QED
      BY <1>3, <2>1, <3>1, <3>2 DEF QueuesOK, OrderKept
  <2>2. CASE j = n + 1 /\ i \in 1..n
    <3>1. nodeQueue'[i] = nodeQueue[i]
      BY <1>7, <2>2
    <3>2. x \in OnQueue(nodeQueue[i][l]) /\ y \in OnQueue(nodeQueue[i][l])
      BY <3>1 DEF StandsBefore, OnQueue
    <3>3. /\ nodeSz[i][x] > 0 /\ nodeSz[i][y] > 0 /\ LevelOf(x) = l /\ LevelOf(y) = l
      BY <1>3, <2>2, <3>2 DEF QueuesOK, NodeHoldsOnce
    <3>4. d.kind = "New" => x # o /\ y # o
      BY <1>9, <2>2, <3>3
    <3>5. /\ x \in OnQueue(nodeQueue'[n + 1][l]) /\ y \in OnQueue(nodeQueue'[n + 1][l])
      <4>1. n + 1 \in 1..Len(nodeQueue')
        BY <1>7, <2>0, <2>2
      <4>2. \A k \in 1..Len(nodeQueue') : \A m \in Level :
              OnQueue(nodeQueue'[k][m]) = {p \in Oid : nodeSz'[k][p] > 0 /\ LevelOf(p) = m}
        BY <1>18 DEF NodeHoldsOnce, OnQueue
      <4>3. QED
        BY <2>2, <3>3, <4>1, <4>2
    <3>6. x \in OnQueue(Q[l]) /\ y \in OnQueue(Q[l])
      <4>1. CASE l = LevelOf(o)
        <5>1. \A p \in OnQueue(r) : (d.kind = "New" => p # o) => p \in OnQueue(Q[LevelOf(o)])
          BY <1>9, <1>14
        <5>2. QED
          BY <1>15, <3>4, <3>5, <4>1, <5>1
      <4>2. CASE l # LevelOf(o)
        BY <1>15, <3>5, <4>2
      <4>3. QED
        BY <4>1, <4>2
    <3>7. StandsBefore(Q[l], x, y)
      <4>1. i <= n /\ n \in 1..Len(nodeQueue) /\ i \in 1..Len(nodeQueue)
        BY <1>3, <1>8, <2>2
      <4>2. nodeSz[n][x] > 0 /\ nodeSz[n][y] > 0
        BY <1>5, <1>11, <3>6
      <4>3. QED
        BY <1>4, <3>1, <4>1, <4>2 DEF QueuesOK, OrderKept
    <3>8. CASE l = LevelOf(o)
      BY <1>14, <1>15, <2>2, <3>5, <3>6, <3>7, <3>8
    <3>9. CASE l # LevelOf(o)
      BY <1>15, <2>2, <3>7, <3>9
    <3>10. QED
      BY <3>8, <3>9
  <2>3. CASE i = n + 1
    <3>1. i = j
      BY <1>3, <2>0, <2>3
    <3>2. QED
      BY <3>1
  <2>4. /\ j \in 1..n \/ j = n + 1
        /\ i \in 1..n \/ i = n + 1
    BY <1>3, <2>0
  <2>5. QED
    BY <2>1, <2>2, <2>3, <2>4
<1>21. QED
  BY <1>17, <1>18, <1>19, <1>20 DEF QueuesOK

-----------------------------------------------------------------------------
(* The server's queues against the node's.                                 *)

\* Queue q has its orders in the order of the node's queue of level l after j - 1
\* diffs.
Agrees(q, l, j) ==
  \A x, y \in Oid : StandsBefore(q, x, y) => StandsBefore(nodeQueue[j][l], x, y)

\* They stay so as long as all of them rest.
LEMMA AgreesLater ==
  ASSUME QueuesOK, NEW q \in Seq(Oid), NEW l \in Level,
         NEW j \in 1..Len(nodeQueue), NEW k \in 1..Len(nodeQueue), j <= k, Agrees(q, l, j),
         \A x \in OnQueue(q) : nodeSz[k][x] > 0
  PROVE  Agrees(q, l, k)
<1> SUFFICES ASSUME NEW x \in Oid, NEW y \in Oid, StandsBefore(q, x, y)
             PROVE  StandsBefore(nodeQueue[k][l], x, y)
  BY DEF Agrees
<1>1. x \in OnQueue(q) /\ y \in OnQueue(q)
  BY DEF StandsBefore, OnQueue
<1>2. StandsBefore(nodeQueue[j][l], x, y)
  BY DEF Agrees
<1>3. nodeSz[k][x] > 0 /\ nodeSz[k][y] > 0
  BY <1>1
<1>4. QED
  BY <1>2, <1>3 DEF QueuesOK, OrderKept

\* An order whose New was diff i, spliced into a queue whose orders all rested
\* before it, stands there as it stands at the node, then and later.
LEMMA SpliceAgrees ==
  ASSUME NodeInv, QueuesOK, NEW q \in Seq(Oid), OnceEach(q), NEW o \in Oid, o \notin OnQueue(q),
         NEW i \in DOMAIN dlog, NewAt(o, i), NEW j \in 1..Len(nodeQueue), i < j, nodeSz[j][o] > 0,
         \A x \in OnQueue(q) : LevelOf(x) = LevelOf(o) /\ nodeSz[i][x] > 0 /\ nodeSz[j][x] > 0,
         Agrees(q, LevelOf(o), j),
         dlog[i].before = NoOid \/ dlog[i].before \in OnQueue(q)
  PROVE  Agrees(InsertAt(q, RestAt(q, dlog[i].before), o), LevelOf(o), j)
<1>1. PICK l : l = LevelOf(o)
  OBVIOUS
<1>2. PICK b : b = dlog[i].before
  OBVIOUS
<1>3. /\ DOMAIN dlog = 1..Len(dlog) /\ Len(dlog) \in Nat /\ Len(nodeQueue) = Len(dlog) + 1
      /\ Len(nodeSz) = Len(dlog) + 1 /\ l \in Level
      /\ \A k \in 1..(Len(dlog) + 1) : nodeQueue[k] \in [Level -> Seq(Oid)] /\ nodeSz[k] \in [Oid -> Nat]
  BY <1>1, NodeQueueTypes
<1>4. i \in 1..Len(nodeQueue) /\ i + 1 \in 1..Len(nodeQueue) /\ i \in 1..i /\ i <= i + 1 /\ i + 1 <= j /\ i <= j
  BY <1>3
<1>5. PICK A : A = nodeQueue[i][l]
  OBVIOUS
<1>6. PICK B : B = nodeQueue[i + 1][l]
  OBVIOUS
<1>7. PICK C : C = nodeQueue[j][l]
  OBVIOUS
<1>8. /\ A \in Seq(Oid) /\ B \in Seq(Oid) /\ C \in Seq(Oid)
      /\ OnceEach(A) /\ OnceEach(B) /\ OnceEach(C)
      /\ OnQueue(A) = {p \in Oid : nodeSz[i][p] > 0 /\ LevelOf(p) = l}
      /\ OnQueue(B) = {p \in Oid : nodeSz[i + 1][p] > 0 /\ LevelOf(p) = l}
      /\ OnQueue(C) = {p \in Oid : nodeSz[j][p] > 0 /\ LevelOf(p) = l}
  <2>1. A \in Seq(Oid) /\ B \in Seq(Oid) /\ C \in Seq(Oid)
    BY <1>3, <1>4, <1>5, <1>6, <1>7
  <2>2. OnceEach(A) /\ OnQueue(A) = {p \in Oid : nodeSz[i][p] > 0 /\ LevelOf(p) = l}
    BY <1>3, <1>4, <1>5 DEF QueuesOK, NodeHoldsOnce
  <2>3. OnceEach(B) /\ OnQueue(B) = {p \in Oid : nodeSz[i + 1][p] > 0 /\ LevelOf(p) = l}
    BY <1>3, <1>4, <1>6 DEF QueuesOK, NodeHoldsOnce
  <2>4. OnceEach(C) /\ OnQueue(C) = {p \in Oid : nodeSz[j][p] > 0 /\ LevelOf(p) = l}
    BY <1>3, <1>4, <1>7 DEF QueuesOK, NodeHoldsOnce
  <2>5. QED
    BY <2>1, <2>2, <2>3, <2>4
<1>9. nodeSz[i][o] = 0 /\ nodeSz[i + 1][o] > 0
  BY <1>4, NewRests
<1>10. o \notin OnQueue(A) /\ o \in OnQueue(B) /\ o \in OnQueue(C)
  BY <1>1, <1>8, <1>9
<1>11. B = InsertAt(A, RestAt(A, b), o)
  <2>1. nodeQueue[i + 1] = [nodeQueue[i] EXCEPT ![LevelOf(dlog[i].oid)] =
                              QueueAfter(nodeQueue[i][LevelOf(dlog[i].oid)], dlog[i])]
    BY DEF QueuesOK, QueueHistory
  <2>2. dlog[i].oid = o /\ dlog[i].kind = "New"
    BY DEF NewAt
  <2>3. nodeQueue[i] \in [Level -> Seq(Oid)]
    BY <1>3, <1>4
  <2>4. B = QueueAfter(A, dlog[i])
    BY <1>1, <1>3, <1>5, <1>6, <2>1, <2>2, <2>3
  <2>5. QED
    BY <1>2, <2>2, <2>4 DEF QueueAfter
<1>12. /\ OnQueue(B) = OnQueue(A) \cup {o}
       /\ \A x, y \in OnQueue(A) : StandsBefore(B, x, y) <=> StandsBefore(A, x, y)
       /\ \A x \in OnQueue(A) : StandsBefore(B, x, o) <=> (b \in OnQueue(A) => StandsBefore(A, x, b))
  BY <1>8, <1>10, <1>11, SpliceIs
<1>13. PICK r : r = InsertAt(q, RestAt(q, b), o)
  OBVIOUS
<1>14. /\ r \in Seq(Oid) /\ OnQueue(r) = OnQueue(q) \cup {o} /\ OnceEach(r)
       /\ \A x, y \in OnQueue(q) : StandsBefore(r, x, y) <=> StandsBefore(q, x, y)
       /\ \A x \in OnQueue(q) : StandsBefore(r, x, o) <=> (b \in OnQueue(q) => StandsBefore(q, x, b))
  BY <1>13, SpliceIs
<1>15. OnQueue(q) \subseteq Oid
  BY DEF OnQueue
<1>16. OnQueue(q) \subseteq OnQueue(A) /\ OnQueue(q) \subseteq OnQueue(C)
  BY <1>1, <1>8, <1>15
<1>17. \A x, y \in Oid : nodeSz[j][x] > 0 /\ nodeSz[j][y] > 0 =>
          /\ StandsBefore(A, x, y) => StandsBefore(C, x, y)
          /\ StandsBefore(B, x, y) => StandsBefore(C, x, y)
  BY <1>3, <1>4, <1>5, <1>6, <1>7 DEF QueuesOK, OrderKept
<1>18. \A x, y \in OnQueue(q) : StandsBefore(q, x, y) <=> StandsBefore(A, x, y)
  <2> SUFFICES ASSUME NEW x \in OnQueue(q), NEW y \in OnQueue(q)
               PROVE  StandsBefore(q, x, y) <=> StandsBefore(A, x, y)
    OBVIOUS
  <2>1. x \in Oid /\ y \in Oid /\ nodeSz[j][x] > 0 /\ nodeSz[j][y] > 0
    BY <1>15
  <2>2. /\ x # y => StandsBefore(q, x, y) \/ StandsBefore(q, y, x)
        /\ ~StandsBefore(q, x, x)
    BY QueueIsOrder
  <2>3. /\ x # y => StandsBefore(A, x, y) \/ StandsBefore(A, y, x)
        /\ ~StandsBefore(A, x, x)
    BY <1>8, <1>16, QueueIsOrder
  <2>4. ~(StandsBefore(C, x, y) /\ StandsBefore(C, y, x))
    BY <1>8, <1>16, QueueIsOrder
  <2>5. /\ StandsBefore(q, x, y) => StandsBefore(C, x, y)
        /\ StandsBefore(q, y, x) => StandsBefore(C, y, x)
    BY <1>1, <1>7, <2>1 DEF Agrees
  <2>6. /\ StandsBefore(A, x, y) => StandsBefore(C, x, y)
        /\ StandsBefore(A, y, x) => StandsBefore(C, y, x)
    BY <1>17, <2>1
  <2>7. QED
    BY <2>2, <2>3, <2>4, <2>5, <2>6
<1>19. \A x \in OnQueue(q) : StandsBefore(r, x, o) <=> StandsBefore(B, x, o)
  <2>1. CASE b \in OnQueue(q)
    BY <1>12, <1>14, <1>16, <1>18, <2>1
  <2>2. CASE b = NoOid
    <3>1. b \notin OnQueue(q) /\ b \notin OnQueue(A)
      BY <1>8, <1>15, <2>2, OrdersAssumption
    <3>2. QED
      BY <1>12, <1>14, <1>16, <3>1
  <2>3. QED
    BY <1>2, <2>1, <2>2
<1>20. ASSUME NEW x \in Oid, NEW y \in Oid, StandsBefore(r, x, y)
       PROVE  StandsBefore(C, x, y)
  <2>1. x \in OnQueue(r) /\ y \in OnQueue(r)
    BY <1>20 DEF StandsBefore, OnQueue
  <2>2. CASE x \in OnQueue(q) /\ y \in OnQueue(q)
    <3>1. StandsBefore(q, x, y)
      BY <1>14, <1>20, <2>2
    <3>2. QED
      BY <1>1, <1>7, <3>1 DEF Agrees
  <2>3. CASE x \in OnQueue(q) /\ y = o
    <3>1. StandsBefore(B, x, o)
      BY <1>19, <1>20, <2>3
    <3>2. QED
      BY <1>17, <2>3, <3>1
  <2>4. CASE x = o /\ y \in OnQueue(q)
    <3>1. ~StandsBefore(r, y, o)
      BY <1>14, <1>20, <2>1, <2>4, QueueIsOrder
    <3>2. ~StandsBefore(B, y, o)
      BY <1>19, <2>4, <3>1
    <3>3. y \in OnQueue(B) /\ y # o
      BY <1>12, <1>16, <2>4
    <3>4. StandsBefore(B, o, y)
      BY <1>8, <1>10, <3>2, <3>3, QueueIsOrder
    <3>5. QED
      BY <1>17, <2>4, <3>4
  <2>5. CASE x = o /\ y = o
    BY <1>14, <1>20, <2>1, <2>5, QueueIsOrder
  <2>6. QED
    BY <1>14, <2>1, <2>2, <2>3, <2>4, <2>5
<1>21. QED
  BY <1>1, <1>2, <1>7, <1>13, <1>20 DEF Agrees

\* An order added to a book with nothing to trade against joins its level's queue
\* in front of its anchor.
LEMMA AddSplices ==
  ASSUME BookTypeOK, NEW o \in Oid, NEW s \in Nat, s > 0, NEW b,
         Makers(o) = {}, sz[o] = 0, AddOrderBefore(o, s, b)
  PROVE  /\ sz' = [sz EXCEPT ![o] = s]
         /\ queue' = [queue EXCEPT ![LevelOf(o)] =
                        InsertAt(queue[LevelOf(o)], RestAt(queue[LevelOf(o)], b), o)]
         /\ insert_before_fallbacks' =
              (insert_before_fallbacks \/ AnchorMissing(queue[LevelOf(o)], b))
<1>1. sz \in [Oid -> Nat] /\ queue \in [Level -> Seq(Oid)] /\ LevelOf(o) \in Level
  BY DEF BookTypeOK, LevelOf, Level
<1>2. SzAfterMatch(o, s) = sz /\ Remaining(o, s) = s
  BY <1>1 DEF SzAfterMatch, Remaining
<1>3. QueueAfterMatch(o, s) = queue
  <2>1. ASSUME NEW l \in Level PROVE QueueAfterMatch(o, s)[l] = queue[l]
    <3>1. Cardinality({m \in Makers(o) : LevelOf(m) = l /\ Traded(o, s, m) = sz[m]}) = 0
      <4>1. {m \in Makers(o) : LevelOf(m) = l /\ Traded(o, s, m) = sz[m]} = {}
        OBVIOUS
      <4>2. QED
        BY <4>1, FS_EmptySet
    <3>2. QueueAfterMatch(o, s)[l] = SubSeq(queue[l], 1, Len(queue[l]))
      BY <3>1 DEF QueueAfterMatch
    <3>3. queue[l] \in Seq(Oid)
      BY <1>1
    <3>4. SubSeq(queue[l], 1, Len(queue[l])) = queue[l]
      BY <3>3
    <3>5. QED
      BY <3>2, <3>4
  <2>2. QueueAfterMatch(o, s) = [l \in Level |-> QueueAfterMatch(o, s)[l]]
    BY DEF QueueAfterMatch
  <2>3. QED
    BY <1>1, <2>1, <2>2
<1>4. sz' = [SzAfterMatch(o, s) EXCEPT ![o] = Remaining(o, s)]
  BY DEF AddOrderBefore
<1>5. queue' = [QueueAfterMatch(o, s) EXCEPT ![LevelOf(o)] =
                  InsertAt(QueueAfterMatch(o, s)[LevelOf(o)],
                           RestAt(QueueAfterMatch(o, s)[LevelOf(o)], b), o)]
  BY <1>2 DEF AddOrderBefore
<1>6. insert_before_fallbacks' =
        (insert_before_fallbacks \/ AnchorMissing(QueueAfterMatch(o, s)[LevelOf(o)], b))
  BY <1>2 DEF AddOrderBefore
<1>7. QED
  BY <1>2, <1>3, <1>4, <1>5, <1>6

\* Each order of the book is once in its level's queue and in no other.
BookHeld ==
  \A l \in Level : /\ OnQueue(queue[l]) = {o \in Oid : sz[o] > 0 /\ LevelOf(o) = l}
                   /\ OnceEach(queue[l])

LEMMA AddKeepsHeld ==
  ASSUME BookTypeOK, BookHeld, NEW o \in Oid, NEW s \in Nat, s > 0, NEW b, sz[o] = 0,
         sz' = [sz EXCEPT ![o] = s],
         queue' = [queue EXCEPT ![LevelOf(o)] =
                     InsertAt(queue[LevelOf(o)], RestAt(queue[LevelOf(o)], b), o)]
  PROVE  BookHeld'
<1>1. /\ sz \in [Oid -> Nat] /\ queue \in [Level -> Seq(Oid)] /\ LevelOf(o) \in Level
  BY DEF BookTypeOK, LevelOf, Level
<1>2. PICK q : q = queue[LevelOf(o)]
  OBVIOUS
<1>3. PICK r : r = InsertAt(q, RestAt(q, b), o)
  OBVIOUS
<1>4. /\ q \in Seq(Oid) /\ OnceEach(q)
      /\ OnQueue(q) = {p \in Oid : sz[p] > 0 /\ LevelOf(p) = LevelOf(o)}
  BY <1>1, <1>2 DEF BookHeld
<1>5. o \notin OnQueue(q)
  BY <1>4
<1>6. OnQueue(r) = OnQueue(q) \cup {o} /\ OnceEach(r)
  BY <1>3, <1>4, <1>5, SpliceIs
<1>7. queue'[LevelOf(o)] = r /\ \A l \in Level \ {LevelOf(o)} : queue'[l] = queue[l]
  BY <1>1, <1>2, <1>3
<1>8. sz'[o] = s /\ \A p \in Oid \ {o} : sz'[p] = sz[p]
  BY <1>1
<1> SUFFICES ASSUME NEW l \in Level
             PROVE  /\ OnQueue(queue'[l]) = {p \in Oid : sz'[p] > 0 /\ LevelOf(p) = l}
                    /\ OnceEach(queue'[l])
  BY DEF BookHeld, OnQueue, OnceEach
<1>9. CASE l = LevelOf(o)
  <2>1. OnQueue(r) = {p \in Oid : sz'[p] > 0 /\ LevelOf(p) = l}
    BY <1>4, <1>6, <1>8, <1>9
  <2>2. QED
    BY <1>6, <1>7, <1>9, <2>1
<1>10. CASE l # LevelOf(o)
  <2>1. {p \in Oid : sz'[p] > 0 /\ LevelOf(p) = l} = {p \in Oid : sz[p] > 0 /\ LevelOf(p) = l}
    BY <1>8, <1>10
  <2>2. QED
    BY <1>7, <1>10, <2>1 DEF BookHeld
<1>11. QED
  BY <1>9, <1>10

\* No order passes another when one is taken out.
NoneOvertakes == \A l \in Level : \A x, y \in Oid : StandsBefore(queue'[l], x, y) => StandsBefore(queue[l], x, y)

LEMMA CancelKeepsHeld ==
  ASSUME BookTypeOK, BookHeld, NEW o \in Oid, sz[o] > 0, CancelOrder(o)
  PROVE  BookHeld' /\ NoneOvertakes
<1>1. /\ sz \in [Oid -> Nat] /\ queue \in [Level -> Seq(Oid)] /\ LevelOf(o) \in Level
  BY DEF BookTypeOK, LevelOf, Level
<1>2. PICK q : q = queue[LevelOf(o)]
  OBVIOUS
<1>3. PICK at : at = PosIn(q, o)
  OBVIOUS
<1>4. PICK r : r = DeleteAt(q, at)
  OBVIOUS
<1>5. /\ q \in Seq(Oid) /\ OnceEach(q)
      /\ OnQueue(q) = {p \in Oid : sz[p] > 0 /\ LevelOf(p) = LevelOf(o)}
  BY <1>1, <1>2 DEF BookHeld
<1>6. at \in 1..Len(q) /\ q[at] = o
  BY <1>3, <1>5, PosInIs
<1>7. /\ OnQueue(r) = OnQueue(q) \ {o} /\ OnceEach(r)
      /\ \A x, y \in OnQueue(q) \ {o} : StandsBefore(r, x, y) <=> StandsBefore(q, x, y)
  BY <1>4, <1>5, <1>6, DeleteKeepsOrder
<1>8. sz' = [sz EXCEPT ![o] = 0] /\ queue' = [queue EXCEPT ![LevelOf(o)] = r]
  BY <1>2, <1>3, <1>4 DEF CancelOrder
<1>9. queue'[LevelOf(o)] = r /\ \A l \in Level \ {LevelOf(o)} : queue'[l] = queue[l]
  BY <1>1, <1>8
<1>10. sz'[o] = 0 /\ \A p \in Oid \ {o} : sz'[p] = sz[p]
  BY <1>1, <1>8
<1>11. BookHeld'
  <2> SUFFICES ASSUME NEW l \in Level
               PROVE  /\ OnQueue(queue'[l]) = {p \in Oid : sz'[p] > 0 /\ LevelOf(p) = l}
                      /\ OnceEach(queue'[l])
    BY DEF BookHeld, OnQueue, OnceEach
  <2>1. CASE l = LevelOf(o)
    <3>1. OnQueue(r) = {p \in Oid : sz'[p] > 0 /\ LevelOf(p) = l}
      BY <1>5, <1>7, <1>10, <2>1
    <3>2. QED
      BY <1>7, <1>9, <2>1, <3>1
  <2>2. CASE l # LevelOf(o)
    <3>1. {p \in Oid : sz'[p] > 0 /\ LevelOf(p) = l} = {p \in Oid : sz[p] > 0 /\ LevelOf(p) = l}
      BY <1>10, <2>2
    <3>2. QED
      BY <1>9, <2>2, <3>1 DEF BookHeld
  <2>3. QED
    BY <2>1, <2>2
<1>12. NoneOvertakes
  <2> SUFFICES ASSUME NEW l \in Level, NEW x \in Oid, NEW y \in Oid, StandsBefore(queue'[l], x, y)
               PROVE  StandsBefore(queue[l], x, y)
    BY DEF NoneOvertakes
  <2>1. CASE l = LevelOf(o)
    <3>1. StandsBefore(r, x, y)
      BY <1>9, <2>1
    <3>2. x \in OnQueue(r) /\ y \in OnQueue(r)
      BY <3>1 DEF StandsBefore, OnQueue
    <3>3. QED
      BY <1>2, <1>7, <2>1, <3>1, <3>2
  <2>2. CASE l # LevelOf(o)
    BY <1>9, <2>2
  <2>3. QED
    BY <2>1, <2>2
<1>13. QED
  BY <1>11, <1>12

\* What waits for its status came after what is in the book.
NewsWaitTheirTurn ==
  aged = {} =>
    \A w \in Oid \ (Protocol \cup Triggers), x \in Oid \ Triggers :
       WaitingNew(w) /\ sz[x] > 0 => nodeSz[pending_new_diffs[w].at][x] > 0

\* A level without stop orders.
Plain(l) == \A o \in Triggers : LevelOf(o) # l

BookInOrder == Undisturbed => \A l \in Level : Plain(l) => Agrees(queue[l], l, dpos + 1)

ServerQueues == BookHeld /\ NewsWaitTheirTurn /\ BookInOrder

QueueInv ==
  /\ PairingInv
  /\ QueuesOK
  /\ Trusted => ServerQueues

\* What the steps below start from, and what each leaves behind.
LEMMA QueueStart ==
  ASSUME QueueInv, Trusted
  PROVE  /\ NodeInv /\ QueuesOK /\ BookTypeOK /\ BookHeld /\ NewsWaitTheirTurn /\ BookInOrder
         /\ dlog \in Seq(Diff) /\ Len(dlog) \in Nat /\ dpos \in 0..Len(dlog) /\ dpos \in Nat
         /\ Len(nodeQueue) = Len(dlog) + 1 /\ Len(nodeSz) = Len(dlog) + 1
         /\ sz \in [Oid -> Nat] /\ queue \in [Level -> Seq(Oid)]
         /\ pending_new_diffs \in [Oid -> PendingNew]
         /\ \A o \in Oid : LevelOf(o) \in Level /\ OrderOK(o) /\ Paired(o)
         /\ \A x \in Oid : sz[x] > 0 => nodeSz[dpos + 1][x] > 0
<1>1. PairingInv /\ NodeInv
  BY ServerStart DEF QueueInv
<1>2. /\ dlog \in Seq(Diff) /\ Len(dlog) \in Nat /\ dpos \in 0..Len(dlog) /\ dpos \in Nat
      /\ BookTypeOK /\ \A o \in Oid : OrderOK(o) /\ Paired(o)
  BY <1>1, ServerStart
<1>3. /\ Len(nodeQueue) = Len(dlog) + 1 /\ Len(nodeSz) = Len(dlog) + 1
      /\ \A o \in Oid : LevelOf(o) \in Level
  BY <1>1, NodeQueueTypes
<1>4. \A x \in Oid : sz[x] > 0 => nodeSz[dpos + 1][x] > 0
  BY <1>2 DEF OrderOK, Applied
<1>5. QED
  BY <1>1, <1>2, <1>3, <1>4 DEF QueueInv, ServerQueues, BookTypeOK

\* A step of the server that adds nothing to the book.
LEMMA NothingAdded ==
  ASSUME QueueInv, PairingInv', Trusted, Trusted', UNCHANGED nodeVars, dpos' \in Nat, dpos <= dpos',
         BookHeld', NoneOvertakes, insert_before_fallbacks' = insert_before_fallbacks,
         aged \subseteq aged',
         \A x \in Oid : sz'[x] > 0 => sz[x] > 0,
         \A w \in Oid : WaitingNew(w)' => \/ /\ WaitingNew(w)
                                             /\ pending_new_diffs'[w].at = pending_new_diffs[w].at
                                          \/ pending_new_diffs'[w].at = dpos + 1
  PROVE  ServerQueues'
<1>1. /\ BookHeld /\ NewsWaitTheirTurn /\ BookInOrder /\ QueuesOK /\ dpos \in Nat
      /\ Len(nodeQueue) = Len(dlog) + 1 /\ Len(nodeSz) = Len(dlog) + 1 /\ Len(dlog) \in Nat
      /\ queue \in [Level -> Seq(Oid)] /\ dpos \in 0..Len(dlog)
      /\ \A x \in Oid : sz[x] > 0 => nodeSz[dpos + 1][x] > 0
  BY QueueStart
<1>2. nodeSz' = nodeSz /\ nodeQueue' = nodeQueue /\ dlog' = dlog
  BY DEF nodeVars
<1>3. /\ dpos' \in 0..Len(dlog)
      /\ queue' \in [Level -> Seq(Oid)]
      /\ \A x \in Oid : sz'[x] > 0 => nodeSz[dpos' + 1][x] > 0
  <2>1. ControlTypeOK'
    BY DEF PairingInv, IInv
  <2>2. dpos' \in 0..Len(dlog')
    BY <2>1 DEF ControlTypeOK
  <2>3. BookTypeOK' /\ \A o \in Oid : OrderOK(o)'
    BY DEF PairingInv, IInv
  <2>4. \A x \in Oid : sz'[x] > 0 => Applied'[x] > 0
    <3>1. \A x \in Oid : sz'[x] > 0 => sz'[x] = Applied'[x]
      BY <2>3 DEF OrderOK
    <3>2. QED
      BY <3>1
  <2>5. Applied' = nodeSz[dpos' + 1]
    BY <1>2 DEF Applied
  <2>6. QED
    BY <1>2, <2>2, <2>3, <2>4, <2>5 DEF BookTypeOK
<1>4. NewsWaitTheirTurn'
  <2> SUFFICES ASSUME aged' = {}, NEW w \in Oid \ (Protocol \cup Triggers), NEW x \in Oid \ Triggers,
                      WaitingNew(w)', sz'[x] > 0
               PROVE  nodeSz[pending_new_diffs'[w].at][x] > 0
    BY <1>2 DEF NewsWaitTheirTurn
  <2>1. sz[x] > 0 /\ aged = {}
    OBVIOUS
  <2>2. CASE WaitingNew(w) /\ pending_new_diffs'[w].at = pending_new_diffs[w].at
    BY <1>1, <2>1, <2>2 DEF NewsWaitTheirTurn
  <2>3. CASE pending_new_diffs'[w].at = dpos + 1
    BY <1>1, <2>1, <2>3
  <2>4. QED
    BY <2>2, <2>3
<1>5. BookInOrder'
  <2> SUFFICES ASSUME Undisturbed', NEW l \in Level, Plain(l)
               PROVE  \A x, y \in Oid : StandsBefore(queue'[l], x, y)
                                          => StandsBefore(nodeQueue[dpos' + 1][l], x, y)
    BY <1>2 DEF BookInOrder, Agrees, Plain, StandsBefore
  <2>1. Undisturbed
    BY DEF Undisturbed
  <2>2. Agrees(queue[l], l, dpos + 1)
    BY <1>1, <2>1 DEF BookInOrder
  <2>3. PICK r : r = queue'[l]
    OBVIOUS
  <2>4. r \in Seq(Oid) /\ Agrees(r, l, dpos + 1)
    BY <1>3, <2>2, <2>3 DEF Agrees, NoneOvertakes
  <2>5. \A x \in OnQueue(r) : nodeSz[dpos' + 1][x] > 0
    <3>1. OnQueue(r) = {p \in Oid : sz'[p] > 0 /\ LevelOf(p) = l}
      BY <2>3 DEF BookHeld, OnQueue
    <3>2. QED
      BY <1>3, <3>1
  <2>6. dpos + 1 \in 1..Len(nodeQueue) /\ dpos' + 1 \in 1..Len(nodeQueue) /\ dpos + 1 <= dpos' + 1
    BY <1>1, <1>3
  <2>7. Agrees(r, l, dpos' + 1)
    BY <1>1, <2>4, <2>5, <2>6, AgreesLater
  <2>8. QED
    BY <2>3, <2>7 DEF Agrees
<1>6. QED
  BY <1>4, <1>5 DEF ServerQueues

\* An order joins the book; its New was diff i.
Joins(o, s, i) ==
  /\ sz[o] = 0
  /\ sz' = [sz EXCEPT ![o] = s]
  /\ queue' = [queue EXCEPT ![LevelOf(o)] =
                 InsertAt(queue[LevelOf(o)], RestAt(queue[LevelOf(o)], dlog[i].before), o)]
  /\ insert_before_fallbacks' =
       (insert_before_fallbacks \/ AnchorMissing(queue[LevelOf(o)], dlog[i].before))

\* The book's orders came before diff i, and what waits on after it.
InTurn(o, i) ==
  aged = {} /\ o \notin Triggers =>
    /\ \A x \in Oid \ Triggers : sz[x] > 0 => nodeSz[i][x] > 0
    /\ \A w \in Oid \ (Protocol \cup Triggers) : WaitingNew(w)' => pending_new_diffs'[w].at > i

ReadsTo(e) == dpos' = e /\ dpos <= e

NoneWaitsAnew ==
  \A w \in Oid : WaitingNew(w)' => WaitingNew(w) /\ pending_new_diffs'[w].at = pending_new_diffs[w].at

LEMMA OneAdded ==
  ASSUME QueueInv, PairingInv', Trusted, Trusted', UNCHANGED nodeVars, NEW e \in Nat, ReadsTo(e),
         NEW o \in Oid, NEW s \in Nat, s > 0, NEW i \in DOMAIN dlog, NewAt(o, i), i <= e,
         Joins(o, s, i), InTurn(o, i), NoneWaitsAnew, aged' = aged
  PROVE  ServerQueues'
<1>1. /\ BookHeld /\ NewsWaitTheirTurn /\ BookInOrder /\ QueuesOK /\ NodeInv /\ BookTypeOK
      /\ dpos \in Nat /\ Len(nodeQueue) = Len(dlog) + 1 /\ Len(nodeSz) = Len(dlog) + 1 /\ Len(dlog) \in Nat
      /\ queue \in [Level -> Seq(Oid)] /\ dpos \in 0..Len(dlog) /\ dlog \in Seq(Diff)
      /\ sz \in [Oid -> Nat] /\ LevelOf(o) \in Level
      /\ \A x \in Oid : sz[x] > 0 => nodeSz[dpos + 1][x] > 0
      /\ \A w \in Oid : Paired(w)
  BY QueueStart
<1>2. nodeSz' = nodeSz /\ nodeQueue' = nodeQueue /\ dlog' = dlog
  BY DEF nodeVars
<1>3. /\ e \in 0..Len(dlog) /\ dpos <= e /\ e + 1 \in 1..Len(nodeQueue)
      /\ \A x \in Oid : sz'[x] > 0 => nodeSz[e + 1][x] > 0
  <2>1. ControlTypeOK'
    BY DEF PairingInv, IInv
  <2>2. e \in 0..Len(dlog)
    BY <1>2, <2>1 DEF ControlTypeOK, ReadsTo
  <2>3. \A p \in Oid : OrderOK(p)'
    BY DEF PairingInv, IInv
  <2>4. \A x \in Oid : sz'[x] > 0 => Applied'[x] > 0
    <3>1. \A x \in Oid : sz'[x] > 0 => sz'[x] = Applied'[x]
      BY <2>3 DEF OrderOK
    <3>2. QED
      BY <3>1
  <2>5. Applied' = nodeSz[e + 1]
    BY <1>2 DEF Applied, ReadsTo
  <2>6. e + 1 \in 1..(Len(dlog) + 1)
    BY <1>1, <2>2
  <2>7. QED
    BY <1>1, <2>2, <2>4, <2>5, <2>6 DEF ReadsTo
<1>4. sz'[o] = s /\ \A p \in Oid \ {o} : sz'[p] = sz[p]
  BY <1>1 DEF Joins
<1>5. BookHeld'
  BY <1>1, AddKeepsHeld DEF Joins
<1>6. i \in 1..Len(dlog) /\ i \in Nat
  BY <1>1
<1>7. NewsWaitTheirTurn'
  <2> SUFFICES ASSUME aged = {}, NEW w \in Oid \ (Protocol \cup Triggers), NEW x \in Oid \ Triggers,
                      WaitingNew(w)', sz'[x] > 0
               PROVE  nodeSz[pending_new_diffs'[w].at][x] > 0
    BY <1>2 DEF NewsWaitTheirTurn
  <2>1. WaitingNew(w) /\ pending_new_diffs'[w].at = pending_new_diffs[w].at
    BY DEF NoneWaitsAnew
  <2>2. CASE x # o
    BY <1>1, <1>4, <2>1, <2>2 DEF NewsWaitTheirTurn
  <2>3. CASE x = o
    <3>1. PICK m : m = pending_new_diffs[w].at
      OBVIOUS
    <3>2. m \in 1..dpos /\ NewAt(w, m) /\ m > i
      <4>1. m \in 1..dpos /\ NewAt(w, m)
        BY <1>1, <2>1, <3>1 DEF Paired
      <4>2. pending_new_diffs'[w].at > i
        BY <2>3 DEF InTurn
      <4>3. QED
        BY <2>1, <3>1, <4>1, <4>2
    <3>3. nodeSz[m][o] > 0
      <4>1. m \in 1..Len(nodeSz) /\ e + 1 \in 1..Len(nodeSz) /\ m < e + 1 /\ m \in Nat
        BY <1>1, <1>3, <3>2
      <4>2. nodeSz[e + 1][o] > 0
        BY <1>3, <1>4
      <4>3. ASSUME nodeSz[m][o] = 0 PROVE FALSE
        <5>1. PICK k \in m..((e + 1) - 1) : NewAt(o, k)
          BY <1>1, <4>1, <4>2, <4>3 DEF QueuesOK, RestsByNew
        <5>2. k \in DOMAIN dlog /\ k > i
          BY <1>1, <1>3, <1>6, <3>2, <4>1
        <5>3. k = i
          BY <1>1, <5>1, <5>2, NewRests
        <5>4. QED
          BY <1>6, <5>2, <5>3
      <4>4. nodeSz[m] \in [Oid -> Nat]
        BY <1>1, <4>1, NodeQueueTypes
      <4>5. QED
        BY <4>3, <4>4
    <3>4. QED
      BY <2>1, <2>3, <3>1, <3>3
  <2>4. QED
    BY <2>2, <2>3
<1>8. BookInOrder'
  <2> SUFFICES ASSUME Undisturbed', NEW l \in Level, Plain(l)
               PROVE  \A x, y \in Oid : StandsBefore(queue'[l], x, y)
                                          => StandsBefore(nodeQueue[e + 1][l], x, y)
    BY <1>2 DEF BookInOrder, Agrees, Plain, StandsBefore, ReadsTo
  <2>1. Undisturbed /\ aged = {} /\ ~AnchorMissing(queue[LevelOf(o)], dlog[i].before)
    BY DEF Undisturbed, Joins
  <2>2. PICK q : q = queue[l]
    OBVIOUS
  <2>3. /\ q \in Seq(Oid) /\ OnceEach(q) /\ Agrees(q, l, dpos + 1)
        /\ OnQueue(q) = {p \in Oid : sz[p] > 0 /\ LevelOf(p) = l}
    BY <1>1, <2>1, <2>2 DEF BookInOrder, BookHeld
  <2>4. o \notin OnQueue(q) /\ \A p \in OnQueue(q) : p \in Oid \ Triggers
    <3>1. o \notin OnQueue(q)
      BY <2>3 DEF Joins
    <3>2. ASSUME NEW p \in OnQueue(q) PROVE p \in Oid \ Triggers
      BY <2>3, NodeAssumption DEF Plain
    <3>3. QED
      BY <3>1, <3>2
  <2>5. \A x \in OnQueue(q) : nodeSz[e + 1][x] > 0
    BY <1>3, <1>4, <2>3, <2>4
  <2>6. dpos + 1 \in 1..Len(nodeQueue) /\ e + 1 \in 1..Len(nodeQueue) /\ dpos + 1 <= e + 1
        /\ i < e + 1
    BY <1>1, <1>3, <1>6
  <2>7. Agrees(q, l, e + 1)
    BY <1>1, <2>3, <2>5, <2>6, AgreesLater
  <2>8. CASE l # LevelOf(o)
    <3>1. queue'[l] = q
      BY <1>1, <2>2, <2>8 DEF Joins
    <3>2. QED
      BY <2>7, <3>1 DEF Agrees
  <2>9. CASE l = LevelOf(o)
    <3>1. o \notin Triggers
      BY <2>9 DEF Plain
    <3>2. \A x \in OnQueue(q) : LevelOf(x) = LevelOf(o) /\ nodeSz[i][x] > 0 /\ nodeSz[e + 1][x] > 0
      <4>1. \A x \in Oid \ Triggers : sz[x] > 0 => nodeSz[i][x] > 0
        BY <2>1, <3>1 DEF InTurn
      <4>2. QED
        BY <2>3, <2>4, <2>5, <2>9, <4>1
    <3>3. dlog[i].before = NoOid \/ dlog[i].before \in OnQueue(q)
      BY <2>1, <2>2, <2>3, <2>9, PosInIs DEF AnchorMissing
    <3>4. nodeSz[e + 1][o] > 0
      BY <1>3, <1>4
    <3>5. PICK r : r = InsertAt(q, RestAt(q, dlog[i].before), o)
      OBVIOUS
    <3>6. Agrees(r, LevelOf(o), e + 1)
      BY <1>1, <2>3, <2>4, <2>6, <2>7, <2>9, <3>2, <3>3, <3>4, <3>5, SpliceAgrees
    <3>7. queue'[l] = r
      BY <1>1, <2>2, <2>9, <3>5 DEF Joins
    <3>8. QED
      BY <2>9, <3>6, <3>7 DEF Agrees
  <2>10. QED
    BY <2>8, <2>9
<1>9. QED
  BY <1>5, <1>7, <1>8 DEF ServerQueues

\* A status of an order that was read when another order's New waits: that New is
\* the later one.
LEMMA ReadFirst ==
  ASSUME QueueInv, Trusted, aged = {}, NEW o \in Oid, NEW i \in DOMAIN dlog, NewAt(o, i),
         NEW m \in DOMAIN slog, OpenedAt(o, m), m <= spos + 1,
         NEW w \in Oid \ Protocol, w # o, WaitingNew(w)
  PROVE  pending_new_diffs[w].at > i
<1>1. /\ FilesAgree /\ Paired(w) /\ spos \in Nat /\ dpos \in Nat /\ dpos \in 0..Len(dlog)
      /\ dlog \in Seq(Diff) /\ slog \in Seq(Status) /\ Len(dlog) \in Nat
  BY ServerStart DEF QueueInv, PairingInv
<1>2. PICK k : k = pending_new_diffs[w].at
  OBVIOUS
<1>3. k \in 1..dpos /\ NewAt(w, k) /\ ~StatusRead(w)
  BY <1>1, <1>2 DEF Paired
<1>4. k \in DOMAIN dlog /\ k \in Nat /\ i \in Nat /\ m \in Nat
  BY <1>1, <1>3
<1>5. k # i
  BY <1>3 DEF NewAt
<1>6. ASSUME k < i PROVE FALSE
  <2>1. PICK n \in DOMAIN slog : n < m /\ OpenedAt(w, n)
    BY <1>1, <1>3, <1>4, <1>6 DEF FilesAgree, SameOrder
  <2>2. n \in 1..spos
    BY <1>1, <1>4, <2>1
  <2>3. QED
    BY <1>3, <2>1, <2>2, StatusReadIs
<1>7. QED
  BY <1>2, <1>4, <1>5, <1>6

\* apply_order_diffs_hft, a New.
LEMMA NewKeepsQueues ==
  ASSUME QueueInv, PairingInv', ApplyNew, Trusted'
  PROVE  ServerQueues'
<1>1. ReadDiff("New") /\ loss' = loss /\ UNCHANGED ready
  BY DEF ApplyNew, ReadDiff
<1>2. Trusted /\ IInv /\ FilesAgree
  BY <1>1 DEF Trusted, QueueInv, PairingInv
<1>3. PICK o : o = NextDiff.oid
  OBVIOUS
<1>4. PICK i : i = dpos + 1
  OBVIOUS
<1>5. PICK s : s = NextDiff.sz
  OBVIOUS
<1>6. /\ UNCHANGED nodeVars /\ dpos' = i /\ NextDiff.kind = "New" /\ UNCHANGED aged
      /\ dpos \in Nat /\ NextDiff \in Diff /\ o \in Oid /\ s \in Nat
  BY <1>1, <1>2, <1>3, <1>4, <1>5, DiffRead
<1>7. /\ NodeInv /\ BookTypeOK /\ BookHeld /\ dpos < Len(dlog) /\ dpos \in 0..Len(dlog)
      /\ dlog \in Seq(Diff) /\ Len(dlog) \in Nat
      /\ sz \in [Oid -> Nat] /\ pending_new_diffs \in [Oid -> PendingNew]
      /\ \A p \in Oid : OrderOK(p) /\ Paired(p)
      /\ \A x \in Oid : sz[x] > 0 => nodeSz[dpos + 1][x] > 0
  BY <1>1, <1>2, QueueStart DEF ReadDiff
<1>8. i \in Nat /\ i \in DOMAIN dlog /\ dpos <= i /\ NewAt(o, i) /\ dlog[i] = NextDiff
  BY <1>3, <1>4, <1>6, <1>7 DEF NewAt, NextDiff
<1>9. nodeSz[i + 1][o] > 0 /\ nodeSz[i][o] = 0 /\ s > 0 /\ i + 1 \in 1..Len(nodeSz)
      /\ nodeSz[i + 1] = After(nodeSz[i], dlog[i])
  <2>1. i \in 1..Len(dlog) /\ Len(nodeSz) = Len(dlog) + 1
    BY <1>7, <1>8, NodeQueueTypes
  <2>2. i \in 1..i /\ i + 1 \in 1..Len(nodeSz)
    BY <1>8, <2>1
  <2>3. dlog[i].sz > 0 /\ nodeSz[i + 1] = After(nodeSz[i], dlog[i])
    BY <1>6, <1>7, <1>8, <2>1 DEF NodeInv, DiffsOK, HistoryOK
  <2>4. nodeSz[i + 1][o] > 0 /\ nodeSz[i][o] = 0
    BY <1>6, <1>7, <1>8, <2>2, NewRests
  <2>5. QED
    BY <1>5, <1>8, <2>2, <2>3, <2>4
<1>10. CASE WaitingStatus(o) /\ AddOrderBefore(o, s, NextDiff.before) /\ UNCHANGED pending_new_diffs
  <2>1. sz[o] = 0
    <3>1. ~(sz[o] > 0)
      BY <1>4, <1>6, <1>7, <1>9
    <3>2. QED
      BY <1>6, <1>7, <3>1
  <2>2. Makers(o) = {}
    <3>1. \A m \in Oid : sz[m] > 0 => nodeSz[i + 1][m] > 0
      <4> SUFFICES ASSUME NEW m \in Oid, sz[m] > 0 PROVE nodeSz[i + 1][m] > 0
        OBVIOUS
      <4>1. m # o /\ nodeSz[i][m] > 0
        BY <1>4, <1>7, <2>1
      <4>2. i \in 1..(Len(dlog) + 1) /\ dlog[i].oid = o
        BY <1>3, <1>7, <1>8
      <4>3. nodeSz[i] \in [Oid -> Nat]
        BY <1>7, <4>2, NodeQueueTypes
      <4>4. PICK f \in [Oid -> Nat] : f = nodeSz[i]
        BY <4>3
      <4>5. nodeSz[i + 1] = [f EXCEPT ![o] = dlog[i].sz]
        BY <1>9, <4>2, <4>4 DEF After
      <4>6. nodeSz[i + 1][m] = f[m]
        BY <4>1, <4>5
      <4>7. QED
        BY <4>1, <4>4, <4>6
    <3>2. QED
      BY <1>6, <1>7, <1>9, <3>1, NothingToMatch
  <2>3. Joins(o, s, i)
    BY <1>6, <1>7, <1>8, <1>9, <1>10, <2>1, <2>2, AddSplices DEF Joins
  <2>4. NoneWaitsAnew
    BY <1>10 DEF NoneWaitsAnew, WaitingNew
  <2>5. InTurn(o, i)
    <3> SUFFICES ASSUME aged = {}
                 PROVE  /\ \A x \in Oid \ Triggers : sz[x] > 0 => nodeSz[i][x] > 0
                        /\ \A w \in Oid \ (Protocol \cup Triggers) :
                             WaitingNew(w)' => pending_new_diffs'[w].at > i
      BY DEF InTurn
    <3>1. \A x \in Oid \ Triggers : sz[x] > 0 => nodeSz[i][x] > 0
      BY <1>4, <1>7
    <3>2. ASSUME NEW w \in Oid \ (Protocol \cup Triggers), WaitingNew(w)' PROVE pending_new_diffs'[w].at > i
      <4>1. pending_new_diffs'[w] = pending_new_diffs[w] /\ WaitingNew(w)
        BY <1>10, <3>2 DEF WaitingNew
      <4>2. w # o
        <5>1. WaitingNew(w) => nodeSz[i][w] > 0
          BY <1>4, <1>7 DEF OrderOK, Applied
        <5>2. nodeSz[i][w] > 0
          BY <4>1, <5>1
        <5>3. QED
          BY <1>9, <5>2
      <4>3. StatusRead(o)
        BY <1>6, <1>7, <1>10 DEF Paired
      <4>4. PICK m \in 1..spos : OpenedAt(o, m)
        BY <1>6, <4>3, StatusReadIs
      <4>5. m \in DOMAIN slog /\ m <= spos + 1
        BY ServerStart DEF QueueInv
      <4>6. pending_new_diffs[w].at > i
        BY <1>2, <1>6, <1>8, <4>1, <4>2, <4>4, <4>5, ReadFirst
      <4>7. QED
        BY <4>1, <4>6
    <3>3. QED
      BY <3>1, <3>2
  <2>6. ReadsTo(i)
    BY <1>6, <1>8 DEF ReadsTo
  <2>7. QED
    BY <1>2, <1>6, <1>8, <1>9, <2>3, <2>4, <2>5, <2>6, OneAdded
<1>11. CASE /\ pending_new_diffs' =
                 [pending_new_diffs EXCEPT ![o] = [sz |-> s, before |-> NextDiff.before, at |-> dpos + 1]]
            /\ UNCHANGED bookVars
  <2>1. sz' = sz /\ queue' = queue /\ insert_before_fallbacks' = insert_before_fallbacks
    BY <1>11 DEF bookVars
  <2>2. BookHeld' /\ NoneOvertakes
    BY <1>7, <2>1 DEF BookHeld, NoneOvertakes
  <2>3. \A w \in Oid : WaitingNew(w)' => \/ WaitingNew(w) /\ pending_new_diffs'[w].at = pending_new_diffs[w].at
                                         \/ pending_new_diffs'[w].at = dpos + 1
    BY <1>6, <1>7, <1>11 DEF WaitingNew
  <2>4. dpos' \in Nat /\ dpos <= dpos' /\ aged \subseteq aged'
    BY <1>6, <1>8
  <2>5. QED
    BY <1>2, <1>6, <2>1, <2>2, <2>3, <2>4, NothingAdded
<1>12. QED
  BY <1>3, <1>5, <1>10, <1>11 DEF ApplyNew

\* apply_order_diffs_hft, an Update or a Remove.
LEMMA OtherDiffsKeepQueues ==
  ASSUME QueueInv, PairingInv', ApplyUpdate \/ ApplyRemove, Trusted'
  PROVE  ServerQueues'
<1>1. PICK o : o = NextDiff.oid
  OBVIOUS
<1>2. /\ loss' = loss /\ UNCHANGED ready
      /\ ReadDiff("Update") \/ ReadDiff("Remove")
      /\ \/ UNCHANGED pending_new_diffs
         \/ \E s : apply_diff_to_pending_new(o, s)
      /\ \/ sz[o] > 0 /\ CancelOrder(o)
         \/ \E s : s > 0 /\ sz[o] > 0 /\ sz' = [sz EXCEPT ![o] = s] /\ UNCHANGED <<queue, insert_before_fallbacks>>
         \/ UNCHANGED bookVars
  BY <1>1 DEF ApplyUpdate, ApplyRemove, ReadDiff, ModifySz
<1>3. Trusted /\ IInv
  BY <1>2 DEF Trusted, QueueInv, PairingInv
<1>4. UNCHANGED nodeVars /\ dpos' = dpos + 1 /\ UNCHANGED aged /\ dpos \in Nat /\ o \in Oid
  BY <1>1, <1>2, <1>3, DiffRead
<1>5. /\ BookTypeOK /\ BookHeld /\ sz \in [Oid -> Nat] /\ pending_new_diffs \in [Oid -> PendingNew]
  BY <1>3, QueueStart
<1>6. /\ BookHeld' /\ NoneOvertakes /\ insert_before_fallbacks' = insert_before_fallbacks
      /\ \A x \in Oid : sz'[x] > 0 => sz[x] > 0
  <2>1. CASE sz[o] > 0 /\ CancelOrder(o)
    <3>1. sz' = [sz EXCEPT ![o] = 0] /\ insert_before_fallbacks' = insert_before_fallbacks
      BY <2>1 DEF CancelOrder
    <3>2. QED
      BY <1>4, <1>5, <2>1, <3>1, CancelKeepsHeld
  <2>2. ASSUME NEW s, s > 0, sz[o] > 0, sz' = [sz EXCEPT ![o] = s],
               UNCHANGED <<queue, insert_before_fallbacks>>
        PROVE  /\ BookHeld' /\ NoneOvertakes /\ insert_before_fallbacks' = insert_before_fallbacks
               /\ \A x \in Oid : sz'[x] > 0 => sz[x] > 0
    <3>1. \A x \in Oid : sz'[x] > 0 <=> sz[x] > 0
      BY <1>4, <1>5, <2>2
    <3>2. queue' = queue
      BY <2>2
    <3>3. BookHeld'
      BY <1>5, <3>1, <3>2 DEF BookHeld, OnQueue, OnceEach
    <3>4. QED
      BY <2>2, <3>1, <3>2, <3>3 DEF NoneOvertakes
  <2>3. CASE UNCHANGED bookVars
    BY <1>5, <2>3 DEF bookVars, BookHeld, NoneOvertakes
  <2>4. QED
    BY <1>2, <2>1, <2>2, <2>3
<1>7. \A w \in Oid : WaitingNew(w)' => WaitingNew(w) /\ pending_new_diffs'[w].at = pending_new_diffs[w].at
  <2>1. CASE UNCHANGED pending_new_diffs
    BY <2>1 DEF WaitingNew
  <2>2. ASSUME NEW s, apply_diff_to_pending_new(o, s), NEW w \in Oid, WaitingNew(w)'
        PROVE  WaitingNew(w) /\ pending_new_diffs'[w].at = pending_new_diffs[w].at
    <3>1. CASE w # o
      <4>1. pending_new_diffs'[w] = pending_new_diffs[w]
        BY <1>4, <1>5, <2>2, <3>1 DEF apply_diff_to_pending_new
      <4>2. QED
        BY <2>2, <4>1 DEF WaitingNew
    <3>2. CASE w = o
      <4>1. \/ pending_new_diffs'[o] = pending_new_diffs[o]
            \/ pending_new_diffs'[o] = [pending_new_diffs[o] EXCEPT !.sz = s]
            \/ pending_new_diffs'[o] = NoNew
        BY <1>4, <1>5, <2>2 DEF apply_diff_to_pending_new
      <4>2. pending_new_diffs[o] \in PendingNew
        BY <1>4, <1>5
      <4>3. [pending_new_diffs[o] EXCEPT !.sz = s].at = pending_new_diffs[o].at
        BY <4>2 DEF PendingNew
      <4>4. ~(NoNew.at > 0)
        BY DEF NoNew
      <4>5. QED
        BY <2>2, <3>2, <4>1, <4>3, <4>4 DEF WaitingNew
    <3>3. QED
      BY <3>1, <3>2
  <2>3. QED
    BY <1>2, <2>1, <2>2
<1>8. dpos' \in Nat /\ dpos <= dpos' /\ aged \subseteq aged'
  BY <1>4
<1>9. QED
  BY <1>3, <1>4, <1>6, <1>7, <1>8, NothingAdded

\* apply_order_statuses_hft, a status that completes a New.
LEMMA CompletingKeepsQueues ==
  ASSUME QueueInv, PairingInv', StatusCompletesNew, Trusted'
  PROVE  ServerQueues'
<1>1. ReadStatus /\ UNCHANGED <<nodeVars, ready, dpos, pending_order_statuses, zeroed, loss, aged>>
  BY DEF StatusCompletesNew
<1>2. Trusted /\ IInv /\ FilesAgree
  BY <1>1 DEF Trusted, QueueInv, PairingInv
<1>3. PICK o \in Oid : o = NextStatus.oid
  BY <1>1, <1>2, StatusReadFacts
<1>4. /\ WaitingNew(o)
      /\ AddOrderBefore(o, pending_new_diffs[o].sz, pending_new_diffs[o].before)
      /\ pending_new_diffs' = [pending_new_diffs EXCEPT ![o] = NoNew]
  BY <1>3 DEF StatusCompletesNew
<1>5. /\ NodeInv /\ BookTypeOK /\ NewsWaitTheirTurn
      /\ dlog \in Seq(Diff) /\ Len(dlog) \in Nat /\ dpos \in 0..Len(dlog) /\ dpos \in Nat
      /\ pending_new_diffs \in [Oid -> PendingNew] /\ sz \in [Oid -> Nat]
      /\ \A p \in Oid : OrderOK(p) /\ Paired(p)
      /\ \A x \in Oid : sz[x] > 0 => nodeSz[dpos + 1][x] > 0
  BY <1>2, QueueStart
<1>6. PICK i : i = pending_new_diffs[o].at
  OBVIOUS
<1>7. PICK s : s = pending_new_diffs[o].sz
  OBVIOUS
<1>8. i \in 1..dpos /\ NewAt(o, i) /\ pending_new_diffs[o].before = dlog[i].before
  BY <1>4, <1>5, <1>6 DEF Paired
<1>9. i \in DOMAIN dlog /\ i \in Nat /\ i <= dpos
  BY <1>5, <1>8
<1>10. Applied \in [Oid -> Nat] /\ dpos + 1 \in 1..Len(nodeSz)
  BY <1>5, AppliedType
<1>11. sz[o] = 0 /\ s = Applied[o] /\ s \in Nat /\ s > 0
  BY <1>4, <1>5, <1>7, <1>10 DEF OrderOK
<1>12. Makers(o) = {}
  BY <1>5, <1>10, <1>11, NothingToMatch DEF Applied
<1>13. Joins(o, s, i)
  BY <1>4, <1>5, <1>7, <1>8, <1>11, <1>12, AddSplices DEF Joins
<1>14. \A w \in Oid : WaitingNew(w)' => /\ w # o /\ WaitingNew(w)
                                        /\ pending_new_diffs'[w] = pending_new_diffs[w]
  <2> SUFFICES ASSUME NEW w \in Oid, WaitingNew(w)'
               PROVE  /\ w # o /\ WaitingNew(w)
                      /\ pending_new_diffs'[w] = pending_new_diffs[w]
    OBVIOUS
  <2>1. w # o
    BY <1>4, <1>5 DEF WaitingNew, NoNew
  <2>2. pending_new_diffs'[w] = pending_new_diffs[w]
    BY <1>4, <1>5, <2>1
  <2>3. QED
    BY <2>1, <2>2 DEF WaitingNew
<1>15. NoneWaitsAnew
  BY <1>14 DEF NoneWaitsAnew
<1>16. InTurn(o, i)
  <2> SUFFICES ASSUME aged = {}, o \notin Triggers
               PROVE  /\ \A x \in Oid \ Triggers : sz[x] > 0 => nodeSz[i][x] > 0
                      /\ \A w \in Oid \ (Protocol \cup Triggers) :
                           WaitingNew(w)' => pending_new_diffs'[w].at > i
    BY DEF InTurn
  <2>1. /\ spos \in Nat /\ slog \in Seq(Status) /\ spos + 1 \in DOMAIN slog /\ slog[spos + 1].oid = o
    <3>1. spos \in Nat /\ slog \in Seq(Status) /\ Len(slog) \in Nat /\ spos < Len(slog)
      BY <1>1, ServerStart DEF QueueInv, ReadStatus
    <3>2. QED
      BY <1>3, <3>1 DEF NextStatus
  <2>2. PICK m \in DOMAIN slog : m <= spos + 1 /\ OpenedAt(o, m)
    BY <1>2, <1>8, <1>9, <2>1 DEF FilesAgree, OpenedFirst
  <2>3. o \notin Protocol
    BY <1>2, <2>2 DEF FilesAgree, ProtocolHasNone
  <2>4. \A x \in Oid \ Triggers : sz[x] > 0 => nodeSz[i][x] > 0
    BY <1>4, <1>5, <1>6, <2>3 DEF NewsWaitTheirTurn
  <2>5. ASSUME NEW w \in Oid \ (Protocol \cup Triggers), WaitingNew(w)' PROVE pending_new_diffs'[w].at > i
    <3>1. w # o /\ WaitingNew(w) /\ pending_new_diffs'[w] = pending_new_diffs[w]
      BY <1>14, <2>5
    <3>2. pending_new_diffs[w].at > i
      BY <1>2, <1>8, <1>9, <2>2, <3>1, ReadFirst
    <3>3. QED
      BY <3>1, <3>2
  <2>6. QED
    BY <2>4, <2>5
<1>17. ReadsTo(dpos)
  BY <1>1, <1>5 DEF ReadsTo
<1>18. QED
  BY <1>1, <1>2, <1>5, <1>8, <1>9, <1>11, <1>13, <1>15, <1>16, <1>17, OneAdded

\* A status that is put aside or ignored, and a cleanup, leave the book as it is.
LEMMA BookLeftAlone ==
  ASSUME QueueInv, PairingInv', Trusted, Trusted', UNCHANGED <<nodeVars, dpos, bookVars>>,
         aged \subseteq aged', NoneWaitsAnew
  PROVE  ServerQueues'
<1>1. BookHeld /\ dpos \in Nat
  BY QueueStart
<1>2. sz' = sz /\ queue' = queue /\ insert_before_fallbacks' = insert_before_fallbacks /\ dpos' = dpos
  BY DEF bookVars
<1>3. BookHeld' /\ NoneOvertakes
  BY <1>1, <1>2 DEF BookHeld, NoneOvertakes
<1>4. dpos' \in Nat /\ dpos <= dpos' /\ UNCHANGED nodeVars
  BY <1>1, <1>2
<1>5. QED
  BY <1>2, <1>3, <1>4, NothingAdded DEF NoneWaitsAnew

LEMMA StatusKeepsQueues ==
  ASSUME QueueInv, PairingInv', ApplyStatus, Trusted'
  PROVE  ServerQueues'
<1>1. CASE StatusCompletesNew
  BY <1>1, CompletingKeepsQueues
<1>2. CASE StatusWaits \/ StatusIgnored
  <2>1. /\ UNCHANGED <<nodeVars, dpos, bookVars>> /\ UNCHANGED <<ready, loss, aged, pending_new_diffs>>
    BY <1>2 DEF StatusWaits, StatusIgnored, ReadStatus
  <2>2. Trusted /\ NoneWaitsAnew
    BY <2>1 DEF Trusted, NoneWaitsAnew, WaitingNew
  <2>3. QED
    BY <2>1, <2>2, BookLeftAlone
<1>3. CASE StatusFails
  BY <1>3 DEF StatusFails, Trusted
<1>4. QED
  BY <1>1, <1>2, <1>3 DEF ApplyStatus

\* cleanup_stale_pending.
LEMMA CleanupKeepsQueues ==
  ASSUME QueueInv, PairingInv', NEW i, NEW j, cleanup_stale_pending(i, j), Trusted'
  PROVE  ServerQueues'
<1> DEFINE newAt == [o \in Oid |-> pending_new_diffs[o].at]
           agedStatuses == {o \in Oid : WaitingStatus(o) /\ pending_order_statuses[o] <= i}
           agedNews == {o \in Oid : WaitingNew(o) /\ newAt[o] <= j}
           overStatuses == Excess({o \in Oid : WaitingStatus(o)} \ agedStatuses, MAX_PENDING_ORDERS,
                                  pending_order_statuses)
           overNews == Excess({o \in Oid : WaitingNew(o)} \ agedNews, MAX_PENDING_DIFFS, newAt)
<1>1. /\ UNCHANGED <<nodeVars, ready, dpos, spos, bookVars, zeroed, untriggered_orders>>
      /\ pending_new_diffs' =
           [o \in Oid |-> IF o \in agedNews \cup overNews THEN NoNew ELSE pending_new_diffs[o]]
      /\ loss' = (loss \/ Lost(agedNews, overStatuses, overNews))
      /\ aged' = aged \cup agedStatuses
  BY DEF cleanup_stale_pending
<1> HIDE DEF agedStatuses, agedNews, overStatuses, overNews
<1>2. Trusted
  BY <1>1 DEF Trusted
<1>3. NoneWaitsAnew
  <2> SUFFICES ASSUME NEW w \in Oid, WaitingNew(w)'
               PROVE  WaitingNew(w) /\ pending_new_diffs'[w].at = pending_new_diffs[w].at
    BY DEF NoneWaitsAnew
  <2>1. pending_new_diffs'[w] = pending_new_diffs[w] \/ pending_new_diffs'[w] = NoNew
    BY <1>1
  <2>2. QED
    BY <2>1 DEF WaitingNew, NoNew
<1>4. UNCHANGED <<nodeVars, dpos, bookVars>> /\ aged \subseteq aged'
  BY <1>1
<1>5. QED
  BY <1>2, <1>3, <1>4, BookLeftAlone

\* An install takes the node's queues as they are.
LEMMA InstallKeepsQueues ==
  ASSUME QueueInv, Install
  PROVE  ServerQueues'
<1>1. PICK c \in DOMAIN cuts : InstallAt(c, c)
  BY DEF Install
<1>2. PICK n : n = cuts[c].d
  OBVIOUS
<1>3. /\ UNCHANGED nodeVars /\ dpos' = n
      /\ sz' = nodeSz[n + 1] /\ queue' = nodeQueue[n + 1]
      /\ pending_new_diffs' = [o \in Oid |-> NoNew]
  BY <1>1, <1>2 DEF InstallAt, ResumeAfter
<1>4. /\ NodeInv /\ QueuesOK /\ cuts \in Seq(Cut) /\ n <= Len(dlog) /\ Len(dlog) \in Nat
      /\ Len(nodeQueue) = Len(dlog) + 1
  BY <1>2, NodeQueueTypes, ServerStart DEF QueueInv, NodeInv, NodeTypeOK, CutsOK
<1>5. cuts[c] \in Cut
  BY <1>4
<1>6. n + 1 \in 1..Len(nodeQueue)
  BY <1>2, <1>4, <1>5 DEF Cut
<1>7. BookHeld'
  <2> SUFFICES ASSUME NEW l \in Level
               PROVE  /\ OnQueue(queue'[l]) = {p \in Oid : sz'[p] > 0 /\ LevelOf(p) = l}
                      /\ OnceEach(queue'[l])
    BY DEF BookHeld, OnQueue, OnceEach
  <2>1. QED
    BY <1>3, <1>4, <1>6 DEF QueuesOK, NodeHoldsOnce
<1>8. NewsWaitTheirTurn'
  BY <1>3 DEF NewsWaitTheirTurn, WaitingNew, NoNew
<1>9. BookInOrder'
  <2>1. nodeQueue' = nodeQueue
    BY <1>3 DEF nodeVars
  <2>2. QED
    BY <1>3, <2>1 DEF BookInOrder, Agrees, StandsBefore
<1>10. QED
  BY <1>7, <1>8, <1>9 DEF ServerQueues

\* The node writes on: what it had in its book by now stays on record.
LEMMA NodeKeepsRecord ==
  ASSUME NodeInv, QueuesOK, NodeStep
  PROVE  /\ QueuesOK'
         /\ \A j \in 1..(Len(dlog) + 1) : nodeSz'[j] = nodeSz[j] /\ nodeQueue'[j] = nodeQueue[j]
<1>1. NodeInv'
  BY NodeNextInv DEF NodeStep
<1>2. PICK o \in Oid : \E ss : Block(o, ss)
  BY <1>1, NodeStepIsBlock DEF NodeStep
<1>3. PICK ss : Block(o, ss)
  BY <1>2
<1>4. ASSUME NEW d \in Diff, WritesDiff(d, ss)
      PROVE  /\ QueuesOK'
             /\ \A j \in 1..(Len(dlog) + 1) : nodeSz'[j] = nodeSz[j] /\ nodeQueue'[j] = nodeQueue[j]
  <2>1. QueuesOK'
    BY <1>1, <1>4, DiffKeepsQueues
  <2>2. /\ Len(nodeSz) = Len(dlog) + 1 /\ Len(nodeQueue) = Len(dlog) + 1
        /\ nodeSz \in Seq([Oid -> Nat]) /\ nodeQueue \in Seq([Level -> Seq(Oid)])
    BY <1>1, NodeQueueTypes
  <2>3. \E f, q : nodeSz' = Append(nodeSz, f) /\ nodeQueue' = Append(nodeQueue, q)
    BY <1>4 DEF WritesDiff, WriteDiff
  <2>4. \A j \in 1..(Len(dlog) + 1) : nodeSz'[j] = nodeSz[j] /\ nodeQueue'[j] = nodeQueue[j]
    BY <2>2, <2>3
  <2>5. QED
    BY <2>1, <2>4
<1>5. CASE UNCHANGED <<dlog, nodeSz, nodeQueue>>
  <2>1. QueuesOK'
    BY <1>1, <1>5 DEF QueuesOK, QueueHistory, NodeHoldsOnce, RestsByNew, OrderKept, NewAt
  <2>2. QED
    BY <1>5, <2>1
<1>6. CASE Comes(o, ss)
  BY <1>4, <1>6 DEF Comes
<1>7. CASE Passes(o, ss)
  BY <1>5, <1>7 DEF Passes, WriteStatuses
<1>8. CASE Changes(o, ss)
  BY <1>4, <1>8 DEF Changes
<1>9. QED
  BY <1>3, <1>6, <1>7, <1>8 DEF Block

LEMMA NodeKeepsQueues ==
  ASSUME QueueInv, NodeStep, Trusted
  PROVE  ServerQueues'
<1>1. UNCHANGED stateVars
  BY DEF NodeStep
<1>2. /\ BookHeld /\ NewsWaitTheirTurn /\ BookInOrder
      /\ dpos \in 0..Len(dlog) /\ dpos \in Nat /\ Len(dlog) \in Nat /\ \A o \in Oid : Paired(o)
  BY QueueStart
<1>3. \A j \in 1..(Len(dlog) + 1) : nodeSz'[j] = nodeSz[j] /\ nodeQueue'[j] = nodeQueue[j]
  BY NodeKeepsRecord, ServerStart DEF QueueInv
<1>4. /\ sz' = sz /\ queue' = queue /\ dpos' = dpos /\ pending_new_diffs' = pending_new_diffs
      /\ aged' = aged /\ insert_before_fallbacks' = insert_before_fallbacks
  BY <1>1 DEF stateVars
<1>5. BookHeld'
  BY <1>2, <1>4 DEF BookHeld, OnQueue, OnceEach
<1>6. NewsWaitTheirTurn'
  <2> SUFFICES ASSUME aged = {}, NEW w \in Oid \ (Protocol \cup Triggers), NEW x \in Oid \ Triggers,
                      WaitingNew(w), sz[x] > 0
               PROVE  nodeSz'[pending_new_diffs[w].at][x] > 0
    BY <1>4 DEF NewsWaitTheirTurn, WaitingNew
  <2>1. PICK m : m = pending_new_diffs[w].at
    OBVIOUS
  <2>2. nodeSz[m][x] > 0
    BY <1>2, <2>1 DEF NewsWaitTheirTurn
  <2>3. m \in 1..dpos
    BY <1>2, <2>1 DEF Paired
  <2>4. m \in 1..(Len(dlog) + 1)
    BY <1>2, <2>3
  <2>5. QED
    BY <1>3, <2>1, <2>2, <2>4
<1>7. BookInOrder'
  <2>1. dpos + 1 \in 1..(Len(dlog) + 1)
    BY <1>2
  <2>2. nodeQueue'[dpos + 1] = nodeQueue[dpos + 1]
    BY <1>3, <2>1
  <2>3. QED
    BY <1>2, <1>4, <2>2 DEF BookInOrder, Undisturbed, Agrees, StandsBefore, Plain
<1>8. QED
  BY <1>5, <1>6, <1>7 DEF ServerQueues

LEMMA InitQueues == Init => QueueInv
<1> SUFFICES ASSUME Init PROVE QueueInv
  OBVIOUS
<1>1. PairingInv /\ NodeInv
  BY InitPairing, ServerStart
<1>2. ~Trusted
  BY DEF Init, Trusted
<1>3. dlog = <<>> /\ nodeSz = <<[o \in Oid |-> 0]>> /\ nodeQueue = <<[l \in Level |-> <<>>]>>
  BY DEF Init, NodeInit
<1>4. DOMAIN dlog = {} /\ Len(nodeSz) = 1 /\ Len(nodeQueue) = 1
  BY <1>3
<1>5. \A j \in 1..1 : j = 1
  OBVIOUS
<1>6. \A o \in Oid : nodeSz[1][o] = 0
  BY <1>3
<1>7. \A l \in Level : DOMAIN nodeQueue[1][l] = {}
  BY <1>3
<1>8. QueueHistory
  BY <1>4 DEF QueueHistory
<1>9. NodeHoldsOnce
  <2> SUFFICES ASSUME NEW l \in Level
               PROVE  /\ OnQueue(nodeQueue[1][l]) = {o \in Oid : nodeSz[1][o] > 0 /\ LevelOf(o) = l}
                      /\ OnceEach(nodeQueue[1][l])
    BY <1>4, <1>5 DEF NodeHoldsOnce
  <2>1. OnQueue(nodeQueue[1][l]) = {} /\ OnceEach(nodeQueue[1][l])
    BY <1>7 DEF OnQueue, OnceEach
  <2>2. {o \in Oid : nodeSz[1][o] > 0 /\ LevelOf(o) = l} = {}
    BY <1>6
  <2>3. QED
    BY <2>1, <2>2
<1>10. RestsByNew
  BY <1>4, <1>5, <1>6 DEF RestsByNew
<1>11. OrderKept
  BY <1>4, <1>5 DEF OrderKept
<1>12. QED
  BY <1>1, <1>2, <1>8, <1>9, <1>10, <1>11 DEF QueueInv, QueuesOK

LEMMA NextQueues == QueueInv /\ [Next]_vars => QueueInv'
<1> SUFFICES ASSUME QueueInv, [Next]_vars PROVE QueueInv'
  OBVIOUS
<1>1. PairingInv'
  BY NextPairing DEF QueueInv
<1>2. QueuesOK'
  <2>1. CASE UNCHANGED nodeVars
    BY <2>1 DEF QueueInv, QueuesOK, QueueHistory, NodeHoldsOnce, RestsByNew, OrderKept, NewAt, nodeVars
  <2>2. CASE NodeStep
    BY <2>2, NodeKeepsRecord, ServerStart DEF QueueInv
  <2>3. NodeStep \/ UNCHANGED nodeVars
    BY DEF Next, vars, ApplyStatus, StatusCompletesNew, StatusWaits, StatusIgnored, StatusFails,
           ApplyDiff, ApplyNew, ApplyUpdate, ApplyRemove, DiffFails, ReadDiff,
           Cleanup, cleanup_stale_pending, Install, InstallAt
  <2>4. QED
    BY <2>1, <2>2, <2>3
<1>3. ASSUME Trusted' PROVE ServerQueues'
  <2>1. CASE NodeStep
    <3>1. Trusted
      BY <1>3, <2>1 DEF NodeStep, stateVars, Trusted
    <3>2. QED
      BY <2>1, <3>1, NodeKeepsQueues
  <2>2. CASE ApplyStatus
    BY <1>1, <1>3, <2>2, StatusKeepsQueues
  <2>3. CASE ApplyDiff
    <3>1. ~DiffFails
      BY <1>3 DEF DiffFails, Trusted
    <3>2. QED
      BY <1>1, <1>3, <2>3, <3>1, NewKeepsQueues, OtherDiffsKeepQueues DEF ApplyDiff
  <2>4. CASE Cleanup
    BY <1>1, <1>3, <2>4, CleanupKeepsQueues DEF Cleanup
  <2>5. CASE Install
    BY <2>5, InstallKeepsQueues
  <2>6. CASE UNCHANGED vars
    <3>1. Trusted /\ UNCHANGED <<nodeVars, dpos, bookVars>> /\ aged' = aged /\ NoneWaitsAnew
      BY <1>3, <2>6 DEF vars, stateVars, Trusted, bookVars, NoneWaitsAnew, WaitingNew
    <3>2. QED
      BY <1>1, <1>3, <3>1, BookLeftAlone
  <2>7. QED
    BY <2>1, <2>2, <2>3, <2>4, <2>5, <2>6 DEF Next
<1>4. QED
  BY <1>1, <1>2, <1>3 DEF QueueInv

\* The queues of a trusted book, as add_order_to_book and cancel_order leave them, agree
\* with the node's, and the News that wait were written after all that rests.
THEOREM QueueInvariance == Spec => []QueueInv
BY InitQueues, NextQueues, PTL DEF Spec

\* Queue priority: a level's queue in a trusted book has each of its orders once and
\* nothing else; and without a missing anchor or an aged status, the orders of a
\* level without stop orders stand there as they stand at the node.
THEOREM QueueOrderThm == Spec => []QueueOrder
<1>1. QueueInv => QueueOrder
  <2> SUFFICES ASSUME QueueInv, Trusted, NEW l \in Level
               PROVE  /\ HeldOnce(l)
                      /\ Undisturbed /\ Plain(l) => InNodesOrder(l)
    BY DEF QueueOrder, Plain
  <2>1. BookHeld /\ BookInOrder /\ queue[l] \in Seq(Oid)
    BY QueueStart
  <2>2. HeldOnce(l)
    BY <2>1 DEF BookHeld, HeldOnce, OnQueue, OnceEach
  <2>3. ASSUME Undisturbed, Plain(l) PROVE InNodesOrder(l)
    <3> SUFFICES ASSUME NEW i \in DOMAIN queue[l], NEW j \in DOMAIN queue[l], i < j
                 PROVE  StandsBefore(AppliedQueue[l], queue[l][i], queue[l][j])
      BY DEF InNodesOrder
    <3>1. queue[l][i] \in Oid /\ queue[l][j] \in Oid
      BY <2>1
    <3>2. StandsBefore(queue[l], queue[l][i], queue[l][j])
      BY DEF StandsBefore
    <3>3. Agrees(queue[l], l, dpos + 1)
      BY <2>1, <2>3 DEF BookInOrder
    <3>4. QED
      BY <3>1, <3>2, <3>3 DEF Agrees, AppliedQueue
  <2>4. QED
    BY <2>2, <2>3
<1>2. QED
  BY <1>1, QueueInvariance, PTL

-----------------------------------------------------------------------------
(* Reading the two files again from behind a dump.                         *)

\* Diff i takes order o out of the node's book ...
Departed(o, i) == dlog[i].oid = o /\ dlog[i].sz = 0

\* ... for good: it never rests again, and every status of it is written by the end
\* of that block.
GoneForGood ==
  \A o \in Oid : \A i \in DOMAIN dlog : Departed(o, i) =>
     /\ phase[o] \in {"zeroed", "gone"}
     /\ \A k \in (i + 1)..Len(nodeSz) : nodeSz[k][o] = 0
     /\ \A c \in DOMAIN cuts : i <= cuts[c].d =>
          \A k \in DOMAIN slog : slog[k].oid = o => k <= cuts[c].s

\* The cuts are in order, and the last is the end of the diff file.
CutsRise ==
  /\ cuts # <<>>
  /\ cuts[Len(cuts)].d = Len(dlog)
  /\ \A c, d \in DOMAIN cuts : c <= d => cuts[c].d <= cuts[d].d

BlocksOK == GoneForGood /\ CutsRise

\* The cuts after a block: those before, and the ends of the files.
LEMMA BlockCuts ==
  ASSUME NodeInv, NEW o \in Oid, NEW ss, Block(o, ss)
  PROVE  /\ Len(cuts) \in Nat /\ DOMAIN cuts = 1..Len(cuts)
         /\ Len(cuts') = Len(cuts) + 1 /\ DOMAIN cuts' = 1..(Len(cuts) + 1) /\ cuts' # <<>>
         /\ \A c \in DOMAIN cuts : cuts'[c] = cuts[c]
         /\ cuts'[Len(cuts) + 1].d = Len(dlog') /\ cuts'[Len(cuts) + 1].s = Len(slog')
         /\ \A c \in DOMAIN cuts : /\ cuts[c].d \in Nat /\ cuts[c].s \in Nat
                                   /\ cuts[c].d <= Len(dlog) /\ cuts[c].s <= Len(slog)
<1>1. cuts \in Seq(Cut) /\ \A c \in DOMAIN cuts : cuts[c].d <= Len(dlog) /\ cuts[c].s <= Len(slog)
  BY DEF NodeInv, NodeTypeOK, CutsOK
<1>2. PICK e : e = [d |-> Len(dlog'), s |-> Len(slog')]
  OBVIOUS
<1>3. cuts' = Append(cuts, e) /\ e.d = Len(dlog') /\ e.s = Len(slog')
  BY <1>2, BlockFiles
<1>4. /\ Len(cuts) \in Nat /\ DOMAIN cuts = 1..Len(cuts)
      /\ Len(cuts') = Len(cuts) + 1 /\ DOMAIN cuts' = 1..(Len(cuts) + 1) /\ cuts' # <<>>
      /\ \A c \in DOMAIN cuts : cuts'[c] = cuts[c]
      /\ cuts'[Len(cuts) + 1] = e
  BY <1>1, <1>3
<1>5. ASSUME NEW c \in DOMAIN cuts PROVE cuts[c].d \in Nat /\ cuts[c].s \in Nat
  <2>1. cuts[c] \in Cut
    BY <1>1
  <2>2. QED
    BY <2>1 DEF Cut
<1>6. QED
  BY <1>1, <1>3, <1>4, <1>5

LEMMA BlockKeepsCuts ==
  ASSUME NodeInv, CutsRise, NEW o \in Oid, NEW ss, Block(o, ss)
  PROVE  CutsRise'
<1>1. /\ Len(cuts) \in Nat /\ DOMAIN cuts = 1..Len(cuts)
      /\ Len(cuts') = Len(cuts) + 1 /\ DOMAIN cuts' = 1..(Len(cuts) + 1) /\ cuts' # <<>>
      /\ \A c \in DOMAIN cuts : cuts'[c] = cuts[c]
      /\ cuts'[Len(cuts) + 1].d = Len(dlog')
      /\ \A c \in DOMAIN cuts : cuts[c].d \in Nat /\ cuts[c].d <= Len(dlog)
  BY BlockCuts
<1>2. Len(dlog) \in Nat /\ Len(dlog') \in Nat /\ Len(dlog) <= Len(dlog')
  BY BlockFiles
<1>3. ASSUME NEW c \in DOMAIN cuts', NEW d \in DOMAIN cuts', c <= d
      PROVE  cuts'[c].d <= cuts'[d].d
  <2>1. CASE d \in DOMAIN cuts
    <3>1. c \in DOMAIN cuts
      BY <1>1, <1>3, <2>1
    <3>2. cuts[c].d <= cuts[d].d
      BY <1>3, <2>1, <3>1 DEF CutsRise
    <3>3. QED
      BY <1>1, <2>1, <3>1, <3>2
  <2>2. CASE d \notin DOMAIN cuts
    <3>1. cuts'[d].d = Len(dlog')
      BY <1>1, <2>2
    <3>2. CASE c \in DOMAIN cuts
      <4>1. cuts'[c].d \in Nat /\ cuts'[c].d <= Len(dlog)
        BY <1>1, <3>2
      <4>2. QED
        BY <1>2, <3>1, <4>1
    <3>3. CASE c \notin DOMAIN cuts
      <4>1. cuts'[c].d = Len(dlog')
        BY <1>1, <3>3
      <4>2. QED
        BY <1>2, <3>1, <4>1
    <3>4. QED
      BY <3>2, <3>3
  <2>3. QED
    BY <2>1, <2>2
<1>4. cuts'[Len(cuts')].d = Len(dlog')
  BY <1>1
<1>5. QED
  BY <1>1, <1>3, <1>4 DEF CutsRise

LEMMA BlockKeepsGone ==
  ASSUME NodeInv, NodeInv', FilesGrow, GoneForGood, NEW o \in Oid, NEW ss, Block(o, ss)
  PROVE  GoneForGood'
<1>1. /\ DOMAIN slog = 1..Len(slog) /\ Len(slog) \in Nat
      /\ DOMAIN dlog = 1..Len(dlog) /\ Len(dlog) \in Nat
      /\ DOMAIN slog' = 1..Len(slog') /\ Len(slog') \in Nat
      /\ DOMAIN dlog' = 1..Len(dlog') /\ Len(dlog') \in Nat /\ Len(dlog') >= Len(dlog)
      /\ \A k \in DOMAIN slog : slog'[k] = slog[k]
      /\ \A i \in DOMAIN dlog : dlog'[i] = dlog[i]
      /\ \A k \in DOMAIN slog' : k > Len(slog) => slog'[k].oid = o
      /\ ss = <<>> => Len(slog') = Len(slog)
      /\ \A i \in DOMAIN dlog' : i > Len(dlog) =>
           i = Len(dlog) + 1 /\ dlog'[i].oid = o /\ ~Passes(o, ss)
  BY BlockFiles
<1>2. PICK n \in Nat : n = Len(dlog)
  BY <1>1
<1>3. PICK m \in Nat : m = Len(dlog')
  BY <1>1
<1>4. /\ DOMAIN dlog = 1..n /\ DOMAIN dlog' = 1..m /\ n <= m
      /\ \A i \in 1..m : i > n => i = n + 1 /\ dlog'[i].oid = o /\ ~Passes(o, ss)
  BY <1>1, <1>2, <1>3
<1>5. m = n \/ m = n + 1
  <2>1. CASE m > n
    <3>1. m \in 1..m
      BY <2>1
    <3>2. QED
      BY <1>4, <2>1, <3>1
  <2>2. QED
    BY <1>4, <2>1
<1>6. /\ DOMAIN cuts' = 1..(Len(cuts) + 1) /\ DOMAIN cuts = 1..Len(cuts) /\ Len(cuts) \in Nat
      /\ \A c \in DOMAIN cuts : cuts'[c] = cuts[c]
      /\ cuts'[Len(cuts) + 1].s = Len(slog')
      /\ \A c \in DOMAIN cuts : cuts[c].d \in Nat /\ cuts[c].d <= n
  BY <1>2, BlockCuts
<1>7. /\ nodeSz' \in Seq([Oid -> Nat]) /\ Len(nodeSz') = m + 1 /\ Len(nodeSz) = n + 1
      /\ \A k \in 1..(n + 1) : nodeSz'[k] = nodeSz[k]
      /\ \A i \in 1..m : nodeSz'[i + 1] = After(nodeSz'[i], dlog'[i])
      /\ \A p \in Oid : phase'[p] = "resting" <=> nodeSz'[m + 1][p] > 0
  <2>1. Len(nodeSz') = Len(dlog') + 1 /\ Len(nodeSz) = Len(dlog) + 1
    BY DEF NodeInv, HistoryOK
  <2>2. \A p \in Oid : phase'[p] = "resting" <=> nodeSz'[Len(nodeSz')][p] > 0
    BY DEF NodeInv, PhaseOK, SzNow
  <2>3. nodeSz' \in Seq([Oid -> Nat]) /\ \A i \in 1..m : nodeSz'[i + 1] = After(nodeSz'[i], dlog'[i])
    BY <1>3 DEF NodeInv, NodeTypeOK, HistoryOK
  <2>4. \A k \in 1..(n + 1) : nodeSz'[k] = nodeSz[k]
    BY <1>2 DEF FilesGrow
  <2>5. QED
    BY <1>2, <1>3, <2>1, <2>2, <2>3, <2>4
<1>8. /\ \A k \in 1..(m + 1) : nodeSz'[k] \in [Oid -> Nat]
      /\ DOMAIN dlog' = 1..m /\ Len(nodeSz') = m + 1
  BY <1>4, <1>7
<1> SUFFICES ASSUME NEW p \in Oid, NEW i \in 1..m, Departed(p, i)'
             PROVE  /\ phase'[p] \in {"zeroed", "gone"}
                    /\ \A k \in (i + 1)..(m + 1) : nodeSz'[k][p] = 0
                    /\ \A c \in DOMAIN cuts' : i <= cuts'[c].d =>
                         \A k \in DOMAIN slog' : slog'[k].oid = p => k <= cuts'[c].s
  BY <1>8 DEF GoneForGood, Departed
<1>9. i <= n => /\ phase[p] \in {"zeroed", "gone"}
                /\ \A k \in (i + 1)..(n + 1) : nodeSz[k][p] = 0
                /\ \A c \in DOMAIN cuts : i <= cuts[c].d =>
                     \A k \in DOMAIN slog : slog[k].oid = p => k <= cuts[c].s
  <2> SUFFICES ASSUME i <= n
               PROVE  /\ phase[p] \in {"zeroed", "gone"}
                      /\ \A k \in (i + 1)..(n + 1) : nodeSz[k][p] = 0
                      /\ \A c \in DOMAIN cuts : i <= cuts[c].d =>
                           \A k \in DOMAIN slog : slog[k].oid = p => k <= cuts[c].s
    OBVIOUS
  <2>1. i \in DOMAIN dlog
    BY <1>4
  <2>2. Departed(p, i)
    BY <1>1, <2>1 DEF Departed
  <2>3. QED
    BY <1>7, <2>1, <2>2 DEF GoneForGood
\* A block of an order that was gone before is its Remove, with no status.
<1>10. i <= n /\ p = o => phase'[p] = "gone" /\ ss = <<>>
  BY <1>9 DEF Block, Comes, Passes, Changes
<1>11. ~(i <= n) => i = n + 1 /\ m = n + 1 /\ p = o /\ ~Passes(o, ss) /\ nodeSz'[m + 1][p] = 0
  <2> SUFFICES ASSUME ~(i <= n)
               PROVE  i = n + 1 /\ m = n + 1 /\ p = o /\ ~Passes(o, ss) /\ nodeSz'[m + 1][p] = 0
    OBVIOUS
  <2>1. i > n
    OBVIOUS
  <2>2. i = n + 1 /\ dlog'[i].oid = o /\ ~Passes(o, ss)
    BY <1>4, <2>1
  <2>3. m = n + 1
    BY <1>5, <2>2
  <2>4. dlog'[i].oid = p /\ dlog'[i].sz = 0
    BY DEF Departed
  <2>5. i \in 1..(m + 1)
    OBVIOUS
  <2>6. nodeSz'[i + 1] = After(nodeSz'[i], dlog'[i]) /\ nodeSz'[i] \in [Oid -> Nat]
    BY <1>7, <1>8, <2>5
  <2>7. nodeSz'[i + 1][p] = 0
    BY <2>4, <2>6 DEF After
  <2>8. QED
    BY <2>2, <2>3, <2>4, <2>7
<1>12. phase'[p] \in {"zeroed", "gone"}
  <2>1. CASE i <= n
    BY <1>9, <1>10, <2>1 DEF Block
  <2>2. CASE ~(i <= n)
    <3>1. nodeSz'[m + 1][p] = 0 /\ p = o /\ ~Passes(o, ss)
      BY <1>11, <2>2
    <3>2. ~(phase'[p] = "resting")
      BY <1>7, <3>1
    <3>3. QED
      BY <3>1, <3>2 DEF Block, Comes, Changes
  <2>3. QED
    BY <2>1, <2>2
<1>13. nodeSz'[m + 1][p] = 0
  <2>1. ~(nodeSz'[m + 1][p] > 0)
    BY <1>7, <1>12
  <2>2. m + 1 \in 1..(m + 1)
    OBVIOUS
  <2>3. nodeSz'[m + 1] \in [Oid -> Nat]
    BY <1>8, <2>2
  <2>4. nodeSz'[m + 1][p] \in Nat
    BY <2>3
  <2>5. QED
    BY <2>1, <2>4
<1>14. ASSUME NEW k \in (i + 1)..(m + 1) PROVE nodeSz'[k][p] = 0
  <2>1. CASE i <= n /\ k <= n + 1
    <3>1. k \in (i + 1)..(n + 1) /\ k \in 1..(n + 1)
      BY <2>1
    <3>2. QED
      BY <1>7, <1>9, <2>1, <3>1
  <2>2. CASE ~(i <= n /\ k <= n + 1)
    <3>1. k = m + 1
      BY <1>5, <1>11, <2>2
    <3>2. QED
      BY <1>13, <3>1
  <2>3. QED
    BY <2>1, <2>2
<1>15. PICK l \in Nat : l = Len(slog)
  BY <1>1
<1>16. PICK r \in Nat : r = Len(slog')
  BY <1>1
<1>17. /\ DOMAIN slog = 1..l /\ DOMAIN slog' = 1..r
       /\ \A k \in 1..l : slog'[k] = slog[k]
       /\ \A k \in 1..r : k > l => slog'[k].oid = o
       /\ ss = <<>> => r = l
       /\ cuts'[Len(cuts) + 1].s = r
  BY <1>1, <1>6, <1>15, <1>16
<1>18. ASSUME NEW c \in DOMAIN cuts', i <= cuts'[c].d, NEW k \in 1..r, slog'[k].oid = p
       PROVE  k <= cuts'[c].s
  <2>1. CASE c \notin DOMAIN cuts
    <3>1. cuts'[c].s = r
      <4>1. c = Len(cuts) + 1
        BY <1>6, <2>1
      <4>2. QED
        BY <1>17, <4>1
    <3>2. QED
      BY <3>1
  <2>2. CASE c \in DOMAIN cuts
    <3>1. cuts'[c] = cuts[c] /\ cuts[c].d \in Nat /\ cuts[c].d <= n
      BY <1>6, <2>2
    <3>2. i <= n
      BY <1>18, <3>1
    <3>3. k \in 1..l
      <4> SUFFICES ASSUME k > l PROVE FALSE
        OBVIOUS
      <4>1. p = o
        BY <1>18, <1>17
      <4>2. QED
        BY <1>10, <1>17, <3>2, <4>1
    <3>4. slog[k].oid = p
      BY <1>18, <1>17, <3>3
    <3>5. QED
      BY <1>9, <1>18, <1>17, <2>2, <3>1, <3>2, <3>3, <3>4
  <2>3. QED
    BY <2>1, <2>2
<1>19. QED
  BY <1>12, <1>14, <1>18, <1>17

\* What the node's blocks keep.
LEMMA BlocksStay ==
  ASSUME NodeInv, BlocksOK, NodeNext
  PROVE  BlocksOK'
<1>1. NodeInv' /\ FilesGrow
  BY NodeNextInv
<1>2. PICK o \in Oid : \E ss : Block(o, ss)
  BY NodeStepIsBlock
<1>3. PICK ss : Block(o, ss)
  BY <1>2
<1>4. QED
  BY <1>1, <1>3, BlockKeepsGone, BlockKeepsCuts DEF BlocksOK

\* StatusesOfNextDiff is the end of a block that wrote the diff to be read next.
LEMMA ReadInStep ==
  ASSUME NodeInv, CutsRise, dpos \in Nat, dpos < Len(dlog)
  PROVE  \E b \in DOMAIN cuts : /\ dpos + 1 <= cuts[b].d /\ StatusesOfNextDiff = cuts[b].s
                                /\ cuts[b].s \in Nat
<1>1. cuts \in Seq(Cut) /\ cuts # <<>> /\ cuts[Len(cuts)].d = Len(dlog)
  BY DEF NodeInv, NodeTypeOK, CutsRise
<1>2. PICK T : T = {i \in DOMAIN cuts : cuts[i].d > dpos}
  OBVIOUS
<1>3. Len(cuts) \in DOMAIN cuts /\ DOMAIN cuts \subseteq Nat
  BY <1>1
<1>4. T \subseteq Nat /\ Len(cuts) \in T
  BY <1>1, <1>2, <1>3
<1>5. PICK m \in T : \A x \in T : m <= x
  BY <1>4, LeastCut
<1>6. PICK b : b = CHOOSE i \in DOMAIN cuts : /\ cuts[i].d > dpos
                                              /\ \A j \in DOMAIN cuts : cuts[j].d > dpos => i <= j
  OBVIOUS
<1>7. \E i \in DOMAIN cuts : cuts[i].d > dpos /\ \A j \in DOMAIN cuts : cuts[j].d > dpos => i <= j
  BY <1>2, <1>5
<1>8. b \in DOMAIN cuts /\ cuts[b].d > dpos
  BY <1>6, <1>7
<1>9. cuts[b] \in Cut
  BY <1>1, <1>8
<1>10. cuts[b].d \in Nat /\ cuts[b].s \in Nat
  BY <1>9 DEF Cut
<1>11. StatusesOfNextDiff = cuts[b].s
  BY <1>6, Zenon DEF StatusesOfNextDiff
<1>12. QED
  BY <1>8, <1>10, <1>11

-----------------------------------------------------------------------------
(* The replay.                                                             *)

\* The node's book at the later of two points: where the dump was made, and where the
\* diff file has been read to.
Later == IF dpos < dumpAt.d THEN Dump ELSE Applied

\* The node is done with order o, and all its statuses have been read.
Silent(o) == \E i \in 1..dpos : Departed(o, i) /\ \A k \in DOMAIN slog : slog[k].oid = o => k <= spos

\* The replay is past the dump, and o is one of those that have left since it and may
\* come back.
Back(o) == dpos >= dumpAt.d /\ MayComeBack(o)

\* An order in the book has a size that the node gave it, where the diff file has been
\* read to or in the dump; or it came back.
SizeIsNodes(o) == sz[o] > 0 => sz[o] = Applied[o] \/ sz[o] = Later[o] \/ Back(o)

\* A New that waits beside its order in the book is one the dump has.  One that waits
\* alone has the size of the diffs read, or will make its order come back, or no status
\* will ever complete it.
NewIsNodes(o) ==
  WaitingNew(o) => /\ pending_new_diffs[o].sz > 0
                   /\ sz[o] > 0 => o \in ReadAgain /\ Dump[o] > 0
                   /\ sz[o] = 0 => pending_new_diffs[o].sz = Applied[o] \/ Back(o) \/ Silent(o)

\* No order is missing.
NoneMissing(o) == o \notin Protocol /\ Later[o] > 0 => sz[o] > 0 \/ WaitingNew(o)

Replayed(o) == SizeIsNodes(o) /\ NewIsNodes(o) /\ NoneMissing(o)

\* An order that is not read again is in the book only while it rests at the node, and
\* with no more than the node gives it: local matching takes away, it never adds.
Bounded(o) ==
  /\ sz[o] > 0 => Applied[o] > 0 /\ (sz[o] <= Applied[o] \/ sz[o] <= Later[o])
  /\ WaitingNew(o) => sz[o] = 0 /\ pending_new_diffs[o].sz = Applied[o] /\ Applied[o] > 0

\* What waits or is remembered was read since reading resumed.
SinceResumed(o) ==
  /\ WaitingNew(o) => pending_new_diffs[o].at > resumedAt.d
  /\ zeroed[o] > 0 => zeroed[o] <= dpos /\ Departed(o, zeroed[o])

ReplayOK(o) ==
  /\ Clear(o) => Replayed(o)
  /\ o \notin ReadAgain => Bounded(o)
  /\ SinceResumed(o)

HandoffInv ==
  /\ NodeInv
  /\ ControlTypeOK
  /\ FilesAgree
  /\ BlocksOK
  /\ QueuesOK
  /\ StartsEmpty
  /\ dumpAt.d \in 0..Len(dlog)
  /\ resumedAt.d \in 0..dumpAt.d
  /\ resumedAt.d <= dpos
  /\ Trusted => StoredOK /\ \A o \in Oid : Paired(o) /\ ReplayOK(o)

LEMMA HandoffStart ==
  ASSUME HandoffInv
  PROVE  /\ PairsOK /\ NodeInv /\ ControlTypeOK /\ FilesAgree /\ GoneForGood /\ CutsRise
         /\ dlog \in Seq(Diff) /\ slog \in Seq(Status) /\ Len(dlog) \in Nat /\ Len(slog) \in Nat
         /\ nodeSz \in Seq([Oid -> Nat]) /\ Len(nodeSz) = Len(dlog) + 1
         /\ dpos \in 0..Len(dlog) /\ spos \in 0..Len(slog) /\ dpos \in Nat /\ spos \in Nat
         /\ dumpAt.d \in 0..Len(dlog) /\ dumpAt.d \in Nat
         /\ resumedAt.d \in Nat /\ resumedAt.d <= dumpAt.d /\ resumedAt.d <= dpos
         /\ Applied \in [Oid -> Nat] /\ Dump \in [Oid -> Nat] /\ Later \in [Oid -> Nat]
         /\ Trusted => /\ BookTypeOK /\ Few(sz) /\ sz \in [Oid -> Nat] /\ queue \in [Level -> Seq(Oid)]
                       /\ pending_new_diffs \in [Oid -> PendingNew]
                       /\ \A o \in Oid : Paired(o) /\ ReplayOK(o)
<1>1. PairsOK /\ NodeInv /\ ControlTypeOK /\ FilesAgree /\ GoneForGood /\ CutsRise
  BY DEF HandoffInv, PairsOK, BlocksOK, StoredOK
<1>2. /\ dlog \in Seq(Diff) /\ slog \in Seq(Status) /\ Len(dlog) \in Nat /\ Len(slog) \in Nat
      /\ dpos \in 0..Len(dlog) /\ spos \in 0..Len(slog) /\ dpos \in Nat /\ spos \in Nat
  BY <1>1, PairsStart
<1>3. nodeSz \in Seq([Oid -> Nat]) /\ Len(nodeSz) = Len(dlog) + 1
  BY <1>1 DEF NodeInv, NodeTypeOK, HistoryOK
<1>4. dumpAt.d \in 0..Len(dlog) /\ resumedAt.d \in 0..dumpAt.d /\ resumedAt.d <= dpos
  BY DEF HandoffInv
<1>5. Applied \in [Oid -> Nat]
  BY <1>2, <1>3 DEF Applied
<1>6. Dump \in [Oid -> Nat]
  <2>1. PICK n : n = dumpAt.d
    OBVIOUS
  <2>2. n + 1 \in 1..Len(nodeSz)
    BY <1>2, <1>3, <1>4, <2>1
  <2>3. QED
    BY <1>3, <2>1, <2>2 DEF Dump
<1>7. Later \in [Oid -> Nat]
  BY <1>5, <1>6 DEF Later
<1>8. Trusted => /\ BookTypeOK /\ Few(sz) /\ sz \in [Oid -> Nat] /\ queue \in [Level -> Seq(Oid)]
                 /\ pending_new_diffs \in [Oid -> PendingNew]
                 /\ \A o \in Oid : Paired(o) /\ ReplayOK(o)
  BY DEF HandoffInv, StoredOK, BookTypeOK
<1>9. QED
  BY <1>1, <1>2, <1>4, <1>3, <1>5, <1>6, <1>7, <1>8

\* Where a replay starts and where its dump was made stay what they were.
LEMMA SameDump ==
  ASSUME UNCHANGED <<nodeVars, dumpAt, resumedAt>>
  PROVE  /\ ReadAgain' = ReadAgain /\ Dump' = Dump
         /\ \A p \in Oid : Clear(p)' <=> Clear(p)
<1>1. dlog' = dlog /\ nodeSz' = nodeSz /\ dumpAt' = dumpAt /\ resumedAt' = resumedAt
  BY DEF nodeVars
<1>2. ReadAgain' = ReadAgain
  BY <1>1 DEF ReadAgain
<1>3. QED
  BY <1>1, <1>2 DEF Dump, Clear

LEMMA BackStays ==
  ASSUME UNCHANGED dumpAt, inStep' => inStep, ReadAgain' = ReadAgain, Dump' = Dump,
         dumpAt.d \in Nat, dpos \in Nat, dpos' \in Nat, dpos <= dpos',
         NEW p \in Oid, Applied'[p] = Applied[p]
  PROVE  Back(p) => Back(p)'
<1>1. dumpAt' = dumpAt
  OBVIOUS
<1>2. dpos >= dumpAt.d => dpos' >= dumpAt'.d
  BY <1>1
<1>3. MayComeBack(p) => MayComeBack(p)'
  BY DEF MayComeBack
<1>4. QED
  BY <1>2, <1>3 DEF Back

LEMMA SilentStays ==
  ASSUME NEW p \in Oid, UNCHANGED nodeVars, slog \in Seq(Status),
         dpos \in Nat, dpos' \in Nat, dpos <= dpos', spos \in Nat, spos' \in Nat, spos <= spos'
  PROVE  Silent(p) => Silent(p)'
<1> SUFFICES ASSUME Silent(p) PROVE Silent(p)'
  OBVIOUS
<1>1. dlog' = dlog /\ slog' = slog
  BY DEF nodeVars
<1>2. PICK i \in 1..dpos : Departed(p, i) /\ \A k \in DOMAIN slog : slog[k].oid = p => k <= spos
  BY DEF Silent
<1>3. i \in 1..dpos' /\ Departed(p, i)'
  BY <1>1, <1>2 DEF Departed
<1>4. ASSUME NEW k \in DOMAIN slog, slog[k].oid = p PROVE k <= spos'
  <2>1. k \in Nat /\ k <= spos
    BY <1>2, <1>4
  <2>2. QED
    BY <2>1
<1>5. QED
  BY <1>1, <1>3, <1>4 DEF Silent, Departed

\* An order that a step is not about, but that another one may have traded with: one that
\* nothing read again would trade with has lost nothing, unless it is about to come back.
LEMMA OrderStays ==
  ASSUME NEW p \in Oid, ReplayOK(p), dpos \in Nat, dumpAt.d \in Nat,
         sz[p] \in Nat, sz'[p] \in Nat, Applied[p] \in Nat, Later[p] \in Nat, sz'[p] <= sz[p],
         Clear(p) => sz'[p] = sz[p] \/ Back(p),
         Applied'[p] = Applied[p], Later'[p] = Later[p], ReadAgain' = ReadAgain, Dump' = Dump,
         Clear(p)' <=> Clear(p), Back(p) => Back(p)', Silent(p) => Silent(p)',
         WaitingNew(p)' => WaitingNew(p) /\ pending_new_diffs'[p] = pending_new_diffs[p],
         p \notin Protocol /\ WaitingNew(p) => WaitingNew(p)',
         SinceResumed(p)'
  PROVE  ReplayOK(p)'
<1>1. ASSUME Clear(p) PROVE Replayed(p)'
  <2>1. SizeIsNodes(p) /\ NewIsNodes(p) /\ NoneMissing(p)
    BY <1>1 DEF ReplayOK, Replayed
  <2>2. CASE sz'[p] = sz[p]
    <3>1. SizeIsNodes(p)'
      BY <2>1, <2>2 DEF SizeIsNodes
    <3>2. NewIsNodes(p)'
      BY <2>1, <2>2 DEF NewIsNodes
    <3>3. NoneMissing(p)'
      BY <2>1, <2>2 DEF NoneMissing
    <3>4. QED
      BY <3>1, <3>2, <3>3 DEF Replayed
  <2>3. CASE Back(p)
    <3>1. Back(p)' /\ p \in ReadAgain /\ Dump[p] > 0 /\ Applied[p] = 0 /\ Later[p] = Applied[p]
      <4>1. p \in ReadAgain /\ Dump[p] > 0 /\ Applied[p] = 0 /\ dpos >= dumpAt.d
        BY <2>3 DEF Back, MayComeBack
      <4>2. QED
        BY <2>3, <4>1 DEF Later
    <3>2. SizeIsNodes(p)'
      BY <3>1 DEF SizeIsNodes
    <3>3. NewIsNodes(p)'
      BY <2>1, <3>1 DEF NewIsNodes
    <3>4. NoneMissing(p)'
      BY <3>1 DEF NoneMissing
    <3>5. QED
      BY <3>2, <3>3, <3>4 DEF Replayed
  <2>4. QED
    BY <1>1, <2>2, <2>3
<1>2. ASSUME p \notin ReadAgain PROVE Bounded(p)'
  <2>1. Bounded(p)
    BY <1>2 DEF ReplayOK
  <2>2. QED
    BY <2>1 DEF Bounded
<1>3. QED
  BY <1>1, <1>2 DEF ReplayOK

\* What reading a diff changes in the node's book.
LEMMA DiffLater ==
  ASSUME HandoffInv, dpos < Len(dlog), dpos' = dpos + 1, UNCHANGED <<nodeVars, dumpAt>>,
         NEW o, o = NextDiff.oid, NEW s, s = NextDiff.sz
  PROVE  /\ NextDiff \in Diff /\ o \in Oid /\ s \in Nat
         /\ Applied'[o] = s
         /\ \A p \in Oid \ {o} : Applied'[p] = Applied[p] /\ Later'[p] = Later[p]
         /\ Later'[o] = Later[o] \/ (Later[o] = Applied[o] /\ Later'[o] = s)
         /\ s = 0 => Later'[o] = 0 /\ (Dump[o] > 0 => dumpAt.d <= dpos)
         /\ NextDiff.kind = "New" => s > 0 /\ Applied[o] = 0
         /\ NextDiff.kind = "Update" => Applied[o] > 0
         /\ NextDiff.kind = "Remove" => s = 0
<1>1. /\ NodeInv /\ GoneForGood /\ dlog \in Seq(Diff) /\ Len(dlog) \in Nat /\ Len(nodeSz) = Len(dlog) + 1
      /\ dpos \in 0..Len(dlog) /\ dpos \in Nat /\ dumpAt.d \in 0..Len(dlog) /\ dumpAt.d \in Nat
  BY HandoffStart
<1>2. /\ NextDiff \in Diff /\ Applied'[o] = s
      /\ \A p \in Oid \ {o} : Applied'[p] = Applied[p]
      /\ NextDiff.kind = "New" => s > 0 /\ Applied[o] = 0
      /\ NextDiff.kind = "Update" => Applied[o] > 0
      /\ NextDiff.kind = "Remove" => s = 0
  BY <1>1, AppliedStep
<1>3. o \in Oid /\ s \in Nat
  BY <1>2 DEF Diff
<1>4. Dump' = Dump /\ dumpAt' = dumpAt
  BY DEF Dump, nodeVars
<1>5. ASSUME s = 0, dpos < dumpAt.d PROVE Dump[o] = 0
  <2>1. PICK i : i = dpos + 1
    OBVIOUS
  <2>2. i \in DOMAIN dlog
    BY <1>1, <2>1
  <2>3. Departed(o, i)
    BY <1>5, <2>1 DEF Departed, NextDiff
  <2>4. dumpAt.d + 1 \in (i + 1)..Len(nodeSz)
    BY <1>1, <1>5, <2>1
  <2>5. \A k \in (i + 1)..Len(nodeSz) : nodeSz[k][o] = 0
    BY <1>1, <1>3, <2>2, <2>3 DEF GoneForGood
  <2>6. QED
    BY <2>4, <2>5 DEF Dump
<1>6. CASE dpos < dumpAt.d
  <2>1. Later = Dump
    BY <1>6 DEF Later
  <2>2. Later' = Dump
    <3>1. CASE dpos + 1 < dumpAt.d
      BY <1>4, <3>1 DEF Later
    <3>2. CASE ~(dpos + 1 < dumpAt.d)
      <4>1. dumpAt.d = dpos + 1
        BY <1>1, <1>6, <3>2
      <4>2. Later' = Applied'
        BY <1>4, <3>2 DEF Later
      <4>3. QED
        BY <4>1, <4>2 DEF Applied, Dump, nodeVars
    <3>3. QED
      BY <3>1, <3>2
  <2>3. s = 0 => Dump[o] = 0
    BY <1>5, <1>6
  <2>4. QED
    BY <1>2, <1>3, <2>1, <2>2, <2>3
<1>7. CASE ~(dpos < dumpAt.d)
  <2>1. ~(dpos' < dumpAt'.d) /\ dumpAt.d <= dpos
    BY <1>1, <1>4, <1>7
  <2>2. Later = Applied /\ Later' = Applied'
    BY <1>7, <2>1 DEF Later
  <2>3. QED
    BY <1>2, <1>3, <2>1, <2>2
<1>8. QED
  BY <1>6, <1>7

\* A diff that is read in step takes its order out for good.
LEMMA DiffLeaves ==
  ASSUME HandoffInv, dpos < Len(dlog), dpos' = dpos + 1, spos' = spos, UNCHANGED nodeVars,
         spos >= StatusesOfNextDiff, NextDiff.sz = 0, NEW o \in Oid, o = NextDiff.oid
  PROVE  Silent(o)'
<1>1. /\ NodeInv /\ GoneForGood /\ CutsRise /\ dlog \in Seq(Diff) /\ slog \in Seq(Status)
      /\ dpos \in Nat /\ spos \in Nat /\ Len(dlog) \in Nat
  BY HandoffStart
<1>2. PICK b \in DOMAIN cuts : dpos + 1 <= cuts[b].d /\ StatusesOfNextDiff = cuts[b].s /\ cuts[b].s \in Nat
  BY <1>1, ReadInStep
<1>3. PICK i : i = dpos + 1
  OBVIOUS
<1>4. i \in DOMAIN dlog /\ i \in 1..dpos' /\ i <= cuts[b].d
  BY <1>1, <1>2, <1>3
<1>5. Departed(o, i)
  BY <1>3 DEF Departed, NextDiff
<1>6. \A k \in DOMAIN slog : slog[k].oid = o => k <= cuts[b].s
  BY <1>1, <1>4, <1>5 DEF GoneForGood
<1>7. ASSUME NEW k \in DOMAIN slog, slog[k].oid = o PROVE k <= spos'
  <2>1. k \in Nat /\ k <= cuts[b].s
    BY <1>1, <1>6, <1>7
  <2>2. QED
    BY <1>1, <1>2, <2>1
<1>8. dlog' = dlog /\ slog' = slog
  BY DEF nodeVars
<1>9. QED
  BY <1>4, <1>5, <1>7, <1>8 DEF Silent, Departed

\* An order that is read again has its New in the blocks that are; the New of any other
\* order that is read by the replay comes after the dump.
LEMMA WhereNewIs ==
  ASSUME HandoffInv, NEW o \in Oid, NEW i \in DOMAIN dlog, NewAt(o, i), i > resumedAt.d
  PROVE  /\ o \in ReadAgain => i <= dumpAt.d
         /\ o \notin ReadAgain => i > dumpAt.d
<1>1. /\ NodeInv /\ dlog \in Seq(Diff) /\ Len(dlog) \in Nat
      /\ dumpAt.d \in Nat /\ dumpAt.d <= Len(dlog) /\ resumedAt.d \in Nat
  BY HandoffStart
<1>2. i \in Nat /\ DOMAIN dlog = 1..Len(dlog)
  BY <1>1
<1>3. ASSUME o \in ReadAgain PROVE i <= dumpAt.d
  <2>1. PICK j \in (resumedAt.d + 1)..dumpAt.d : NewAt(o, j)
    BY <1>3 DEF ReadAgain, NewAt
  <2>2. j \in DOMAIN dlog
    BY <1>1, <1>2
  <2>3. j = i
    BY <1>1, <2>1, <2>2, NewRests
  <2>4. QED
    BY <1>1, <2>3
<1>4. ASSUME o \notin ReadAgain PROVE i > dumpAt.d
  <2> SUFFICES ASSUME i <= dumpAt.d PROVE FALSE
    BY <1>1, <1>2
  <2>1. i \in (resumedAt.d + 1)..dumpAt.d
    BY <1>1, <1>2
  <2>2. QED
    BY <1>4, <2>1 DEF ReadAgain, NewAt
<1>5. QED
  BY <1>3, <1>4

\* Matching leaves an order that the taker does not cross alone, and takes from the others
\* no more than they have; no more than the taker's size comes to rest.
LEMMA Matching ==
  ASSUME BookTypeOK, Few(sz), NEW o \in Oid, NEW s \in Nat, NEW b, sz[o] = 0, AddOrderBefore(o, s, b)
  PROVE  /\ sz' \in [Oid -> Nat] /\ queue' \in [Level -> Seq(Oid)] /\ Few(sz')
         /\ sz'[o] <= s
         /\ \A m \in Oid \ {o} : sz'[m] <= sz[m] /\ (m \notin Makers(o) => sz'[m] = sz[m])
<1>1. sz \in [Oid -> Nat]
  BY DEF BookTypeOK
<1>2. sz' \in [Oid -> Nat] /\ queue' \in [Level -> Seq(Oid)] /\ Few(sz')
  BY AddTypes
<1>3. sz' = [SzAfterMatch(o, s) EXCEPT ![o] = Remaining(o, s)]
  BY DEF AddOrderBefore
<1>4. sz'[o] <= s
  <2>1. sz'[o] = Remaining(o, s)
    BY <1>2, <1>3 DEF SzAfterMatch
  <2>2. PICK t : t = SizeOf(Makers(o))
    OBVIOUS
  <2>3. t \in Nat
    <3>1. Makers(o) \in SUBSET {n \in Oid : sz[n] > 0}
      BY DEF Makers
    <3>2. IsFiniteSet(Makers(o)) /\ \A n \in Makers(o) : sz[n] \in Nat
      BY <1>1, <3>1, FS_Subset DEF Few
    <3>3. QED
      BY <2>2, <3>2, SizeOfType
  <2>4. Remaining(o, s) = IF Makers(o) = {} THEN s ELSE IF t >= s THEN 0 ELSE s - t
    BY <2>2 DEF Remaining
  <2>5. QED
    BY <2>1, <2>3, <2>4
<1>5. ASSUME NEW m \in Oid \ {o} PROVE sz'[m] <= sz[m] /\ (m \notin Makers(o) => sz'[m] = sz[m])
  <2>1. sz'[m] = IF m \in Makers(o) THEN sz[m] - Traded(o, s, m) ELSE sz[m]
    BY <1>2, <1>3 DEF SzAfterMatch
  <2>2. Traded(o, s, m) \in Nat /\ Traded(o, s, m) <= sz[m]
    BY TradedType
  <2>3. QED
    BY <1>1, <2>1, <2>2
<1>6. QED
  BY <1>2, <1>4, <1>5

\* An order is added to the book of a replay at point j of the diff file.  One that is
\* not read again is added after the dump, while it rests at the node: what it may trade
\* with is an order that came back, for all others that rest at the node do not cross it.
LEMMA Added ==
  ASSUME HandoffInv, Trusted, NEW o \in Oid, NEW s \in Nat, NEW b, sz[o] = 0, AddOrderBefore(o, s, b),
         NEW j \in 1..Len(nodeSz), \A m \in Oid \ {o} : nodeSz[j][m] = Applied[m],
         o \notin ReadAgain => dpos >= dumpAt.d /\ nodeSz[j][o] > 0
  PROVE  /\ sz' \in [Oid -> Nat] /\ queue' \in [Level -> Seq(Oid)] /\ Few(sz')
         /\ sz'[o] <= s
         /\ Clear(o) /\ s > 0 /\ nodeSz[j][o] > 0 => sz'[o] = s
         /\ \A m \in Oid \ {o} : sz'[m] <= sz[m] /\ (Clear(m) => sz'[m] = sz[m] \/ Back(m))
<1>1. /\ NodeInv /\ BookTypeOK /\ Few(sz) /\ sz \in [Oid -> Nat] /\ dpos \in Nat /\ dumpAt.d \in Nat
      /\ \A m \in Oid : ReplayOK(m)
  BY HandoffStart
<1>2. /\ sz' \in [Oid -> Nat] /\ queue' \in [Level -> Seq(Oid)] /\ Few(sz')
      /\ sz'[o] <= s
      /\ \A m \in Oid \ {o} : sz'[m] <= sz[m] /\ (m \notin Makers(o) => sz'[m] = sz[m])
  BY <1>1, Matching
<1>3. \A m \in Makers(o) : m \in Oid /\ m # o /\ sz[m] > 0 /\ Crosses(o, m) /\ Crosses(m, o)
  BY CrossesSymmetric DEF Makers
<1>4. ASSUME NEW m \in Makers(o), Applied[m] > 0, nodeSz[j][o] > 0 PROVE FALSE
  <2>1. nodeSz[j][m] > 0
    BY <1>3, <1>4
  <2>2. QED
    BY <1>1, <1>3, <1>4, <2>1 DEF NodeInv, Uncrossed
<1>5. ASSUME Clear(o), s > 0, nodeSz[j][o] > 0 PROVE sz'[o] = s
  <2>1. ASSUME NEW m \in Makers(o) PROVE FALSE
    <3>1. m \notin ReadAgain
      BY <1>3, <1>5 DEF Clear
    <3>2. Applied[m] > 0
      BY <1>1, <1>3, <3>1 DEF ReplayOK, Bounded
    <3>3. QED
      BY <1>4, <1>5, <3>2
  <2>2. Makers(o) = {}
    BY <2>1
  <2>3. sz' = [sz EXCEPT ![o] = s]
    BY <1>1, <1>5, <2>2, AddRests
  <2>4. QED
    BY <1>1, <2>3
<1>6. ASSUME NEW m \in Oid \ {o}, Clear(m) PROVE sz'[m] = sz[m] \/ Back(m)
  <2>1. CASE m \notin Makers(o)
    BY <1>2, <2>1
  <2>2. CASE m \in Makers(o)
    <3>1. o \notin ReadAgain
      BY <1>3, <1>6, <2>2 DEF Clear
    <3>2. Later = Applied
      BY <1>1, <3>1 DEF Later
    <3>3. ~(Applied[m] > 0)
      BY <1>4, <2>2, <3>1
    <3>4. sz[m] > 0 /\ (sz[m] = Applied[m] \/ sz[m] = Later[m] \/ Back(m))
      BY <1>1, <1>3, <1>6, <2>2 DEF ReplayOK, Replayed, SizeIsNodes
    <3>5. QED
      BY <3>2, <3>3, <3>4
  <2>3. QED
    BY <2>1, <2>2
<1>7. QED
  BY <1>2, <1>5, <1>6

LEMMA StillSince ==
  ASSUME NEW p \in Oid, SinceResumed(p), UNCHANGED <<nodeVars, resumedAt>>,
         dpos \in Nat, dpos' \in Nat, dpos <= dpos', zeroed[p] \in Nat,
         zeroed'[p] > 0 => zeroed'[p] = zeroed[p] \/ (zeroed'[p] = dpos' /\ Departed(p, dpos')),
         WaitingNew(p)' => \/ WaitingNew(p) /\ pending_new_diffs'[p].at = pending_new_diffs[p].at
                           \/ pending_new_diffs'[p].at > resumedAt.d
  PROVE  SinceResumed(p)'
<1>1. dlog' = dlog /\ resumedAt' = resumedAt
  BY DEF nodeVars
<1>2. WaitingNew(p)' => pending_new_diffs'[p].at > resumedAt'.d
  BY <1>1 DEF SinceResumed
<1>3. ASSUME zeroed'[p] > 0 PROVE zeroed'[p] <= dpos' /\ Departed(p, zeroed'[p])
  <2>1. CASE zeroed'[p] = zeroed[p]
    <3>1. zeroed[p] <= dpos /\ Departed(p, zeroed[p])
      BY <1>3, <2>1 DEF SinceResumed
    <3>2. QED
      BY <2>1, <3>1
  <2>2. CASE zeroed'[p] = dpos' /\ Departed(p, dpos')
    BY <2>2
  <2>3. QED
    BY <1>3, <2>1, <2>2
<1>4. zeroed'[p] > 0 => zeroed'[p] <= dpos' /\ dlog'[zeroed'[p]].oid = p /\ dlog'[zeroed'[p]].sz = 0
  BY <1>1, <1>3 DEF Departed
<1>5. QED
  BY <1>2, <1>4 DEF SinceResumed, Departed

\* A New: it rests at once, unless the dump has it or it waits for its status.
LEMMA NewKeepsReplay ==
  ASSUME HandoffInv, ApplyNew, UNCHANGED <<dumpAt, resumedAt>>, inStep' => inStep, Trusted'
  PROVE  StoredOK' /\ \A p \in Oid : ReplayOK(p)'
<1>1. PICK o : o = NextDiff.oid
  OBVIOUS
<1>2. PICK s : s = NextDiff.sz
  OBVIOUS
<1>3. PICK n : n = [sz |-> s, before |-> NextDiff.before, at |-> dpos + 1]
  OBVIOUS
<1>4. /\ UNCHANGED nodeVars /\ dpos' = dpos + 1 /\ UNCHANGED <<ready, spos, aged>>
      /\ dpos < Len(dlog) /\ NextDiff.kind = "New" /\ loss' = loss /\ zeroed' = Remembered(dpos + 1)
      /\ \/ AddOrderBefore(o, s, NextDiff.before) /\ UNCHANGED pending_new_diffs
         \/ /\ pending_new_diffs' = [pending_new_diffs EXCEPT ![o] = n]
            /\ UNCHANGED bookVars
  BY <1>1, <1>2, <1>3 DEF ApplyNew, ReadDiff
<1>5. Trusted
  BY <1>4 DEF Trusted
<1>6. /\ NodeInv /\ dlog \in Seq(Diff) /\ slog \in Seq(Status) /\ dpos \in Nat /\ spos \in Nat /\ Len(dlog) \in Nat
      /\ Len(nodeSz) = Len(dlog) + 1 /\ dumpAt.d \in Nat /\ resumedAt.d \in Nat /\ resumedAt.d <= dpos
      /\ Applied \in [Oid -> Nat] /\ Later \in [Oid -> Nat]
      /\ BookTypeOK /\ Few(sz) /\ sz \in [Oid -> Nat] /\ queue \in [Level -> Seq(Oid)]
      /\ pending_new_diffs \in [Oid -> PendingNew] /\ zeroed \in [Oid -> Nat]
      /\ \A p \in Oid : Paired(p) /\ ReplayOK(p)
  BY <1>5, HandoffStart DEF ControlTypeOK
<1>7. /\ NextDiff \in Diff /\ o \in Oid /\ s \in Nat
      /\ Applied'[o] = s /\ s > 0 /\ Applied[o] = 0
      /\ \A p \in Oid \ {o} : Applied'[p] = Applied[p] /\ Later'[p] = Later[p]
      /\ Later'[o] = Later[o] \/ (Later[o] = Applied[o] /\ Later'[o] = s)
  BY <1>1, <1>2, <1>4, DiffLater
<1>8. ReadAgain' = ReadAgain /\ Dump' = Dump /\ \A p \in Oid : Clear(p)' <=> Clear(p)
  BY <1>4, SameDump
<1>9. \A p \in Oid : Silent(p) => Silent(p)'
  BY <1>4, <1>6, SilentStays
<1>10. PICK i \in DOMAIN dlog : i = dpos + 1
  BY <1>4, <1>6
<1>11. NewAt(o, i) /\ i > resumedAt.d
  BY <1>1, <1>4, <1>6, <1>10 DEF NewAt, NextDiff
<1>12. (o \in ReadAgain => dpos < dumpAt.d) /\ (o \notin ReadAgain => dpos >= dumpAt.d)
  <2>1. (o \in ReadAgain => i <= dumpAt.d) /\ (o \notin ReadAgain => i > dumpAt.d)
    BY <1>7, <1>11, WhereNewIs
  <2>2. QED
    BY <1>6, <1>10, <2>1
<1>13. ~WaitingNew(o)
  <2> SUFFICES ASSUME WaitingNew(o) PROVE FALSE
    OBVIOUS
  <2>1. PICK k : k = pending_new_diffs[o].at
    OBVIOUS
  <2>2. k \in 1..dpos /\ NewAt(o, k)
    BY <1>6, <1>7, <2>1 DEF Paired
  <2>3. k \in DOMAIN dlog /\ k # i
    BY <1>4, <1>6, <1>10, <2>2
  <2>4. QED
    BY <1>6, <1>7, <1>11, <2>2, <2>3, NewRests
\* An order that rests before its New is read is one of the dump's.
<1>14. ASSUME sz[o] > 0
       PROVE  o \in ReadAgain /\ (Clear(o) => sz[o] = Later[o] /\ Later'[o] = Later[o] /\ Dump[o] > 0)
  <2>1. o \in ReadAgain
    BY <1>6, <1>7, <1>14 DEF ReplayOK, Bounded
  <2>2. Later = Dump /\ ~Back(o)
    BY <1>6, <1>12, <2>1 DEF Later, Back
  <2>3. Clear(o) => sz[o] = Later[o]
    BY <1>6, <1>7, <1>14, <2>2 DEF ReplayOK, Replayed, SizeIsNodes
  <2>4. QED
    BY <1>7, <1>14, <2>1, <2>2, <2>3
<1>15. ASSUME NEW p \in Oid, pending_new_diffs'[p] = pending_new_diffs[p] \/ (p = o /\ pending_new_diffs'[p] = n)
       PROVE  SinceResumed(p)'
  <2>1. zeroed'[p] = zeroed[p] \/ zeroed'[p] = 0
    BY <1>4, <1>6 DEF Remembered
  <2>2. WaitingNew(p)' => \/ WaitingNew(p) /\ pending_new_diffs'[p].at = pending_new_diffs[p].at
                          \/ pending_new_diffs'[p].at > resumedAt.d
    BY <1>3, <1>6, <1>15 DEF WaitingNew
  <2>3. SinceResumed(p) /\ zeroed[p] \in Nat /\ dpos' \in Nat /\ dpos <= dpos'
    BY <1>4, <1>6 DEF ReplayOK
  <2>4. QED
    BY <1>4, <1>6, <2>1, <2>2, <2>3, StillSince
<1>16. ASSUME NEW p \in Oid \ {o}, sz'[p] \in Nat, sz'[p] <= sz[p], Clear(p) => sz'[p] = sz[p] \/ Back(p),
              pending_new_diffs'[p] = pending_new_diffs[p]
       PROVE  ReplayOK(p)'
  <2>1. WaitingNew(p)' <=> WaitingNew(p)
    BY <1>16 DEF WaitingNew
  <2>2. Back(p) => Back(p)'
    <3>1. dpos' \in Nat /\ dpos <= dpos'
      BY <1>4, <1>6
    <3>2. Applied'[p] = Applied[p] /\ ReadAgain' = ReadAgain /\ Dump' = Dump
      BY <1>7, <1>8
    <3>3. UNCHANGED dumpAt /\ dumpAt.d \in Nat /\ dpos \in Nat
      BY <1>6
    <3>4. QED
      BY <3>1, <3>2, <3>3, BackStays
  <2>3. SinceResumed(p)'
    BY <1>15, <1>16
  <2>4. QED
    BY <1>6, <1>7, <1>8, <1>9, <1>16, <2>1, <2>2, <2>3, OrderStays
<1>17. CASE AddOrderBefore(o, s, NextDiff.before) /\ UNCHANGED pending_new_diffs
  <2>1. ~WaitingNew(o)' /\ SinceResumed(o)'
    BY <1>7, <1>13, <1>15, <1>17 DEF WaitingNew
  <2>2. CASE sz[o] > 0
    <3>1. sz' = sz /\ queue' = queue
      BY <1>17, <2>2 DEF AddOrderBefore, bookVars
    <3>2. StoredOK'
      BY <1>6, <1>17, <3>1 DEF StoredOK, BookTypeOK, Few
    <3>3. Clear(o) => Replayed(o)'
      BY <1>14, <2>1, <2>2, <3>1 DEF Replayed, SizeIsNodes, NewIsNodes, NoneMissing
    <3>4. ReplayOK(o)'
      BY <1>7, <1>8, <1>14, <2>1, <2>2, <3>3 DEF ReplayOK
    <3>5. ASSUME NEW p \in Oid \ {o} PROVE ReplayOK(p)'
      <4>1. sz'[p] = sz[p] /\ sz[p] \in Nat /\ sz[p] <= sz[p]
        BY <1>6, <3>1
      <4>2. QED
        BY <1>16, <1>17, <4>1
    <3>6. QED
      BY <3>2, <3>4, <3>5
  <2>3. CASE ~(sz[o] > 0)
    <3>1. sz[o] = 0
      BY <1>6, <1>7, <2>3
    <3>2. PICK j \in 1..Len(nodeSz) : j = (dpos + 1) + 1
      BY <1>4, <1>6
    <3>3. nodeSz[j] = Applied'
      BY <1>4, <3>2 DEF Applied, nodeVars
    <3>4. /\ sz' \in [Oid -> Nat] /\ queue' \in [Level -> Seq(Oid)] /\ Few(sz')
          /\ sz'[o] <= s
          /\ Clear(o) => sz'[o] = s
          /\ \A m \in Oid \ {o} : sz'[m] <= sz[m] /\ (Clear(m) => sz'[m] = sz[m] \/ Back(m))
      BY <1>5, <1>7, <1>12, <1>17, <3>1, <3>3, Added
    <3>5. StoredOK'
      BY <1>6, <1>17, <3>4 DEF StoredOK, BookTypeOK, Few
    <3>6. Clear(o) => Replayed(o)'
      BY <1>7, <2>1, <3>4 DEF Replayed, SizeIsNodes, NewIsNodes, NoneMissing
    <3>7. Bounded(o)'
      BY <1>7, <2>1, <3>4 DEF Bounded
    <3>8. ReplayOK(o)'
      BY <1>7, <1>8, <2>1, <3>6, <3>7 DEF ReplayOK
    <3>9. ASSUME NEW p \in Oid \ {o} PROVE ReplayOK(p)'
      BY <1>16, <1>17, <3>4
    <3>10. QED
      BY <3>5, <3>8, <3>9
  <2>4. QED
    BY <2>2, <2>3
<1>18. CASE pending_new_diffs' = [pending_new_diffs EXCEPT ![o] = n] /\ UNCHANGED bookVars
  <2>1. sz' = sz /\ queue' = queue
    BY <1>18 DEF bookVars
  <2>2. n \in PendingNew /\ n.sz = s /\ n.at > 0
    <3>1. NextDiff.before \in Oid \cup {NoOid}
      BY <1>7 DEF Diff
    <3>2. dpos + 1 \in Nat /\ dpos + 1 > 0
      BY <1>6
    <3>3. QED
      BY <1>3, <1>7, <3>1, <3>2 DEF PendingNew
  <2>3. /\ pending_new_diffs' \in [Oid -> PendingNew] /\ pending_new_diffs'[o] = n
        /\ \A p \in Oid \ {o} : pending_new_diffs'[p] = pending_new_diffs[p]
    BY <1>6, <1>7, <1>18, <2>2
  <2>4. StoredOK'
    BY <1>6, <2>1, <2>3 DEF StoredOK, BookTypeOK, Few
  <2>5. SinceResumed(o)' /\ WaitingNew(o)'
    BY <1>7, <1>15, <2>2, <2>3 DEF WaitingNew
  <2>6. Clear(o) => Replayed(o)'
    <3> SUFFICES ASSUME Clear(o) PROVE Replayed(o)'
      OBVIOUS
    <3>1. SizeIsNodes(o)'
      BY <1>14, <2>1 DEF SizeIsNodes
    <3>2. NewIsNodes(o)'
      BY <1>7, <1>8, <1>14, <2>1, <2>2, <2>3 DEF NewIsNodes
    <3>3. NoneMissing(o)'
      BY <2>5 DEF NoneMissing
    <3>4. QED
      BY <3>1, <3>2, <3>3 DEF Replayed
  <2>7. o \notin ReadAgain => Bounded(o)'
    <3> SUFFICES ASSUME o \notin ReadAgain PROVE Bounded(o)'
      OBVIOUS
    <3>1. sz[o] = 0
      BY <1>6, <1>7, <1>14
    <3>2. QED
      BY <1>7, <2>1, <2>2, <2>3, <3>1 DEF Bounded
  <2>8. ReplayOK(o)'
    BY <1>7, <1>8, <2>5, <2>6, <2>7 DEF ReplayOK
  <2>9. ASSUME NEW p \in Oid \ {o} PROVE ReplayOK(p)'
    BY <1>6, <1>16, <2>1, <2>3
  <2>10. QED
    BY <2>4, <2>8, <2>9
<1>19. QED
  BY <1>4, <1>17, <1>18

\* An Update or a Remove: the order changes where it is.
LEMMA ChangeKeepsReplay ==
  ASSUME HandoffInv, ApplyUpdate \/ ApplyRemove, inStep' => inStep /\ spos >= StatusesOfNextDiff,
         UNCHANGED <<dumpAt, resumedAt>>, Trusted'
  PROVE  StoredOK' /\ \A p \in Oid : ReplayOK(p)'
<1>1. PICK o : o = NextDiff.oid
  OBVIOUS
<1>2. PICK s : s = NextDiff.sz
  OBVIOUS
<1>3. /\ UNCHANGED nodeVars /\ dpos' = dpos + 1 /\ UNCHANGED <<ready, spos, aged>>
      /\ dpos < Len(dlog) /\ NextDiff.kind \in {"Update", "Remove"} /\ loss' = loss
  BY DEF ApplyUpdate, ApplyRemove, ReadDiff
<1>4. Trusted
  BY <1>3 DEF Trusted
<1>5. /\ NodeInv /\ GoneForGood /\ dlog \in Seq(Diff) /\ slog \in Seq(Status)
      /\ dpos \in Nat /\ spos \in Nat /\ Len(dlog) \in Nat
      /\ Len(nodeSz) = Len(dlog) + 1 /\ dumpAt.d \in Nat
      /\ Applied \in [Oid -> Nat] /\ Later \in [Oid -> Nat]
      /\ BookTypeOK /\ Few(sz) /\ sz \in [Oid -> Nat] /\ queue \in [Level -> Seq(Oid)]
      /\ pending_new_diffs \in [Oid -> PendingNew] /\ zeroed \in [Oid -> Nat]
      /\ \A p \in Oid : ReplayOK(p)
  BY <1>4, HandoffStart DEF ControlTypeOK
<1>6. /\ NextDiff \in Diff /\ o \in Oid /\ s \in Nat
      /\ Applied'[o] = s
      /\ \A p \in Oid \ {o} : Applied'[p] = Applied[p] /\ Later'[p] = Later[p]
      /\ Later'[o] = Later[o] \/ (Later[o] = Applied[o] /\ Later'[o] = s)
      /\ s = 0 => Later'[o] = 0 /\ (Dump[o] > 0 => dumpAt.d <= dpos)
      /\ NextDiff.kind = "Update" => Applied[o] > 0
      /\ NextDiff.kind = "Remove" => s = 0
  BY <1>1, <1>2, <1>3, DiffLater
<1>7. ReadAgain' = ReadAgain /\ Dump' = Dump /\ \A p \in Oid : Clear(p)' <=> Clear(p)
  BY <1>3, SameDump
<1>8. \A p \in Oid : Silent(p) => Silent(p)'
  BY <1>3, <1>5, SilentStays
<1>9. \A p \in Oid : zeroed'[p] > 0 => zeroed'[p] = zeroed[p] \/ (zeroed'[p] = dpos' /\ Departed(p, dpos'))
  <2>1. PICK R : R = Remembered(dpos + 1)
    OBVIOUS
  <2>2. R \in [Oid -> Nat] /\ \A p \in Oid : R[p] > 0 => R[p] = zeroed[p]
    BY <1>5, <2>1 DEF Remembered
  <2>3. \/ zeroed' = R
        \/ s = 0 /\ zeroed' = [R EXCEPT ![o] = IF @ > 0 THEN @ ELSE dpos + 1]
        \/ zeroed' = [R EXCEPT ![o] = 0]
    BY <1>1, <1>2, <1>6, <2>1 DEF ApplyUpdate, ApplyRemove
  <2>4. s = 0 => Departed(o, dpos')
    BY <1>1, <1>2, <1>3 DEF Departed, NextDiff
  <2>5. QED
    BY <1>3, <2>2, <2>3, <2>4
<1>10. ASSUME NEW p \in Oid, WaitingNew(p)' => WaitingNew(p) /\ pending_new_diffs'[p].at = pending_new_diffs[p].at
       PROVE  SinceResumed(p)'
  <2>1. SinceResumed(p) /\ zeroed[p] \in Nat /\ dpos' \in Nat /\ dpos <= dpos'
    BY <1>3, <1>5 DEF ReplayOK
  <2>2. QED
    BY <1>3, <1>5, <1>9, <1>10, <2>1, StillSince
<1>11. ASSUME NEW p \in Oid \ {o}, sz'[p] = sz[p], pending_new_diffs'[p] = pending_new_diffs[p]
       PROVE  ReplayOK(p)'
  <2>1. WaitingNew(p)' <=> WaitingNew(p)
    BY <1>11 DEF WaitingNew
  <2>2. Back(p) => Back(p)'
    <3>1. dpos' \in Nat /\ dpos <= dpos'
      BY <1>3, <1>5
    <3>2. Applied'[p] = Applied[p] /\ ReadAgain' = ReadAgain /\ Dump' = Dump
      BY <1>6, <1>7
    <3>3. UNCHANGED dumpAt /\ dumpAt.d \in Nat /\ dpos \in Nat
      BY <1>5
    <3>4. QED
      BY <3>1, <3>2, <3>3, BackStays
  <2>3. SinceResumed(p)'
    BY <1>10, <1>11, <2>1
  <2>4. sz[p] \in Nat /\ sz'[p] \in Nat /\ sz'[p] <= sz[p]
    BY <1>5, <1>11
  <2>5. QED
    BY <1>5, <1>6, <1>7, <1>8, <1>11, <2>1, <2>2, <2>3, <2>4, OrderStays
<1>12. \/ /\ sz[o] > 0 /\ sz' = [sz EXCEPT ![o] = s] /\ queue' \in [Level -> Seq(Oid)]
          /\ UNCHANGED pending_new_diffs
       \/ sz[o] = 0 /\ UNCHANGED bookVars /\ apply_diff_to_pending_new(o, s)
       \/ sz[o] = 0 /\ s = 0 /\ zeroed[o] > 0 /\ UNCHANGED bookVars /\ UNCHANGED pending_new_diffs
  <2>1. CASE ApplyUpdate
    <3>1. \/ sz[o] > 0 /\ ModifySz(o, s) /\ UNCHANGED pending_new_diffs
          \/ sz[o] = 0 /\ UNCHANGED bookVars /\ apply_diff_to_pending_new(o, s)
      BY <1>1, <1>2, <2>1 DEF ApplyUpdate
    <3>2. ASSUME ModifySz(o, s) PROVE sz' = [sz EXCEPT ![o] = s] /\ queue' \in [Level -> Seq(Oid)]
      <4>1. CASE s = 0 /\ CancelOrder(o)
        BY <1>5, <1>6, <4>1, CancelLeaves
      <4>2. CASE s > 0 /\ sz' = [sz EXCEPT ![o] = s] /\ queue' = queue
        BY <1>5, <4>2
      <4>3. QED
        BY <3>2, <4>1, <4>2 DEF ModifySz
    <3>3. QED
      BY <3>1, <3>2
  <2>2. CASE ApplyRemove
    <3>1. s = 0
      BY <1>6, <2>2 DEF ApplyRemove, ReadDiff
    <3>2. Remembered(dpos + 1)[o] > 0 => zeroed[o] > 0
      BY <1>5, <1>6 DEF Remembered
    <3>3. \/ sz[o] > 0 /\ CancelOrder(o) /\ UNCHANGED pending_new_diffs
          \/ sz[o] = 0 /\ zeroed[o] > 0 /\ UNCHANGED bookVars /\ UNCHANGED pending_new_diffs
          \/ sz[o] = 0 /\ UNCHANGED bookVars /\ apply_diff_to_pending_new(o, 0)
      BY <1>1, <2>2, <3>2 DEF ApplyRemove
    <3>4. CancelOrder(o) => sz' = [sz EXCEPT ![o] = s] /\ queue' \in [Level -> Seq(Oid)]
      BY <1>5, <1>6, <3>1, CancelLeaves
    <3>5. QED
      BY <3>1, <3>3, <3>4
  <2>3. QED
    BY <2>1, <2>2
<1>13. CASE /\ sz[o] > 0 /\ sz' = [sz EXCEPT ![o] = s] /\ queue' \in [Level -> Seq(Oid)]
            /\ UNCHANGED pending_new_diffs
  <2>1. sz'[o] = s /\ (\A p \in Oid \ {o} : sz'[p] = sz[p]) /\ sz' \in [Oid -> Nat]
    BY <1>5, <1>6, <1>13
  <2>2. Few(sz')
    <3>1. \A p \in Oid : sz'[p] > 0 => sz[p] > 0
      BY <1>13, <2>1
    <3>2. QED
      BY <1>5, <3>1, FewerStillFew
  <2>3. StoredOK'
    BY <1>5, <1>13, <2>1, <2>2 DEF StoredOK, BookTypeOK, Few
  <2>4. pending_new_diffs' = pending_new_diffs /\ (WaitingNew(o)' <=> WaitingNew(o))
    BY <1>13 DEF WaitingNew
  <2>5. Clear(o) => Replayed(o)'
    <3> SUFFICES ASSUME Clear(o) PROVE Replayed(o)'
      OBVIOUS
    <3>1. SizeIsNodes(o)'
      BY <1>6, <2>1 DEF SizeIsNodes
    \* A Remove or a zeroing Update comes before the status that would complete the New.
    <3>2. ASSUME WaitingNew(o)
          PROVE  /\ pending_new_diffs[o].sz > 0 /\ o \in ReadAgain /\ Dump[o] > 0
                 /\ s = 0 => Back(o)' \/ Silent(o)'
      <4>1. pending_new_diffs[o].sz > 0 /\ o \in ReadAgain /\ Dump[o] > 0
        BY <1>5, <1>6, <1>13, <3>2 DEF ReplayOK, Replayed, NewIsNodes
      <4>2. CASE inStep'
        BY <1>1, <1>2, <1>3, <1>6, <4>1, <4>2, DiffLeaves
      <4>3. ASSUME ~inStep', s = 0 PROVE Back(o)'
        <5>1. dpos' >= dumpAt'.d
          BY <1>3, <1>5, <1>6, <4>1, <4>3
        <5>2. QED
          BY <1>6, <1>7, <4>1, <4>3, <5>1 DEF Back, MayComeBack
      <4>4. QED
        BY <4>1, <4>2, <4>3
    <3>3. NewIsNodes(o)'
      BY <1>6, <1>7, <2>1, <2>4, <3>2 DEF NewIsNodes
    <3>4. NoneMissing(o)'
      <4>1. s > 0 \/ Later'[o] = 0
        BY <1>6
      <4>2. QED
        BY <2>1, <4>1 DEF NoneMissing
    <3>5. QED
      BY <3>1, <3>3, <3>4 DEF Replayed
  <2>6. o \notin ReadAgain => Bounded(o)'
    <3> SUFFICES ASSUME o \notin ReadAgain PROVE Bounded(o)'
      OBVIOUS
    <3>1. ~WaitingNew(o)
      BY <1>5, <1>6, <1>13 DEF ReplayOK, Bounded
    <3>2. QED
      BY <1>6, <2>1, <2>4, <3>1 DEF Bounded
  <2>7. SinceResumed(o)'
    BY <1>6, <1>10, <2>4
  <2>8. ReplayOK(o)'
    BY <1>6, <1>7, <2>5, <2>6, <2>7 DEF ReplayOK
  <2>9. \A p \in Oid \ {o} : ReplayOK(p)'
    BY <1>11, <2>1, <2>4
  <2>10. QED
    BY <2>3, <2>8, <2>9
\* The order is not in the book, and is not missing there.
<1>14. ASSUME Later'[o] > 0 PROVE s > 0 /\ Later[o] > 0
  <2>1. s > 0
    BY <1>6, <1>14
  <2>2. Applied[o] > 0
    BY <1>3, <1>6, <2>1
  <2>3. QED
    BY <1>6, <1>14, <2>1, <2>2
<1>15. CASE sz[o] = 0 /\ UNCHANGED bookVars /\ apply_diff_to_pending_new(o, s)
  <2>1. sz' = sz /\ queue' = queue
    BY <1>15 DEF bookVars
  <2>2. /\ pending_new_diffs' \in [Oid -> PendingNew]
        /\ \A p \in Oid \ {o} : pending_new_diffs'[p] = pending_new_diffs[p]
        /\ s = 0 => ~WaitingNew(o)'
        /\ s > 0 => WaitingNew(o)' = WaitingNew(o)
        /\ s > 0 /\ WaitingNew(o) => /\ pending_new_diffs'[o].sz = s
                                     /\ pending_new_diffs'[o].at = pending_new_diffs[o].at
    BY <1>5, <1>6, <1>15, CarriedOver
  <2>3. ASSUME WaitingNew(o)'
        PROVE  WaitingNew(o) /\ s > 0 /\ pending_new_diffs'[o].sz = s
               /\ pending_new_diffs'[o].at = pending_new_diffs[o].at
    <3>1. s > 0
      BY <1>6, <2>2, <2>3
    <3>2. WaitingNew(o)
      BY <2>2, <2>3, <3>1, Zenon
    <3>3. QED
      BY <2>2, <3>1, <3>2
  <2>4. StoredOK'
    BY <1>5, <2>1, <2>2 DEF StoredOK, BookTypeOK, Few
  <2>5. Clear(o) => Replayed(o)'
    <3> SUFFICES ASSUME Clear(o) PROVE Replayed(o)'
      OBVIOUS
    <3>1. SizeIsNodes(o)' /\ NewIsNodes(o)'
      BY <1>6, <1>15, <2>1, <2>3 DEF SizeIsNodes, NewIsNodes
    <3>2. NoneMissing(o)'
      <4> SUFFICES ASSUME o \notin Protocol, Later'[o] > 0 PROVE WaitingNew(o)'
        BY DEF NoneMissing
      <4>1. s > 0 /\ WaitingNew(o)
        BY <1>5, <1>6, <1>14, <1>15 DEF ReplayOK, Replayed, NoneMissing
      <4>2. QED
        BY <2>2, <4>1, Zenon
    <3>3. QED
      BY <3>1, <3>2 DEF Replayed
  <2>6. Bounded(o)'
    BY <1>6, <1>15, <2>1, <2>3 DEF Bounded
  <2>7. SinceResumed(o)'
    BY <1>6, <1>10, <2>3
  <2>8. ReplayOK(o)'
    BY <1>6, <1>7, <2>5, <2>6, <2>7 DEF ReplayOK
  <2>9. \A p \in Oid \ {o} : ReplayOK(p)'
    BY <1>11, <2>1, <2>2
  <2>10. QED
    BY <2>4, <2>8, <2>9
\* A Remove that stops at zeroed_set: the order has departed before.
<1>16. CASE sz[o] = 0 /\ s = 0 /\ zeroed[o] > 0 /\ UNCHANGED bookVars /\ UNCHANGED pending_new_diffs
  <2>1. sz' = sz /\ queue' = queue /\ pending_new_diffs' = pending_new_diffs
        /\ (WaitingNew(o)' <=> WaitingNew(o))
    BY <1>16 DEF bookVars, WaitingNew
  <2>2. StoredOK'
    BY <1>5, <2>1 DEF StoredOK, BookTypeOK, Few
  <2>3. Applied[o] = 0
    <3>1. PICK z \in Nat : z = zeroed[o]
      BY <1>5, <1>6
    <3>2. z > 0 /\ z <= dpos /\ Departed(o, z)
      BY <1>5, <1>6, <1>16, <3>1 DEF ReplayOK, SinceResumed
    <3>3. z \in DOMAIN dlog /\ dpos + 1 \in (z + 1)..Len(nodeSz)
      BY <1>3, <1>5, <3>1, <3>2
    <3>4. QED
      BY <1>5, <1>6, <3>2, <3>3 DEF GoneForGood, Applied
  <2>4. Back(o) => Back(o)'
    <3>1. dpos' \in Nat /\ dpos <= dpos'
      BY <1>3, <1>5
    <3>2. Applied'[o] = Applied[o] /\ ReadAgain' = ReadAgain /\ Dump' = Dump
      BY <1>6, <1>7, <1>16, <2>3
    <3>3. UNCHANGED dumpAt /\ dumpAt.d \in Nat /\ dpos \in Nat
      BY <1>5
    <3>4. QED
      BY <1>6, <3>1, <3>2, <3>3, BackStays
  <2>5. Clear(o) => Replayed(o)'
    <3> SUFFICES ASSUME Clear(o) PROVE Replayed(o)'
      OBVIOUS
    <3>1. SizeIsNodes(o)'
      BY <1>16, <2>1 DEF SizeIsNodes
    <3>2. NewIsNodes(o)'
      <4> SUFFICES ASSUME WaitingNew(o)
                   PROVE  pending_new_diffs[o].sz > 0 /\ (Back(o)' \/ Silent(o)')
        BY <1>16, <2>1 DEF NewIsNodes
      <4>1. pending_new_diffs[o].sz > 0 /\ (pending_new_diffs[o].sz = Applied[o] \/ Back(o) \/ Silent(o))
        BY <1>5, <1>6, <1>16 DEF ReplayOK, Replayed, NewIsNodes
      <4>2. QED
        BY <1>6, <1>8, <2>3, <2>4, <4>1
    <3>3. NoneMissing(o)'
      BY <1>14, <1>16 DEF NoneMissing
    <3>4. QED
      BY <3>1, <3>2, <3>3 DEF Replayed
  <2>6. o \notin ReadAgain => Bounded(o)'
    BY <1>5, <1>6, <1>16, <2>1, <2>3 DEF ReplayOK, Bounded
  <2>7. SinceResumed(o)'
    BY <1>6, <1>10, <2>1
  <2>8. ReplayOK(o)'
    BY <1>6, <1>7, <2>5, <2>6, <2>7 DEF ReplayOK
  <2>9. \A p \in Oid \ {o} : ReplayOK(p)'
    BY <1>11, <2>1
  <2>10. QED
    BY <2>2, <2>8, <2>9
<1>17. QED
  BY <1>12, <1>13, <1>15, <1>16

\* A status: the New it completes rests, if the dump does not have it.
LEMMA StatusKeepsReplay ==
  ASSUME HandoffInv, ApplyStatus, UNCHANGED <<dumpAt, resumedAt, inStep>>, Trusted'
  PROVE  StoredOK' /\ \A p \in Oid : ReplayOK(p)'
<1>1. PICK o : o = NextStatus.oid
  OBVIOUS
<1>2. PICK n : n = pending_new_diffs[o]
  OBVIOUS
<1>3. /\ UNCHANGED <<nodeVars, ready, dpos, aged, zeroed, loss>> /\ spos < Len(slog) /\ spos' = spos + 1
      /\ \/ /\ WaitingNew(o) /\ AddOrderBefore(o, n.sz, n.before)
            /\ pending_new_diffs' = [pending_new_diffs EXCEPT ![o] = NoNew]
         \/ UNCHANGED <<bookVars, pending_new_diffs>>
  <2>1. ReadStatus
    BY DEF ApplyStatus, StatusCompletesNew, StatusWaits, StatusIgnored, StatusFails
  <2>2. CASE StatusFails
    BY <2>2 DEF StatusFails, Trusted
  <2>3. CASE StatusCompletesNew
    BY <1>1, <1>2, <2>1, <2>3 DEF StatusCompletesNew, ReadStatus
  <2>4. CASE StatusWaits
    BY <2>1, <2>4 DEF StatusWaits, ReadStatus
  <2>5. CASE StatusIgnored
    BY <2>1, <2>5 DEF StatusIgnored, ReadStatus
  <2>6. QED
    BY <2>2, <2>3, <2>4, <2>5 DEF ApplyStatus
<1>4. Trusted
  BY <1>3 DEF Trusted
<1>5. /\ NodeInv /\ slog \in Seq(Status) /\ dlog \in Seq(Diff)
      /\ dpos \in Nat /\ spos \in Nat /\ dpos \in 0..Len(dlog) /\ Len(dlog) \in Nat /\ Len(slog) \in Nat
      /\ Len(nodeSz) = Len(dlog) + 1 /\ dumpAt.d \in Nat /\ resumedAt.d \in Nat
      /\ Applied \in [Oid -> Nat] /\ Later \in [Oid -> Nat]
      /\ BookTypeOK /\ Few(sz) /\ sz \in [Oid -> Nat] /\ queue \in [Level -> Seq(Oid)]
      /\ pending_new_diffs \in [Oid -> PendingNew] /\ zeroed \in [Oid -> Nat]
      /\ \A p \in Oid : Paired(p) /\ ReplayOK(p)
  BY <1>4, HandoffStart DEF ControlTypeOK
<1>6. PICK k \in DOMAIN slog : k = spos + 1
  BY <1>3, <1>5
<1>7. o \in Oid /\ slog[k].oid = o /\ ~(k <= spos)
  <2>1. NextStatus \in Status
    BY <1>5, <1>6 DEF NextStatus
  <2>2. QED
    BY <1>1, <1>5, <1>6, <2>1 DEF NextStatus, Status
<1>8. ReadAgain' = ReadAgain /\ Dump' = Dump /\ \A p \in Oid : Clear(p)' <=> Clear(p)
  BY <1>3, SameDump
<1>9. Applied' = Applied /\ Later' = Later
  BY <1>3, <1>8 DEF Applied, Later, nodeVars
<1>10. ASSUME NEW p \in Oid, WaitingNew(p)' => WaitingNew(p) /\ pending_new_diffs'[p] = pending_new_diffs[p]
       PROVE  SinceResumed(p)' /\ (Back(p) => Back(p)') /\ (Silent(p) => Silent(p)')
  <2>1. SinceResumed(p) /\ zeroed[p] \in Nat /\ dpos' \in Nat /\ dpos <= dpos'
        /\ zeroed'[p] = zeroed[p] /\ Applied'[p] = Applied[p]
    BY <1>3, <1>5, <1>9 DEF ReplayOK
  <2>2. SinceResumed(p)'
    BY <1>3, <1>5, <1>10, <2>1, StillSince
  <2>3. Back(p) => Back(p)'
    BY <1>5, <1>8, <2>1, BackStays
  <2>4. Silent(p) => Silent(p)'
    BY <1>3, <1>5, SilentStays
  <2>5. QED
    BY <2>2, <2>3, <2>4
<1>11. ASSUME NEW p \in Oid, sz'[p] \in Nat, sz'[p] <= sz[p], Clear(p) => sz'[p] = sz[p] \/ Back(p),
              pending_new_diffs'[p] = pending_new_diffs[p]
       PROVE  ReplayOK(p)'
  <2>1. WaitingNew(p)' <=> WaitingNew(p)
    BY <1>11 DEF WaitingNew
  <2>2. SinceResumed(p)' /\ (Back(p) => Back(p)') /\ (Silent(p) => Silent(p)')
    BY <1>10, <1>11, <2>1
  <2>3. QED
    BY <1>5, <1>8, <1>9, <1>11, <2>1, <2>2, OrderStays
<1>12. CASE UNCHANGED <<bookVars, pending_new_diffs>>
  <2>1. sz' = sz /\ queue' = queue /\ pending_new_diffs' = pending_new_diffs
    BY <1>12 DEF bookVars
  <2>2. StoredOK'
    BY <1>5, <2>1 DEF StoredOK, BookTypeOK, Few
  <2>3. ASSUME NEW p \in Oid PROVE ReplayOK(p)'
    <3>1. sz'[p] = sz[p] /\ sz'[p] \in Nat /\ sz'[p] <= sz[p]
      BY <1>5, <2>1
    <3>2. QED
      BY <1>11, <2>1, <3>1
  <2>4. QED
    BY <2>2, <2>3
<1>13. CASE /\ WaitingNew(o) /\ AddOrderBefore(o, n.sz, n.before)
            /\ pending_new_diffs' = [pending_new_diffs EXCEPT ![o] = NoNew]
  <2>1. /\ pending_new_diffs' \in [Oid -> PendingNew] /\ pending_new_diffs'[o] = NoNew
        /\ \A p \in Oid \ {o} : pending_new_diffs'[p] = pending_new_diffs[p]
    <3>1. NoNew \in PendingNew
      BY DEF NoNew, PendingNew
    <3>2. QED
      BY <1>5, <1>7, <1>13, <3>1
  <2>2. ~WaitingNew(o)' /\ n \in PendingNew
    BY <1>2, <1>5, <1>7, <2>1 DEF WaitingNew, NoNew
  <2>3. SinceResumed(o)' /\ (Back(o) => Back(o)')
    BY <1>7, <1>10, <2>2
  <2>4. CASE sz[o] > 0
    <3>1. sz' = sz /\ queue' = queue
      BY <1>13, <2>4 DEF AddOrderBefore, bookVars
    <3>2. StoredOK'
      BY <1>5, <2>1, <3>1 DEF StoredOK, BookTypeOK, Few
    <3>3. Clear(o) => Replayed(o)'
      <4> SUFFICES ASSUME Clear(o) PROVE Replayed(o)'
        OBVIOUS
      <4>1. SizeIsNodes(o)
        BY <1>5, <1>7 DEF ReplayOK, Replayed
      <4>2. SizeIsNodes(o)'
        BY <1>9, <2>3, <3>1, <4>1 DEF SizeIsNodes
      <4>3. QED
        BY <2>2, <2>4, <3>1, <4>2 DEF Replayed, NewIsNodes, NoneMissing
    <3>4. o \in ReadAgain
      BY <1>5, <1>7, <1>13, <2>4 DEF ReplayOK, Bounded
    <3>5. ReplayOK(o)'
      BY <1>7, <1>8, <2>3, <3>3, <3>4 DEF ReplayOK
    <3>6. ASSUME NEW p \in Oid \ {o} PROVE ReplayOK(p)'
      <4>1. sz'[p] = sz[p] /\ sz'[p] \in Nat /\ sz'[p] <= sz[p]
        BY <1>5, <3>1
      <4>2. QED
        BY <1>11, <2>1, <4>1
    <3>7. QED
      BY <3>2, <3>5, <3>6
  <2>5. CASE ~(sz[o] > 0)
    <3>1. sz[o] = 0 /\ n.sz \in Nat
      BY <1>5, <1>7, <2>2, <2>5 DEF PendingNew
    <3>2. ~Silent(o)
      BY <1>6, <1>7 DEF Silent
    <3>3. Clear(o) => n.sz > 0 /\ (n.sz = Applied[o] \/ Back(o))
      BY <1>2, <1>5, <1>7, <1>13, <3>1, <3>2 DEF ReplayOK, Replayed, NewIsNodes
    \* The New of an order that is not read again was read past the dump.
    <3>4. o \notin ReadAgain => n.sz = Applied[o] /\ Applied[o] > 0 /\ dpos >= dumpAt.d
      <4> SUFFICES ASSUME o \notin ReadAgain PROVE n.sz = Applied[o] /\ Applied[o] > 0 /\ dpos >= dumpAt.d
        OBVIOUS
      <4>1. n.sz = Applied[o] /\ Applied[o] > 0
        BY <1>2, <1>5, <1>7, <1>13 DEF ReplayOK, Bounded
      <4>2. n.at \in 1..dpos /\ NewAt(o, n.at) /\ n.at > resumedAt.d
        BY <1>2, <1>5, <1>7, <1>13 DEF Paired, ReplayOK, SinceResumed
      <4>3. PICK i : i = n.at
        OBVIOUS
      <4>4. i \in DOMAIN dlog /\ i <= dpos /\ i \in Nat
        BY <1>5, <4>2, <4>3
      <4>5. i > dumpAt.d
        BY <1>7, <4>2, <4>3, <4>4, WhereNewIs
      <4>6. QED
        BY <1>5, <4>1, <4>4, <4>5
    <3>5. PICK j \in 1..Len(nodeSz) : j = dpos + 1
      BY <1>5
    <3>6. nodeSz[j] = Applied
      BY <3>5 DEF Applied
    <3>7. /\ sz' \in [Oid -> Nat] /\ queue' \in [Level -> Seq(Oid)] /\ Few(sz')
          /\ sz'[o] <= n.sz
          /\ Clear(o) /\ n.sz > 0 /\ Applied[o] > 0 => sz'[o] = n.sz
          /\ \A m \in Oid \ {o} : sz'[m] <= sz[m] /\ (Clear(m) => sz'[m] = sz[m] \/ Back(m))
      BY <1>4, <1>7, <1>13, <3>1, <3>4, <3>6, Added
    <3>8. StoredOK'
      BY <2>1, <3>7 DEF StoredOK, BookTypeOK, Few
    <3>9. Clear(o) => Replayed(o)'
      <4> SUFFICES ASSUME Clear(o) PROVE Replayed(o)'
        OBVIOUS
      <4>1. CASE n.sz = Applied[o]
        <5>1. sz'[o] = Applied'[o] /\ sz'[o] > 0
          BY <1>9, <3>3, <3>7, <4>1
        <5>2. QED
          BY <2>2, <5>1 DEF Replayed, SizeIsNodes, NewIsNodes, NoneMissing
      <4>2. CASE Back(o)
        <5>1. Back(o)' /\ Applied[o] = 0 /\ Later[o] = Applied[o]
          BY <1>5, <2>3, <4>2 DEF Back, MayComeBack, Later
        <5>2. Later'[o] = 0
          BY <1>9, <5>1
        <5>3. QED
          BY <2>2, <5>1, <5>2 DEF Replayed, SizeIsNodes, NewIsNodes, NoneMissing
      <4>3. QED
        BY <3>3, <4>1, <4>2
    <3>10. o \notin ReadAgain => Bounded(o)'
      <4> SUFFICES ASSUME o \notin ReadAgain PROVE Bounded(o)'
        OBVIOUS
      <4>1. sz'[o] <= Applied'[o] /\ Applied'[o] > 0
        BY <1>9, <3>4, <3>7
      <4>2. QED
        BY <2>2, <4>1 DEF Bounded
    <3>11. ReplayOK(o)'
      BY <1>7, <1>8, <2>3, <3>9, <3>10 DEF ReplayOK
    <3>12. ASSUME NEW p \in Oid \ {o} PROVE ReplayOK(p)'
      BY <1>11, <2>1, <3>7
    <3>13. QED
      BY <3>8, <3>11, <3>12
  <2>6. QED
    BY <2>4, <2>5
<1>14. QED
  BY <1>3, <1>12, <1>13

\* A cleanup drops what waits; a New it drops and calls no loss is a protocol order's.
LEMMA CleanupKeepsReplay ==
  ASSUME HandoffInv, NEW i, NEW j, cleanup_stale_pending(i, j), UNCHANGED <<dumpAt, resumedAt, inStep>>, Trusted'
  PROVE  StoredOK' /\ \A p \in Oid : ReplayOK(p)'
<1> DEFINE newAt == [o \in Oid |-> pending_new_diffs[o].at]
           agedStatuses == {o \in Oid : WaitingStatus(o) /\ pending_order_statuses[o] <= i}
           agedNews == {o \in Oid : WaitingNew(o) /\ newAt[o] <= j}
           overStatuses == Excess({o \in Oid : WaitingStatus(o)} \ agedStatuses, MAX_PENDING_ORDERS,
                                  pending_order_statuses)
           overNews == Excess({o \in Oid : WaitingNew(o)} \ agedNews, MAX_PENDING_DIFFS, newAt)
           N == agedNews \cup overNews
<1>1. /\ UNCHANGED <<nodeVars, ready, dpos, spos, bookVars, zeroed>>
      /\ pending_new_diffs' =
           [o \in Oid |-> IF o \in agedNews \cup overNews THEN NoNew ELSE pending_new_diffs[o]]
      /\ loss' = (loss \/ Lost(agedNews, overStatuses, overNews))
  BY DEF cleanup_stale_pending
<1> HIDE DEF agedStatuses, agedNews, overStatuses, overNews
<1>2. Trusted /\ N \subseteq Protocol
  BY <1>1 DEF Trusted, Lost
<1>3. pending_new_diffs' = [o \in Oid |-> IF o \in N THEN NoNew ELSE pending_new_diffs[o]]
  BY <1>1
<1> HIDE DEF N
<1>4. /\ slog \in Seq(Status) /\ dpos \in Nat /\ spos \in Nat /\ dumpAt.d \in Nat
      /\ Applied \in [Oid -> Nat] /\ Later \in [Oid -> Nat]
      /\ BookTypeOK /\ Few(sz) /\ sz \in [Oid -> Nat] /\ queue \in [Level -> Seq(Oid)]
      /\ pending_new_diffs \in [Oid -> PendingNew] /\ zeroed \in [Oid -> Nat]
      /\ \A p \in Oid : ReplayOK(p)
  BY <1>2, HandoffStart DEF ControlTypeOK
<1>5. ReadAgain' = ReadAgain /\ Dump' = Dump /\ \A p \in Oid : Clear(p)' <=> Clear(p)
  BY <1>1, SameDump
<1>6. sz' = sz /\ queue' = queue /\ Applied' = Applied /\ Later' = Later
  BY <1>1, <1>5 DEF Applied, Later, nodeVars, bookVars
<1>7. StoredOK'
  <2>1. NoNew \in PendingNew
    BY DEF NoNew, PendingNew
  <2>2. QED
    BY <1>3, <1>4, <1>6, <2>1 DEF StoredOK, BookTypeOK, Few
<1>8. ASSUME NEW p \in Oid PROVE ReplayOK(p)'
  <2>1. pending_new_diffs'[p] = pending_new_diffs[p] \/ (p \in Protocol /\ pending_new_diffs'[p] = NoNew)
    BY <1>2, <1>3
  <2>2. WaitingNew(p)' => WaitingNew(p) /\ pending_new_diffs'[p] = pending_new_diffs[p]
    BY <2>1 DEF WaitingNew, NoNew
  <2>3. p \notin Protocol /\ WaitingNew(p) => WaitingNew(p)'
    BY <2>1 DEF WaitingNew
  <2>4. Silent(p) => Silent(p)'
    BY <1>1, <1>4, SilentStays
  <2>5. Back(p) => Back(p)'
    BY <1>1, <1>4, <1>5, <1>6, BackStays
  <2>6. SinceResumed(p)'
    <3>1. SinceResumed(p) /\ zeroed[p] \in Nat /\ dpos' \in Nat /\ dpos <= dpos' /\ zeroed'[p] = zeroed[p]
      BY <1>1, <1>4 DEF ReplayOK
    <3>2. QED
      BY <1>1, <1>4, <2>2, <3>1, StillSince
  <2>7. sz[p] \in Nat /\ sz'[p] \in Nat /\ sz'[p] <= sz[p] /\ sz'[p] = sz[p]
    BY <1>4, <1>6
  <2>8. QED
    BY <1>4, <1>5, <1>6, <2>2, <2>3, <2>4, <2>5, <2>6, <2>7, OrderStays
<1>9. QED
  BY <1>7, <1>8

\* An install: the book is the dump's.
LEMMA LateInstallKeepsReplay ==
  ASSUME HandoffInv, NEW c \in DOMAIN cuts, NEW d \in DOMAIN cuts, c <= d, InstallAt(c, d),
         dumpAt' = cuts[d], resumedAt' = cuts[c]
  PROVE  /\ StoredOK' /\ \A p \in Oid : ReplayOK(p)'
         /\ dumpAt'.d \in 0..Len(dlog') /\ resumedAt'.d \in 0..dumpAt'.d /\ resumedAt'.d <= dpos'
<1>1. /\ UNCHANGED nodeVars /\ dpos' = cuts[c].d
      /\ sz' = nodeSz[cuts[d].d + 1] /\ queue' = nodeQueue[cuts[d].d + 1]
      /\ pending_new_diffs' = [o \in Oid |-> NoNew] /\ zeroed' = [o \in Oid |-> 0]
  BY DEF InstallAt, ResumeAfter
<1>2. /\ NodeInv /\ CutsRise /\ StartsEmpty /\ RestsByNew /\ Len(dlog) \in Nat
      /\ nodeSz \in Seq([Oid -> Nat]) /\ Len(nodeSz) = Len(dlog) + 1
  BY HandoffStart DEF HandoffInv, QueuesOK
<1>3. nodeQueue \in Seq([Level -> Seq(Oid)]) /\ Len(nodeQueue) = Len(dlog) + 1
  BY <1>2 DEF NodeInv, NodeTypeOK, HistoryOK
<1>4. \A e \in DOMAIN cuts : cuts[e].d \in 0..Len(dlog)
  <2> SUFFICES ASSUME NEW e \in DOMAIN cuts PROVE cuts[e].d \in 0..Len(dlog)
    OBVIOUS
  <2>1. cuts[e] \in Cut /\ cuts[e].d <= Len(dlog)
    BY <1>2 DEF NodeInv, NodeTypeOK, CutsOK
  <2>2. QED
    BY <1>2, <2>1 DEF Cut
<1>5. PICK n \in 0..Len(dlog) : n = cuts[d].d
  BY <1>4
<1>6. PICK r \in 0..Len(dlog) : r = cuts[c].d
  BY <1>4
<1>7. /\ dumpAt'.d = n /\ resumedAt'.d = r /\ dpos' = r /\ r <= n /\ n \in Nat /\ r \in Nat
      /\ dlog' = dlog /\ nodeSz' = nodeSz
  BY <1>1, <1>2, <1>5, <1>6 DEF CutsRise, nodeVars
<1>8. PICK j \in 1..Len(nodeSz) : j = n + 1
  BY <1>2, <1>7
<1>9. PICK k \in 1..Len(nodeSz) : k = r + 1
  BY <1>2, <1>7
<1>10. sz' = nodeSz[j] /\ queue' = nodeQueue[j]
  BY <1>1, <1>5, <1>8
<1>11. sz' \in [Oid -> Nat] /\ queue' \in [Level -> Seq(Oid)] /\ Few(sz')
  <2>1. nodeSz[j] \in [Oid -> Nat]
    BY <1>2
  <2>2. nodeQueue[j] \in [Level -> Seq(Oid)]
    BY <1>2, <1>3
  <2>3. Few(nodeSz[j])
    BY <1>2, NodeHasFew
  <2>4. QED
    BY <1>10, <2>1, <2>2, <2>3
<1>12. NoNew \in PendingNew /\ ~(NoNew.at > 0)
  BY DEF NoNew, PendingNew
<1>13. StoredOK'
  BY <1>1, <1>11, <1>12 DEF StoredOK, BookTypeOK, Few
<1>14. Dump' = sz' /\ Applied' = nodeSz[k]
  BY <1>7, <1>8, <1>9, <1>10 DEF Dump, Applied
<1>15. Later' = sz'
  <2>1. CASE dpos' < dumpAt'.d
    BY <1>14, <2>1 DEF Later
  <2>2. CASE ~(dpos' < dumpAt'.d)
    <3>1. r = n
      BY <1>7, <2>2
    <3>2. Applied' = sz'
      BY <1>8, <1>9, <1>10, <1>14, <3>1
    <3>3. QED
      BY <2>2, <3>2 DEF Later
  <2>3. QED
    BY <2>1, <2>2
<1>16. ASSUME NEW p \in Oid PROVE ReplayOK(p)'
  <2>1. ~WaitingNew(p)' /\ SinceResumed(p)'
    BY <1>1, <1>12 DEF SinceResumed, WaitingNew
  <2>2. Replayed(p)'
    BY <1>15, <2>1 DEF Replayed, SizeIsNodes, NewIsNodes, NoneMissing
  \* What the dump has and the replay does not read again rested where it starts.
  <2>3. ASSUME p \notin ReadAgain' PROVE Bounded(p)'
    <3>1. ASSUME sz'[p] > 0 PROVE nodeSz[k][p] > 0
      <4> SUFFICES ASSUME ~(nodeSz[k][p] > 0) PROVE FALSE
        OBVIOUS
      <4>1. nodeSz[k] \in [Oid -> Nat]
        BY <1>2
      <4>2. nodeSz[k][p] = 0 /\ nodeSz[j][p] > 0
        BY <1>10, <3>1, <4>1
      <4>3. k < j
        BY <1>7, <1>8, <1>9, <4>2
      <4>4. PICK i \in k..(j - 1) : NewAt(p, i)
        BY <1>2, <4>2, <4>3 DEF RestsByNew
      <4>5. i \in (r + 1)..n
        BY <1>7, <1>8, <1>9, <4>4
      <4>6. p \in ReadAgain'
        BY <1>7, <4>4, <4>5 DEF ReadAgain, NewAt
      <4>7. QED
        BY <2>3, <4>6
    <3>2. sz'[p] \in Nat /\ sz'[p] <= Later'[p]
      BY <1>11, <1>15
    <3>3. QED
      BY <1>14, <2>1, <3>1, <3>2 DEF Bounded
  <2>4. QED
    BY <2>1, <2>2, <2>3 DEF ReplayOK
<1>17. dumpAt'.d \in 0..Len(dlog') /\ resumedAt'.d \in 0..dumpAt'.d /\ resumedAt'.d <= dpos'
  BY <1>2, <1>7
<1>18. QED
  BY <1>13, <1>16, <1>17

\* The node writes on: a status it adds is of an order it is not done with.
LEMMA NodeKeepsReplay ==
  ASSUME HandoffInv, NodeStep, UNCHANGED <<dumpAt, resumedAt, inStep>>, Trusted
  PROVE  StoredOK' /\ \A p \in Oid : ReplayOK(p)'
<1>1. UNCHANGED stateVars /\ NodeNext
  BY DEF NodeStep
<1>2. /\ NodeInv /\ GoneForGood
      /\ dlog \in Seq(Diff) /\ slog \in Seq(Status) /\ Len(dlog) \in Nat /\ Len(slog) \in Nat
      /\ dpos \in 0..Len(dlog) /\ dpos \in Nat /\ spos \in Nat /\ spos \in 0..Len(slog)
      /\ dumpAt.d \in 0..Len(dlog) /\ dumpAt.d \in Nat /\ resumedAt.d \in Nat
      /\ Applied \in [Oid -> Nat] /\ Later \in [Oid -> Nat] /\ sz \in [Oid -> Nat] /\ zeroed \in [Oid -> Nat]
      /\ BookTypeOK /\ Few(sz) /\ \A p \in Oid : ReplayOK(p)
  BY HandoffStart DEF ControlTypeOK
<1>3. FilesGrow
  BY <1>1, <1>2, NodeNextInv
<1>4. PICK o \in Oid : \E ss : Block(o, ss)
  BY <1>1, <1>2, NodeStepIsBlock
<1>5. PICK ss : Block(o, ss)
  BY <1>4
<1>6. /\ DOMAIN slog = 1..Len(slog)
      /\ DOMAIN slog' = 1..Len(slog') /\ Len(slog') \in Nat
      /\ DOMAIN dlog = 1..Len(dlog)
      /\ \A k \in DOMAIN slog : slog'[k] = slog[k]
      /\ \A i \in DOMAIN dlog : dlog'[i] = dlog[i]
      /\ \A k \in DOMAIN slog' : k > Len(slog) => slog'[k].oid = o
      /\ ss = <<>> => Len(slog') = Len(slog)
  BY <1>2, <1>5, BlockFiles
<1>7. /\ sz' = sz /\ queue' = queue /\ pending_new_diffs' = pending_new_diffs /\ zeroed' = zeroed
      /\ dpos' = dpos /\ spos' = spos /\ dumpAt' = dumpAt /\ resumedAt' = resumedAt /\ inStep' = inStep
  BY <1>1 DEF stateVars
<1>8. PICK n \in Nat : n = Len(dlog)
  BY <1>2
<1>9. /\ DOMAIN dlog = 1..n /\ dpos \in 0..n /\ dumpAt.d \in 0..n
      /\ \A i \in 1..n : dlog'[i] = dlog[i]
      /\ \A i \in 1..(n + 1) : nodeSz'[i] = nodeSz[i]
  BY <1>2, <1>3, <1>6, <1>8 DEF FilesGrow
<1>10. Applied' = Applied /\ Dump' = Dump /\ Later' = Later
  <2>1. dpos + 1 \in 1..(n + 1) /\ dumpAt.d + 1 \in 1..(n + 1)
    BY <1>9
  <2>2. nodeSz'[dpos + 1] = nodeSz[dpos + 1] /\ nodeSz'[dumpAt.d + 1] = nodeSz[dumpAt.d + 1]
    BY <1>9, <2>1
  <2>3. Applied' = Applied /\ Dump' = Dump
    BY <1>7, <2>2 DEF Applied, Dump
  <2>4. QED
    BY <1>7, <2>3 DEF Later
<1>11. ReadAgain' = ReadAgain /\ \A p \in Oid : Clear(p)' <=> Clear(p)
  <2>1. \A i \in (resumedAt.d + 1)..dumpAt.d : dlog'[i] = dlog[i]
    BY <1>2, <1>9
  <2>2. ReadAgain' = ReadAgain
    BY <1>7, <2>1 DEF ReadAgain
  <2>3. QED
    BY <2>2 DEF Clear
<1>12. StoredOK'
  BY <1>2, <1>7 DEF StoredOK, BookTypeOK, Few
<1>13. ASSUME NEW p \in Oid, Silent(p) PROVE Silent(p)'
  <2>1. PICK i \in 1..dpos : Departed(p, i) /\ \A k \in DOMAIN slog : slog[k].oid = p => k <= spos
    BY <1>13 DEF Silent
  <2>2. i \in DOMAIN dlog /\ dlog'[i] = dlog[i]
    BY <1>9
  <2>3. phase[p] \in {"zeroed", "gone"}
    BY <1>2, <2>1, <2>2 DEF GoneForGood
  <2>4. p = o => ss = <<>>
    BY <1>5, <2>3 DEF Block, Comes, Passes, Changes
  <2>5. ASSUME NEW k \in DOMAIN slog', slog'[k].oid = p PROVE k <= spos
    <3>1. k \in DOMAIN slog
      <4> SUFFICES ASSUME k \notin DOMAIN slog PROVE FALSE
        OBVIOUS
      <4>1. k \in Nat /\ k > Len(slog) /\ k <= Len(slog')
        <5>1. PICK m \in Nat : m = Len(slog)
          BY <1>2
        <5>2. PICK q \in Nat : q = Len(slog')
          BY <1>6
        <5>3. DOMAIN slog = 1..m /\ DOMAIN slog' = 1..q
          BY <1>6, <5>1, <5>2
        <5>4. QED
          BY <5>1, <5>2, <5>3
      <4>2. p = o /\ Len(slog') = Len(slog)
        BY <1>6, <2>4, <2>5, <4>1
      <4>3. QED
        BY <1>2, <4>1, <4>2
    <3>2. QED
      BY <1>6, <2>1, <2>5, <3>1
  <2>6. QED
    BY <1>7, <2>1, <2>2, <2>5 DEF Silent, Departed
<1>14. ASSUME NEW p \in Oid PROVE ReplayOK(p)'
  <2>1. SinceResumed(p)'
    <3>1. PICK z \in Nat : z = zeroed[p]
      BY <1>2
    <3>2. z > 0 => z <= dpos /\ Departed(p, z) /\ dlog'[z] = dlog[z]
      BY <1>2, <1>9, <3>1 DEF ReplayOK, SinceResumed
    <3>3. z > 0 => z <= dpos /\ Departed(p, z)'
      BY <3>2 DEF Departed
    <3>4. WaitingNew(p)' => pending_new_diffs'[p].at > resumedAt'.d
      BY <1>2, <1>7 DEF ReplayOK, SinceResumed, WaitingNew
    <3>5. QED
      BY <1>7, <3>1, <3>3, <3>4 DEF SinceResumed, Departed
  <2>2. Back(p) => Back(p)'
    BY <1>7, <1>10, <1>11 DEF Back, MayComeBack
  <2>3. WaitingNew(p)' <=> WaitingNew(p)
    BY <1>7 DEF WaitingNew
  <2>4. sz[p] \in Nat /\ sz'[p] = sz[p] /\ sz'[p] \in Nat /\ sz'[p] <= sz[p]
    BY <1>2, <1>7
  <2>5. QED
    BY <1>2, <1>7, <1>10, <1>11, <1>13, <2>1, <2>2, <2>3, <2>4, OrderStays
<1>15. QED
  BY <1>12, <1>14

-----------------------------------------------------------------------------
(* The control state, whatever is in the book.                             *)

LEMMA AddSetsFallback ==
  ASSUME insert_before_fallbacks \in BOOLEAN, NEW o, NEW s, NEW b, AddOrderBefore(o, s, b)
  PROVE  insert_before_fallbacks' \in BOOLEAN
BY DEF AddOrderBefore, bookVars

LEMMA DiffKeepsControl ==
  ASSUME ControlTypeOK, ApplyDiff
  PROVE  ControlTypeOK'
<1>1. PICK kind : ReadDiff(kind)
  BY DEF ApplyDiff, ApplyNew, ApplyUpdate, ApplyRemove, DiffFails
<1>2. /\ dlog \in Seq(Diff) /\ Len(dlog) \in Nat /\ dpos \in 0..Len(dlog)
      /\ zeroed \in [Oid -> Nat] /\ pending_order_statuses \in [Oid -> Nat]
      /\ insert_before_fallbacks \in BOOLEAN /\ loss \in BOOLEAN
  BY DEF ControlTypeOK, NodeTypeOK
<1>3. /\ UNCHANGED nodeVars /\ dpos < Len(dlog) /\ dpos' = dpos + 1
      /\ UNCHANGED <<ready, spos, untriggered_orders, aged>>
  BY <1>1 DEF ReadDiff
<1>4. dpos' \in 0..Len(dlog) /\ dpos + 1 \in Nat
  BY <1>2, <1>3
<1>5. Remembered(dpos + 1) \in [Oid -> Nat]
  BY <1>2, <1>4, RememberedType
<1>6. PICK o : o = NextDiff.oid
  OBVIOUS
<1>7. zeroed' \in [Oid -> Nat]
  <2>1. \/ zeroed' = Remembered(dpos + 1)
        \/ zeroed' = [Remembered(dpos + 1) EXCEPT ![o] = IF @ > 0 THEN @ ELSE dpos + 1]
        \/ zeroed' = [Remembered(dpos + 1) EXCEPT ![o] = 0]
    BY <1>6 DEF ApplyDiff, ApplyNew, ApplyUpdate, ApplyRemove, DiffFails
  <2>2. QED
    BY <1>4, <1>5, <2>1
<1>8. pending_order_statuses' \in [Oid -> Nat]
  <2>1. \/ pending_order_statuses' = pending_order_statuses
        \/ pending_order_statuses' = [pending_order_statuses EXCEPT ![o] = 0]
    BY <1>6 DEF ApplyDiff, ApplyNew, ApplyUpdate, ApplyRemove, DiffFails
  <2>2. QED
    BY <1>2, <2>1
<1>9. loss' \in BOOLEAN
  BY <1>2 DEF ApplyDiff, ApplyNew, ApplyUpdate, ApplyRemove, DiffFails
<1>10. insert_before_fallbacks' \in BOOLEAN
  <2>1. CASE ApplyNew
    <3>1. \/ AddOrderBefore(NextDiff.oid, NextDiff.sz, NextDiff.before)
          \/ UNCHANGED bookVars
      BY <2>1 DEF ApplyNew
    <3>2. QED
      BY <1>2, <3>1, AddSetsFallback DEF bookVars
  <2>2. CASE ApplyUpdate \/ ApplyRemove \/ DiffFails
    BY <1>2, <2>2 DEF ApplyUpdate, ApplyRemove, DiffFails, ModifySz, CancelOrder, bookVars
  <2>3. QED
    BY <2>1, <2>2 DEF ApplyDiff
<1>11. QED
  BY <1>3, <1>4, <1>7, <1>8, <1>9, <1>10 DEF ControlTypeOK, NodeTypeOK, nodeVars

LEMMA StatusKeepsControl ==
  ASSUME ControlTypeOK, ApplyStatus
  PROVE  ControlTypeOK'
<1>1. ReadStatus /\ UNCHANGED <<nodeVars, ready, dpos, zeroed, aged>>
  BY DEF ApplyStatus, StatusCompletesNew, StatusWaits, StatusIgnored, StatusFails
<1>2. /\ slog \in Seq(Status) /\ Len(slog) \in Nat /\ spos \in 0..Len(slog)
      /\ untriggered_orders \in SUBSET Oid /\ pending_order_statuses \in [Oid -> Nat]
      /\ insert_before_fallbacks \in BOOLEAN /\ loss \in BOOLEAN
  BY DEF ControlTypeOK, NodeTypeOK
<1>3. spos < Len(slog) /\ spos' = spos + 1 /\ TrackUntriggered(NextStatus)
  BY <1>1 DEF ReadStatus
<1>4. spos' \in 0..Len(slog) /\ spos + 1 \in Nat /\ spos + 1 \in DOMAIN slog
  BY <1>2, <1>3
<1>5. NextStatus \in Status
  BY <1>2, <1>4 DEF NextStatus
<1>6. NextStatus.oid \in Oid
  BY <1>5 DEF Status
<1>7. untriggered_orders' \in SUBSET Oid
  BY <1>2, <1>3, <1>6 DEF TrackUntriggered
<1>8. pending_order_statuses' \in [Oid -> Nat] /\ loss' \in BOOLEAN
  BY <1>2, <1>4, <1>6 DEF ApplyStatus, StatusCompletesNew, StatusWaits, StatusIgnored, StatusFails
<1>9. insert_before_fallbacks' \in BOOLEAN
  <2>1. CASE StatusCompletesNew
    <3>1. PICK o : o = NextStatus.oid
      OBVIOUS
    <3>2. AddOrderBefore(o, pending_new_diffs[o].sz, pending_new_diffs[o].before)
      BY <2>1, <3>1 DEF StatusCompletesNew
    <3>3. QED
      BY <1>2, <3>2, AddSetsFallback
  <2>2. CASE StatusWaits \/ StatusIgnored \/ StatusFails
    BY <1>2, <2>2 DEF StatusWaits, StatusIgnored, StatusFails, bookVars
  <2>3. QED
    BY <2>1, <2>2 DEF ApplyStatus
<1>10. QED
  BY <1>1, <1>4, <1>7, <1>8, <1>9 DEF ControlTypeOK, NodeTypeOK, nodeVars

LEMMA CleanupKeepsControl ==
  ASSUME ControlTypeOK, NEW i, NEW j, cleanup_stale_pending(i, j)
  PROVE  ControlTypeOK'
<1> DEFINE newAt == [o \in Oid |-> pending_new_diffs[o].at]
           statusAt == pending_order_statuses
           agedStatuses == {o \in Oid : WaitingStatus(o) /\ statusAt[o] <= i}
           agedNews == {o \in Oid : WaitingNew(o) /\ newAt[o] <= j}
           overStatuses == Excess({o \in Oid : WaitingStatus(o)} \ agedStatuses, MAX_PENDING_ORDERS, statusAt)
           overNews == Excess({o \in Oid : WaitingNew(o)} \ agedNews, MAX_PENDING_DIFFS, newAt)
<1>1. /\ UNCHANGED <<nodeVars, ready, dpos, spos, bookVars, zeroed, untriggered_orders>>
      /\ pending_order_statuses' =
           [o \in Oid |-> IF o \in agedStatuses \cup overStatuses THEN 0 ELSE pending_order_statuses[o]]
      /\ loss' = (loss \/ Lost(agedNews, overStatuses, overNews))
      /\ aged' = aged \cup agedStatuses
  BY DEF cleanup_stale_pending
<1>2. agedStatuses \subseteq Oid
  OBVIOUS
<1> HIDE DEF agedStatuses, agedNews, overStatuses, overNews
<1>3. pending_order_statuses' \in [Oid -> Nat]
  BY <1>1 DEF ControlTypeOK
<1>4. loss' \in BOOLEAN
  BY <1>1 DEF ControlTypeOK, Lost
<1>5. aged' \in SUBSET Oid
  BY <1>1, <1>2 DEF ControlTypeOK
<1>6. QED
  BY <1>1, <1>3, <1>4, <1>5 DEF ControlTypeOK, NodeTypeOK, nodeVars, bookVars

LEMMA InstallKeepsControl ==
  ASSUME ControlTypeOK, NodeInv, NEW c \in DOMAIN cuts, NEW d \in DOMAIN cuts, InstallAt(c, d)
  PROVE  ControlTypeOK'
<1>1. /\ UNCHANGED nodeVars /\ dpos' = cuts[c].d /\ spos' = cuts[c].s
      /\ pending_order_statuses' = [o \in Oid |-> 0]
      /\ zeroed' = [o \in Oid |-> 0]
      /\ ready' = TRUE /\ loss' = FALSE /\ insert_before_fallbacks' = FALSE /\ aged' = {}
  BY DEF InstallAt, ResumeAfter
<1>2. /\ cuts \in Seq(Cut) /\ Len(dlog) \in Nat /\ Len(slog) \in Nat
      /\ cuts[c].d <= Len(dlog) /\ cuts[c].s <= Len(slog)
  BY DEF NodeInv, NodeTypeOK, CutsOK
<1>3. cuts[c] \in Cut
  BY <1>2
<1>4. dpos' \in 0..Len(dlog) /\ spos' \in 0..Len(slog)
  BY <1>1, <1>2, <1>3 DEF Cut
<1>5. untriggered_orders' \in SUBSET Oid
  <2>1. untriggered_orders' = untriggered_orders \/ untriggered_orders' = ArmedAfter(cuts[d].s)
    BY DEF InstallAt
  <2>2. QED
    BY <2>1 DEF ControlTypeOK, ArmedAfter
<1>6. QED
  BY <1>1, <1>4, <1>5 DEF ControlTypeOK, NodeTypeOK, nodeVars

LEMMA NodeKeepsControl ==
  ASSUME ControlTypeOK, NodeInv, NodeStep
  PROVE  ControlTypeOK'
<1>1. NodeInv' /\ FilesGrow /\ UNCHANGED stateVars
  BY NodeNextInv DEF NodeStep
<1>2. /\ dpos \in 0..Len(dlog) /\ spos \in 0..Len(slog)
      /\ Len(dlog) \in Nat /\ Len(slog) \in Nat /\ Len(dlog') \in Nat /\ Len(slog') \in Nat
  BY <1>1 DEF ControlTypeOK, NodeInv, NodeTypeOK
<1>3. dpos' \in 0..Len(dlog') /\ spos' \in 0..Len(slog')
  BY <1>1, <1>2 DEF FilesGrow, stateVars
<1>4. QED
  BY <1>1, <1>3 DEF ControlTypeOK, NodeInv, stateVars

-----------------------------------------------------------------------------
(* The theorems.                                                           *)

LEMMA InitHandoff == HandoffInit => HandoffInv
<1> SUFFICES ASSUME HandoffInit PROVE HandoffInv
  OBVIOUS
<1>1. Init /\ dumpAt.d = 0 /\ resumedAt.d = 0
  BY DEF HandoffInit
<1>2. PairingInv /\ QueuesOK /\ ~Trusted
  BY <1>1, InitQueues DEF QueueInv, Init, Trusted
<1>3. NodeInv /\ ControlTypeOK /\ FilesAgree
  BY <1>2 DEF PairingInv, IInv
<1>4. StartsEmpty
  BY <1>1, InitStored
<1>5. dlog = <<>> /\ slog = <<>> /\ cuts = <<[d |-> 0, s |-> 0]>> /\ dpos = 0
  BY <1>1 DEF Init, NodeInit
<1>6. DOMAIN dlog = {} /\ DOMAIN slog = {} /\ Len(dlog) = 0
  BY <1>5
<1>7. cuts # <<>> /\ Len(cuts) = 1 /\ DOMAIN cuts = {1} /\ cuts[1].d = 0
  BY <1>5
<1>8. BlocksOK
  BY <1>6, <1>7 DEF BlocksOK, GoneForGood, CutsRise
<1>9. dumpAt.d \in 0..Len(dlog) /\ resumedAt.d \in 0..dumpAt.d /\ resumedAt.d <= dpos
  BY <1>1, <1>5, <1>6
<1>10. QED
  BY <1>2, <1>3, <1>4, <1>8, <1>9 DEF HandoffInv

LEMMA NextHandoff ==
  ASSUME HandoffInv, [HandoffNext]_handoffVars
  PROVE  HandoffInv'
<1>1. /\ PairsOK /\ NodeInv /\ ControlTypeOK /\ FilesAgree /\ BlocksOK /\ QueuesOK /\ StartsEmpty
      /\ Len(dlog) \in Nat /\ dpos \in Nat
      /\ dumpAt.d \in 0..Len(dlog) /\ resumedAt.d \in 0..dumpAt.d /\ resumedAt.d <= dpos /\ resumedAt.d \in Nat
  BY HandoffStart DEF HandoffInv
<1>2. ASSUME UNCHANGED nodeVars PROVE NodeInv' /\ FilesAgree' /\ BlocksOK' /\ QueuesOK' /\ StartsEmpty'
  <2>1. NodeInv'
    BY <1>1, <1>2 DEF NodeInv, NodeTypeOK, HistoryOK, DiffsOK, Uncrossed, PhaseOK, CutsOK, SzNow, nodeVars
  <2>2. FilesAgree'
    BY <1>1, <1>2, AgreementStays
  <2>3. BlocksOK'
    BY <1>1, <1>2 DEF BlocksOK, GoneForGood, CutsRise, Departed, nodeVars
  <2>4. QueuesOK'
    BY <1>1, <1>2 DEF QueuesOK, QueueHistory, NodeHoldsOnce, RestsByNew, OrderKept, NewAt, nodeVars
  <2>5. StartsEmpty'
    BY <1>1, <1>2 DEF StartsEmpty, nodeVars
  <2>6. QED
    BY <2>1, <2>2, <2>3, <2>4, <2>5
<1>3. ASSUME UNCHANGED <<nodeVars, dumpAt, resumedAt>>, dpos' \in Nat, dpos' >= dpos
      PROVE  dumpAt'.d \in 0..Len(dlog') /\ resumedAt'.d \in 0..dumpAt'.d /\ resumedAt'.d <= dpos'
  BY <1>1, <1>3 DEF nodeVars
<1>4. CASE LateInstall
  <2>1. PICK c \in DOMAIN cuts, d \in DOMAIN cuts :
          c <= d /\ InstallAt(c, d) /\ dumpAt' = cuts[d] /\ resumedAt' = cuts[c]
    BY <1>4 DEF LateInstall
  <2>2. UNCHANGED nodeVars
    BY <2>1 DEF InstallAt
  <2>3. ControlTypeOK'
    BY <1>1, <2>1, InstallKeepsControl
  <2>4. \A p \in Oid : Paired(p)'
    BY <1>1, <2>1, InstallKeepsPairs
  <2>5. /\ StoredOK' /\ \A p \in Oid : ReplayOK(p)'
        /\ dumpAt'.d \in 0..Len(dlog') /\ resumedAt'.d \in 0..dumpAt'.d /\ resumedAt'.d <= dpos'
    BY <2>1, LateInstallKeepsReplay
  <2>6. QED
    BY <1>2, <2>2, <2>3, <2>4, <2>5 DEF HandoffInv
<1>5. CASE NodeStep /\ UNCHANGED <<dumpAt, resumedAt, inStep>>
  <2>1. NodeNext /\ UNCHANGED stateVars
    BY <1>5 DEF NodeStep
  <2>2. NodeInv' /\ FilesGrow /\ BlocksOK'
    BY <1>1, <2>1, NodeNextInv, BlocksStay
  <2>3. FilesAgree'
    <3>1. PICK o \in Oid : \E ss : Block(o, ss)
      BY <1>1, <2>1, NodeStepIsBlock
    <3>2. PICK ss : Block(o, ss)
      BY <3>1
    <3>3. QED
      BY <1>1, <3>2, BlockKeepsAgreement
  <2>4. QueuesOK'
    BY <1>1, <1>5, NodeKeepsRecord
  <2>5. StartsEmpty'
    <3>1. 1 \in 1..(Len(dlog) + 1)
      BY <1>1
    <3>2. nodeSz'[1] = nodeSz[1]
      BY <2>2, <3>1 DEF FilesGrow
    <3>3. QED
      BY <1>1, <3>2 DEF StartsEmpty
  <2>6. ControlTypeOK'
    BY <1>1, <1>5, NodeKeepsControl
  <2>7. dumpAt'.d \in 0..Len(dlog') /\ resumedAt'.d \in 0..dumpAt'.d /\ resumedAt'.d <= dpos'
    <3>1. Len(dlog') \in Nat /\ Len(dlog) <= Len(dlog')
      BY <2>2 DEF FilesGrow, NodeInv, NodeTypeOK
    <3>2. dpos' = dpos
      BY <2>1 DEF stateVars
    <3>3. QED
      BY <1>1, <1>5, <3>1, <3>2
  <2>8. Trusted' => Trusted
    BY <2>1 DEF stateVars, Trusted
  <2>9. Trusted => \A p \in Oid : Paired(p)'
    BY <1>1, <1>5, NodeKeepsPairs
  <2>10. Trusted => StoredOK' /\ \A p \in Oid : ReplayOK(p)'
    BY <1>5, NodeKeepsReplay
  <2>11. QED
    BY <2>2, <2>3, <2>4, <2>5, <2>6, <2>7, <2>8, <2>9, <2>10 DEF HandoffInv
<1>6. CASE ApplyStatus /\ UNCHANGED <<dumpAt, resumedAt, inStep>>
  <2>1. UNCHANGED <<nodeVars, dpos>>
    BY <1>6 DEF ApplyStatus, StatusCompletesNew, StatusWaits, StatusIgnored, StatusFails
  <2>2. dumpAt'.d \in 0..Len(dlog') /\ resumedAt'.d \in 0..dumpAt'.d /\ resumedAt'.d <= dpos'
    BY <1>1, <1>3, <1>6, <2>1
  <2>3. ControlTypeOK'
    BY <1>1, <1>6, StatusKeepsControl
  <2>4. Trusted' => \A p \in Oid : Paired(p)'
    BY <1>1, <1>6, StatusKeepsPairs
  <2>5. Trusted' => StoredOK' /\ \A p \in Oid : ReplayOK(p)'
    BY <1>6, StatusKeepsReplay
  <2>6. QED
    BY <1>2, <2>1, <2>2, <2>3, <2>4, <2>5 DEF HandoffInv
<1>7. CASE ApplyDiff /\ inStep' = (inStep /\ spos >= StatusesOfNextDiff) /\ UNCHANGED <<dumpAt, resumedAt>>
  <2>1. UNCHANGED nodeVars /\ dpos' = dpos + 1
    BY <1>7 DEF ApplyDiff, ApplyNew, ApplyUpdate, ApplyRemove, DiffFails, ReadDiff
  <2>2. dumpAt'.d \in 0..Len(dlog') /\ resumedAt'.d \in 0..dumpAt'.d /\ resumedAt'.d <= dpos'
    BY <1>1, <1>3, <1>7, <2>1
  <2>3. ControlTypeOK'
    BY <1>1, <1>7, DiffKeepsControl
  <2>4. Trusted' => ApplyNew \/ ApplyUpdate \/ ApplyRemove
    BY <1>7 DEF ApplyDiff, DiffFails, Trusted
  <2>5. Trusted' => \A p \in Oid : Paired(p)'
    BY <1>1, <2>4, NewKeepsPairs, OtherDiffsKeepPairs
  <2>6. Trusted' => StoredOK' /\ \A p \in Oid : ReplayOK(p)'
    BY <1>7, <2>4, NewKeepsReplay, ChangeKeepsReplay
  <2>7. QED
    BY <1>2, <2>1, <2>2, <2>3, <2>5, <2>6 DEF HandoffInv
<1>8. CASE Cleanup /\ UNCHANGED <<dumpAt, resumedAt, inStep>>
  <2>1. PICK i \in 0..spos, j \in 0..dpos : cleanup_stale_pending(i, j)
    BY <1>8 DEF Cleanup
  <2>2. UNCHANGED <<nodeVars, dpos>>
    BY <2>1 DEF cleanup_stale_pending
  <2>3. dumpAt'.d \in 0..Len(dlog') /\ resumedAt'.d \in 0..dumpAt'.d /\ resumedAt'.d <= dpos'
    BY <1>1, <1>3, <1>8, <2>2
  <2>4. ControlTypeOK'
    BY <1>1, <2>1, CleanupKeepsControl
  <2>5. Trusted' => \A p \in Oid : Paired(p)'
    BY <1>1, <2>1, CleanupKeepsPairs
  <2>6. Trusted' => StoredOK' /\ \A p \in Oid : ReplayOK(p)'
    BY <1>8, <2>1, CleanupKeepsReplay
  <2>7. QED
    BY <1>2, <2>2, <2>3, <2>4, <2>5, <2>6 DEF HandoffInv
<1>9. CASE UNCHANGED handoffVars
  <2>1. UNCHANGED <<nodeVars, stateVars, dumpAt, resumedAt, inStep>> /\ dpos' = dpos
    BY <1>9 DEF handoffVars, vars, stateVars
  <2>2. ControlTypeOK'
    BY <1>1, <2>1 DEF ControlTypeOK, NodeTypeOK, stateVars, nodeVars
  <2>3. dumpAt'.d \in 0..Len(dlog') /\ resumedAt'.d \in 0..dumpAt'.d /\ resumedAt'.d <= dpos'
    BY <1>1, <1>3, <2>1
  <2>4. ASSUME Trusted' PROVE StoredOK' /\ \A p \in Oid : Paired(p)' /\ ReplayOK(p)'
    <3>1. StoredOK /\ \A p \in Oid : Paired(p) /\ ReplayOK(p)
      BY <2>1, <2>4 DEF HandoffInv, Trusted, stateVars
    <3>2. StoredOK'
      BY <2>1, <3>1 DEF StoredOK, BookTypeOK, Few, stateVars
    <3>3. \A p \in Oid : Paired(p)'
      BY <2>1, <3>1 DEF stateVars, nodeVars, Paired, StatusRead, WaitingStatus, WaitingNew, NewAt
    <3>4. ReadAgain' = ReadAgain /\ Dump' = Dump /\ \A p \in Oid : Clear(p)' <=> Clear(p)
      BY <2>1, SameDump
    <3>5. Applied' = Applied /\ Later' = Later
      BY <2>1, <3>4 DEF Applied, Later, nodeVars
    <3>6. /\ sz' = sz /\ pending_new_diffs' = pending_new_diffs /\ zeroed' = zeroed
          /\ dlog' = dlog /\ slog' = slog /\ dpos' = dpos /\ spos' = spos
          /\ dumpAt' = dumpAt /\ resumedAt' = resumedAt /\ inStep' = inStep
      BY <2>1 DEF stateVars, nodeVars
    <3>7. ASSUME NEW p \in Oid PROVE ReplayOK(p)'
      <4>1. (Back(p)' <=> Back(p)) /\ (Silent(p)' <=> Silent(p)) /\ (WaitingNew(p)' <=> WaitingNew(p))
        BY <3>4, <3>5, <3>6 DEF Back, MayComeBack, Silent, Departed, WaitingNew
      <4>2. (Replayed(p)' <=> Replayed(p)) /\ (Bounded(p)' <=> Bounded(p))
        BY <3>4, <3>5, <3>6, <4>1 DEF Replayed, SizeIsNodes, NewIsNodes, NoneMissing, Bounded
      <4>3. SinceResumed(p)' <=> SinceResumed(p)
        BY <3>6, <4>1 DEF SinceResumed, Departed
      <4>4. QED
        BY <3>1, <3>4, <4>2, <4>3 DEF ReplayOK
    <3>8. QED
      BY <3>2, <3>3, <3>7
  <2>5. QED
    BY <1>2, <2>1, <2>2, <2>3, <2>4 DEF HandoffInv
<1>10. QED
  BY <1>4, <1>5, <1>6, <1>7, <1>8, <1>9 DEF HandoffNext

\* The replay that fetch_snapshot starts behind a newer dump goes as ReplayOK says for
\* every order, whatever the node wrote in between, however the two files are
\* interleaved and whatever crosses.
THEOREM HandoffInvariance == HandoffSpec => []HandoffInv
<1>1. HandoffInv /\ [HandoffNext]_handoffVars => HandoffInv'
  BY NextHandoff
<1>2. QED
  BY <1>1, InitHandoff, PTL DEF HandoffSpec

\* Past the dump nothing is applied that the book has already.
LEMMA LaterPastDump ==
  ASSUME HandoffInv, PastDump
  PROVE  Later = Applied
BY HandoffStart DEF PastDump, Later

\* Replaying blocks the dump already has is harmless, as the comment in fetch_snapshot
\* says, but for two kinds of order: past the dump every other order in a trusted book
\* has the node's size, however far the replay started before the dump; and no order
\* that was not read again has more than the node gives it.
THEOREM OverApplyIsHarmlessThm == HandoffSpec => []OverApplyIsHarmless
<1>1. HandoffInv => OverApplyIsHarmless
  <2> SUFFICES ASSUME HandoffInv, Trusted, PastDump, NEW o \in Oid
               PROVE  /\ sz[o] > 0 /\ Clear(o) /\ ~MayComeBack(o) => sz[o] = Applied[o]
                      /\ o \notin ReadAgain => sz[o] <= Applied[o]
    BY DEF OverApplyIsHarmless
  <2>1. ReplayOK(o) /\ Later = Applied /\ sz[o] \in Nat /\ Applied[o] \in Nat
    BY HandoffStart, LaterPastDump
  <2>2. ASSUME sz[o] > 0, Clear(o), ~MayComeBack(o) PROVE sz[o] = Applied[o]
    BY <2>1, <2>2 DEF ReplayOK, Replayed, SizeIsNodes, Back
  <2>3. ASSUME o \notin ReadAgain PROVE sz[o] <= Applied[o]
    BY <2>1, <2>3 DEF ReplayOK, Bounded
  <2>4. QED
    BY <2>2, <2>3
<1>2. QED
  BY <1>1, HandoffInvariance, PTL

\* The replay loses nothing: past the dump an order the node has, whose opening status
\* has been read, is in a trusted book with the node's size, unless an order that is
\* read again would trade with it or its status aged out (cleanup_stale_pending).
THEOREM OverApplyLosesNothingThm == HandoffSpec => []OverApplyLosesNothing
<1>1. HandoffInv => OverApplyLosesNothing
  <2> SUFFICES ASSUME HandoffInv, Trusted, PastDump, NEW o \in Oid \ aged,
                      Applied[o] > 0, StatusRead(o), Clear(o)
               PROVE  sz[o] = Applied[o]
    BY DEF OverApplyLosesNothing
  <2>1. /\ ReplayOK(o) /\ Paired(o) /\ Later = Applied
        /\ FilesAgree /\ slog \in Seq(Status) /\ Len(slog) \in Nat /\ spos \in 0..Len(slog)
    BY HandoffStart, LaterPastDump
  <2>2. o \notin Protocol
    <3>1. PICK k \in 1..spos : OpenedAt(o, k)
      BY StatusReadIs
    <3>2. k \in DOMAIN slog
      BY <2>1
    <3>3. QED
      BY <2>1, <3>1, <3>2 DEF FilesAgree, ProtocolHasNone
  <2>3. ~WaitingNew(o)
    BY <2>1 DEF Paired
  <2>4. sz[o] > 0
    BY <2>1, <2>2, <2>3 DEF ReplayOK, Replayed, NoneMissing
  <2>5. QED
    BY <2>1, <2>4 DEF ReplayOK, Replayed, SizeIsNodes, Back, MayComeBack
<1>2. QED
  BY <1>1, HandoffInvariance, PTL
=============================================================================
