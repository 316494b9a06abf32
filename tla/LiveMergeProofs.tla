-------------------------- MODULE LiveMergeProofs --------------------------
(***************************************************************************)
(* The merge of the two book streams, for any files, any capacity of the   *)
(* channels, any lookahead and any patience: nothing is lost or doubled    *)
(* whatever is cancelled, what goes out of block order does so by less     *)
(* than the lookahead, and a stream is declared dead only after silence.   *)
(***************************************************************************)
EXTENDS LiveMerge, TLAPS

-----------------------------------------------------------------------------
(* The inductive invariants.                                               *)

Types ==
  /\ file \in Files
  /\ sent \in [Stream -> Nat] /\ cut \in [Stream -> Nat]
  /\ \A i \in Stream : sent[i] <= Len(file[i]) /\ cut[i] <= Len(file[i])
  /\ rx \in [Stream -> Seq(Line)]
  /\ floor \in Nat
  /\ peek \in [Stream -> Line \cup {NoLine}]
  /\ seen \in [Stream -> Nat]
  /\ ready \in Seq(Batch) /\ delivered \in Seq(Batch)

\* A wait on the other stream is no longer than its silence, while nothing of it is in
\* the channel.
Clock ==
  /\ quiet \in [Stream -> 0..DEAD_WAIT]
  /\ waiting_since \in 0..NotWaiting
  /\ DOMAIN rx = Stream
  /\ \A i \in Stream : waiting_since # NotWaiting /\ rx[i] = <<>> => waiting_since <= quiet[i]

\* The heights of stream i that may still be handed out.
Coming(i) == Ahead(i) \cup {file[i][k].h : k \in (Received(i) + 1)..Len(file[i])}

\* They are above every height taken, and none is below the one read ahead.
Rises ==
  \A i \in Stream : \A x \in Coming(i) : seen[i] < x /\ (Has(i) => peek[i].h <= x)

\* May the batch b go before height x of stream i, out of order or not?
MayPrecede(b, i, x) ==
  BelongsBefore([h |-> x, stream |-> i], b) => b.unheld \/ b.h < x + MERGE_LOOKAHEAD_BLOCKS

\* What was handed out may precede what is to come of the other stream.
Skew ==
  \A i \in Stream : \A x \in Coming(i) : \A k \in DOMAIN Out :
     Out[k].stream # i => MayPrecede(Out[k], i, x)

-----------------------------------------------------------------------------
(* Data.                                                                   *)

LEMMA OtherStream ==
  ASSUME NEW i \in Stream
  PROVE  1 - i \in Stream /\ 1 - i # i /\ 1 - (1 - i) = i
BY DEF Stream

\* The heights of a file rise.
LEMMA FileRises ==
  ASSUME NEW f \in Files, NEW i \in Stream
  PROVE  /\ f[i] \in Seq(Line)
         /\ \A k \in 1..Len(f[i]) : /\ f[i][k] \in Line /\ f[i][k].h \in Nat /\ f[i][k].h > 0
                                    /\ \A j \in 1..(k - 1) : f[i][j].h < f[i][k].h
<1>1. f[i] \in Seq(Line) /\ \A k \in DOMAIN f[i] : \A j \in 1..(k - 1) : f[i][j].h < f[i][k].h
  BY MergeAssumption
<1>2. \A l \in Line : l.h \in Nat /\ l.h > 0
  BY DEF Line, Height
<1> QED BY <1>1, <1>2

\* A batch more: what a pick appends to what is out.
LEMMA OneMoreOut ==
  ASSUME NEW d \in Seq(Batch), NEW r \in Seq(Batch), NEW b \in Batch
  PROVE  /\ Append(r, b) \in Seq(Batch)
         /\ d \o r \in Seq(Batch) /\ d \o Append(r, b) = Append(d \o r, b)
<1>1. Append(r, b) \in Seq(Batch) /\ d \o r \in Seq(Batch)
  OBVIOUS
<1>2. d \o Append(r, b) \in Seq(Batch) /\ Append(d \o r, b) \in Seq(Batch)
  BY <1>1
<1>3. Len(d \o Append(r, b)) = Len(Append(d \o r, b))
  BY <1>1
<1>4. ASSUME NEW k \in 1..Len(Append(d \o r, b))
      PROVE  (d \o Append(r, b))[k] = Append(d \o r, b)[k]
  <2>1. k \in 1..(Len(d) + Len(r) + 1)
    BY <1>1
  <2>2. CASE k \in 1..Len(d)
    BY <2>2, <1>1
  <2>3. CASE k \in (Len(d) + 1)..(Len(d) + Len(r))
    BY <2>3, <1>1
  <2>4. CASE k = Len(d) + Len(r) + 1
    BY <2>4, <1>1
  <2>5. k \in 1..Len(d) \/ k \in (Len(d) + 1)..(Len(d) + Len(r)) \/ k = Len(d) + Len(r) + 1
    BY <2>1
  <2> QED BY <2>2, <2>3, <2>4, <2>5
<1> QED BY <1>1, <1>2, <1>3, <1>4

\* What is handed out was out already.
LEMMA HandedOut ==
  ASSUME NEW d \in Seq(Batch), NEW r \in Seq(Batch)
  PROVE  d \o r \in Seq(Batch) /\ (d \o r) \o <<>> = d \o r
OBVIOUS

LEMMA AppendBatch ==
  ASSUME NEW q \in Seq(Batch), NEW b \in Batch
  PROVE  /\ Append(q, b) \in Seq(Batch) /\ DOMAIN Append(q, b) = 1..(Len(q) + 1) /\ DOMAIN q = 1..Len(q)
         /\ Append(q, b)[Len(q) + 1] = b /\ Len(q) \in Nat
         /\ \A k \in 1..Len(q) : Append(q, b)[k] = q[k]
OBVIOUS

\* The heights of a stream when a batch is added.
LEMMA HeightsAppend ==
  ASSUME NEW q \in Seq(Batch), NEW b \in Batch, NEW i
  PROVE  Heights(Append(q, b), i) = Heights(q, i) \cup (IF b.stream = i THEN {b.h} ELSE {})
<1>1. PICK p : p = Append(q, b)
  OBVIOUS
<1>2. /\ DOMAIN p = 1..(Len(q) + 1) /\ DOMAIN q = 1..Len(q) /\ p[Len(q) + 1] = b
      /\ \A k \in 1..Len(q) : p[k] = q[k] /\ Len(q) \in Nat
  BY <1>1, AppendBatch
<1>3. ASSUME NEW x \in Heights(p, i)
      PROVE  x \in Heights(q, i) \cup (IF b.stream = i THEN {b.h} ELSE {})
  <2>1. PICK k \in DOMAIN p : p[k].stream = i /\ x = p[k].h
    BY DEF Heights
  <2>2. CASE k = Len(q) + 1
    BY <2>1, <2>2, <1>2
  <2>3. CASE k # Len(q) + 1
    <3>1. k \in 1..Len(q)
      BY <2>3, <1>2
    <3> QED BY <3>1, <2>1, <1>2 DEF Heights
  <2> QED BY <2>2, <2>3
<1>4. ASSUME NEW x \in Heights(q, i)
      PROVE  x \in Heights(p, i)
  <2>1. PICK k \in DOMAIN q : q[k].stream = i /\ x = q[k].h
    BY DEF Heights
  <2>2. k \in DOMAIN p /\ p[k] = q[k]
    BY <1>2
  <2> QED BY <2>1, <2>2 DEF Heights
<1>5. b.stream = i => b.h \in Heights(p, i)
  <2>1. Len(q) + 1 \in DOMAIN p
    BY <1>2
  <2> QED BY <2>1, <1>2 DEF Heights
<1> QED BY <1>1, <1>3, <1>4, <1>5

\* Batches that rise still do with one more that is above those of its stream.
LEMMA RisingAppend ==
  ASSUME NEW q \in Seq(Batch), NEW b \in Batch, Rising(q),
         \A h \in Heights(q, b.stream) : h < b.h
  PROVE  Rising(Append(q, b))
<1>1. PICK p : p = Append(q, b)
  OBVIOUS
<1>2. /\ DOMAIN p = 1..(Len(q) + 1) /\ DOMAIN q = 1..Len(q) /\ p[Len(q) + 1] = b
      /\ \A k \in 1..Len(q) : p[k] = q[k]
      /\ Len(q) \in Nat
  BY <1>1, AppendBatch
<1>3. ASSUME NEW k \in DOMAIN p, NEW j \in 1..(k - 1), p[j].stream = p[k].stream
      PROVE  p[j].h < p[k].h
  <2>1. j \in 1..Len(q) /\ p[j] = q[j]
    <3>1. j \in 1..Len(q)
      BY <1>2
    <3> QED BY <3>1, <1>2
  <2>2. CASE k = Len(q) + 1
    <3>1. q[j].h \in Heights(q, b.stream)
      BY <2>1, <2>2, <1>2, <1>3 DEF Heights
    <3> QED BY <3>1, <2>1, <2>2, <1>2
  <2>3. CASE k # Len(q) + 1
    <3>1. k \in 1..Len(q) /\ p[k] = q[k]
      <4>1. k \in 1..Len(q)
        BY <2>3, <1>2
      <4> QED BY <4>1, <1>2
    <3> QED BY <3>1, <2>1, <1>2, <1>3 DEF Rising
  <2> QED BY <2>2, <2>3
<1> QED BY <1>1, <1>3 DEF Rising

-----------------------------------------------------------------------------
(* The steps, by what they do to the lines and the batches.                *)

lineVars == <<file, sent, cut, rx, floor, peek, seen, ready, delivered>>

\* A line is received while nothing of its stream is read ahead.
Takes(i) ==
  /\ rx[i] # <<>> /\ ~Has(i)
  /\ rx' = [rx EXCEPT ![i] = Tail(@)]
  /\ peek' = IF Head(rx[i]).ok /\ Head(rx[i]).h > floor THEN [peek EXCEPT ![i] = Head(rx[i])] ELSE peek
  /\ UNCHANGED <<file, sent, cut, floor, seen, ready, delivered>>

LEMMA LineSteps ==
  ASSUME [Next]_vars
  PROVE  \/ \E i \in Stream : Send(i) \/ Takes(i) \/ Pick(i)
         \/ Return \/ Restart
         \/ UNCHANGED lineVars
<1>1. ASSUME NEW i \in Stream, Refill(i)
      PROVE  Takes(i) \/ UNCHANGED lineVars
  BY <1>1 DEF Refill, RefillDone, accept, Takes, lineVars, readerVars, watchVars
<1>2. ASSUME NEW o \in Stream, WakeOnLine(o)
      PROVE  Takes(o)
  <2>1. rx[o] # <<>> /\ accept(o) /\ UNCHANGED <<readerVars, floor, seen, ready, delivered>>
    BY <1>2 DEF WakeOnLine
  <2>2. ~Has(o)
    BY <1>2 DEF WakeOnLine, WaitsOn, Stream
  <2> QED BY <2>1, <2>2 DEF accept, Takes, readerVars, watchVars
<1>3. ASSUME NEW o \in Stream,
             BackfillDone(o) \/ GoLive(o) \/ OldExits(o) \/ OldGoesLive(o) \/ WakeDead(o)
      PROVE  UNCHANGED lineVars
  BY <1>3 DEF BackfillDone, GoLive, OldExits, OldGoesLive, WakeDead, lineVars, mergeVars, readerVars, watchVars
<1>4. CASE PickNone \/ Cancel \/ Install \/ Tick
  BY <1>4 DEF PickNone, Cancel, Install, Tick, lineVars, mergeVars, readerVars, watchVars
<1>5. CASE UNCHANGED vars
  BY <1>5 DEF vars, lineVars, readerVars, watchVars
<1> QED BY <1>1, <1>2, <1>3, <1>4, <1>5 DEF Next, Read, Old, Take, Wake

-----------------------------------------------------------------------------
(* Types.                                                                  *)

LEMMA InitTypes == Init => Types
<1> SUFFICES ASSUME Init PROVE Types
  OBVIOUS
<1>1. /\ file \in Files /\ cut \in [Stream -> 0..MaxHeight] /\ \A i \in Stream : cut[i] <= Len(file[i])
      /\ sent = [i \in Stream |-> 0] /\ rx = [i \in Stream |-> <<>>] /\ floor \in 0..1
      /\ peek = [i \in Stream |-> NoLine] /\ seen = [i \in Stream |-> 0]
      /\ ready = <<>> /\ delivered = <<>>
  BY DEF Init
<1>2. cut \in [Stream -> Nat] /\ sent \in [Stream -> Nat] /\ seen \in [Stream -> Nat] /\ floor \in Nat
  BY <1>1
<1>3. \A i \in Stream : sent[i] <= Len(file[i])
  <2>1. \A i \in Stream : Len(file[i]) \in Nat
    BY <1>1, FileRises
  <2> QED BY <1>1, <2>1
<1>4. rx \in [Stream -> Seq(Line)] /\ peek \in [Stream -> Line \cup {NoLine}]
  BY <1>1
<1>5. ready \in Seq(Batch) /\ delivered \in Seq(Batch)
  BY <1>1
<1> QED BY <1>1, <1>2, <1>3, <1>4, <1>5 DEF Types

\* A batch read ahead, as it is picked.
Picked(i) == [h |-> peek[i].h, stream |-> i, unheld |-> ~Has(1 - i) /\ UnheldOnce(i, 1 - i)]

LEMMA PickedType ==
  ASSUME Types, NEW i \in Stream, Has(i)
  PROVE  Picked(i) \in Batch /\ peek[i] \in Line /\ peek[i].h \in Nat
<1>1. peek[i] \in Line
  BY DEF Types, Has
<1>2. peek[i].h \in Height
  BY <1>1 DEF Line
<1>3. (~Has(1 - i) /\ UnheldOnce(i, 1 - i)) \in BOOLEAN
  OBVIOUS
<1>4. peek[i].h \in Nat
  BY <1>2 DEF Height
<1>5. Picked(i) \in Batch
  BY <1>2, <1>3 DEF Picked, Batch
<1> QED BY <1>1, <1>4, <1>5

\* What a pick does.
LEMMA PickEffect ==
  ASSUME NEW i \in Stream, Pick(i)
  PROVE  /\ Has(i) /\ Pickable(i)
         /\ ready' = Append(ready, Picked(i))
         /\ peek' = [peek EXCEPT ![i] = NoLine]
         /\ seen' = [seen EXCEPT ![i] = IF @ > peek[i].h THEN @ ELSE peek[i].h]
         /\ UNCHANGED <<file, sent, cut, rx, floor, delivered>>
BY DEF Pick, Pickable, Picked, readerVars, watchVars

\* What a line sent does.
LEMMA SendEffect ==
  ASSUME Types, NEW i \in Stream, Send(i)
  PROVE  /\ sent[i] + 1 \in 1..Len(file[i]) /\ file[i][sent[i] + 1] \in Line
         /\ rx' = [rx EXCEPT ![i] = Append(@, file[i][sent[i] + 1])]
         /\ sent' = [sent EXCEPT ![i] = @ + 1]
         /\ UNCHANGED <<file, cut, floor, peek, seen, ready, delivered>>
<1>1. sent[i] \in Nat /\ cut[i] \in Nat /\ sent[i] <= Len(file[i]) /\ cut[i] <= Len(file[i])
      /\ file \in Files
  BY DEF Types
<1>2. Len(file[i]) \in Nat /\ \A k \in 1..Len(file[i]) : file[i][k] \in Line
  BY <1>1, FileRises
<1>3. sent[i] < Len(file[i])
  <2>1. sent[i] < cut[i] \/ sent[i] < Len(file[i])
    BY DEF Send
  <2> QED BY <2>1, <1>1, <1>2
<1>4. sent[i] + 1 \in 1..Len(file[i])
  BY <1>1, <1>2, <1>3
<1> QED BY <1>2, <1>4 DEF Send, watchVars, mergeVars

LEMMA TypesNext == Types /\ [Next]_vars => Types'
<1> SUFFICES ASSUME Types, [Next]_vars PROVE Types'
  OBVIOUS
<1>1. ASSUME NEW i \in Stream, Send(i)
      PROVE  Types'
  <2>0. /\ sent[i] + 1 \in 1..Len(file[i]) /\ file[i][sent[i] + 1] \in Line
        /\ rx' = [rx EXCEPT ![i] = Append(@, file[i][sent[i] + 1])]
        /\ sent' = [sent EXCEPT ![i] = @ + 1]
        /\ UNCHANGED <<file, cut, floor, peek, seen, ready, delivered>>
    BY <1>1, SendEffect
  <2>1. rx' \in [Stream -> Seq(Line)]
    BY <2>0 DEF Types
  <2>2. sent' \in [Stream -> Nat] /\ \A j \in Stream : sent'[j] <= Len(file[j]) /\ cut[j] <= Len(file[j])
    <3>1. sent \in [Stream -> Nat] /\ \A j \in Stream : sent[j] <= Len(file[j]) /\ cut[j] <= Len(file[j])
      BY DEF Types
    <3>2. sent' \in [Stream -> Nat]
      BY <3>1, <2>0
    <3>3. \A j \in Stream : sent'[j] = IF j = i THEN sent[i] + 1 ELSE sent[j]
      BY <3>1, <2>0
    <3>4. sent[i] + 1 <= Len(file[i])
      BY <2>0
    <3> QED BY <3>1, <3>2, <3>3, <3>4
  <2> QED BY <2>0, <2>1, <2>2 DEF Types
<1>2. ASSUME NEW i \in Stream, Takes(i)
      PROVE  Types'
  <2>1. rx[i] \in Seq(Line) /\ rx[i] # <<>>
    BY <1>2 DEF Types, Takes
  <2>2. Tail(rx[i]) \in Seq(Line) /\ Head(rx[i]) \in Line
    BY <2>1
  <2>3. rx' \in [Stream -> Seq(Line)]
    BY <1>2, <2>2 DEF Types, Takes
  <2>4. peek' \in [Stream -> Line \cup {NoLine}]
    BY <1>2, <2>2 DEF Types, Takes
  <2> QED BY <1>2, <2>3, <2>4 DEF Types, Takes
<1>3. ASSUME NEW i \in Stream, Pick(i)
      PROVE  Types'
  <2>0. /\ Has(i)
        /\ ready' = Append(ready, Picked(i))
        /\ peek' = [peek EXCEPT ![i] = NoLine]
        /\ seen' = [seen EXCEPT ![i] = IF @ > peek[i].h THEN @ ELSE peek[i].h]
        /\ UNCHANGED <<file, sent, cut, rx, floor, delivered>>
    BY <1>3, PickEffect
  <2>1. Picked(i) \in Batch /\ peek[i].h \in Nat
    BY <2>0, PickedType
  <2>2. ready' \in Seq(Batch)
    BY <2>0, <2>1, OneMoreOut DEF Types
  <2>3. peek' \in [Stream -> Line \cup {NoLine}] /\ seen' \in [Stream -> Nat]
    BY <2>0, <2>1 DEF Types
  <2> QED BY <2>0, <2>2, <2>3 DEF Types
<1>4. CASE Return
  <2>1. /\ delivered' = delivered \o ready /\ ready' = <<>>
        /\ UNCHANGED <<file, sent, cut, rx, floor, peek, seen>>
    BY <1>4 DEF Return, readerVars, watchVars
  <2>2. delivered' \in Seq(Batch) /\ ready' \in Seq(Batch)
    BY <2>1, HandedOut DEF Types
  <2> QED BY <2>1, <2>2 DEF Types
<1>5. CASE Restart
  <2>1. /\ file' = file /\ floor' \in floor .. 1
        /\ sent' = [i \in Stream |-> 0] /\ cut' = [i \in Stream |-> Len(file[i])]
        /\ rx' = [i \in Stream |-> <<>>] /\ peek' = [i \in Stream |-> NoLine]
        /\ seen' = [i \in Stream |-> 0] /\ ready' = <<>> /\ delivered' = <<>>
    BY <1>5 DEF Restart, StartReaders, NewMerge
  <2>2. \A i \in Stream : Len(file[i]) \in Nat
    BY FileRises DEF Types
  <2>3. sent' \in [Stream -> Nat] /\ cut' \in [Stream -> Nat]
        /\ \A i \in Stream : sent'[i] <= Len(file[i]) /\ cut'[i] <= Len(file[i])
    BY <2>1, <2>2
  <2>4. floor' \in Nat
    BY <2>1 DEF Types
  <2>5. rx' \in [Stream -> Seq(Line)] /\ peek' \in [Stream -> Line \cup {NoLine}] /\ seen' \in [Stream -> Nat]
    BY <2>1
  <2>6. ready' \in Seq(Batch) /\ delivered' \in Seq(Batch)
    BY <2>1
  <2> QED BY <2>1, <2>3, <2>4, <2>5, <2>6 DEF Types
<1>6. CASE UNCHANGED lineVars
  BY <1>6 DEF lineVars, Types
<1> QED BY <1>1, <1>2, <1>3, <1>4, <1>5, <1>6, LineSteps

THEOREM TypesInvariance == Spec => []Types
BY InitTypes, TypesNext, PTL DEF Spec

-----------------------------------------------------------------------------
(* Nothing is lost or doubled.                                             *)

\* What Conserved says of one stream.
Kept(i) ==
  /\ Len(rx[i]) <= sent[i]
  /\ \A k \in DOMAIN rx[i] : rx[i][k] = file[i][Received(i) + k]
  /\ Heights(Out, i) \cup Ahead(i) = Due(i, Received(i))
  /\ Has(i) => \A h \in Heights(Out, i) : h < peek[i].h

LEMMA ConservedIsKept == Conserved <=> Rising(Out) /\ \A i \in Stream : Kept(i)
BY DEF Conserved, Kept

\* One line more.
LEMMA DueNext ==
  ASSUME NEW i, NEW n \in Nat
  PROVE  Due(i, n + 1) = Due(i, n) \cup
            (IF file[i][n + 1].ok /\ file[i][n + 1].h > floor THEN {file[i][n + 1].h} ELSE {})
<1>1. 1..(n + 1) = 1..n \cup {n + 1}
  OBVIOUS
<1> QED BY <1>1 DEF Due

LEMMA DueNone == ASSUME NEW i PROVE Due(i, 0) = {}
<1>1. 1..0 = {}
  OBVIOUS
<1> QED BY <1>1 DEF Due

\* What is due among the first lines is below every later line.
LEMMA DueIsBelow ==
  ASSUME Types, NEW i \in Stream, NEW n \in Nat, NEW k \in 1..Len(file[i]), k > n
  PROVE  \A h \in Due(i, n) : h < file[i][k].h
<1> SUFFICES ASSUME NEW h \in Due(i, n)
             PROVE  h < file[i][k].h
  OBVIOUS
<1>1. PICK j \in 1..n : h = file[i][j].h
  BY DEF Due
<1>2. Len(file[i]) \in Nat /\ \A m \in 1..(k - 1) : file[i][m].h < file[i][k].h
  BY FileRises DEF Types
<1>3. j \in 1..(k - 1)
  BY <1>2
<1> QED BY <1>1, <1>2, <1>3

LEMMA OutType == Types => Out \in Seq(Batch)
BY HandedOut DEF Types, Out

\* Before the first line: nothing is out and nothing in the channels.
NothingYet ==
  /\ delivered = <<>> /\ ready = <<>>
  /\ \A i \in Stream : rx[i] = <<>> /\ sent[i] = 0 /\ peek[i] = NoLine

LEMMA NothingYetConserved == NothingYet => Conserved
<1> SUFFICES ASSUME NothingYet PROVE Conserved
  OBVIOUS
<1>2. Out = <<>>
  BY DEF NothingYet, Out
<1>3. DOMAIN Out = {}
  BY <1>2
<1>4. Rising(Out) /\ \A i : Heights(Out, i) = {}
  BY <1>3 DEF Rising, Heights
<1>5. ASSUME NEW i \in Stream
      PROVE  Kept(i)
  <2>1. rx[i] = <<>> /\ sent[i] = 0 /\ ~Has(i)
    BY DEF NothingYet, Has
  <2>2. Received(i) = 0 /\ Len(rx[i]) = 0 /\ DOMAIN rx[i] = {}
    <3>1. \A q : q = <<>> => Len(q) = 0 /\ DOMAIN q = {}
      OBVIOUS
    <3>2. Len(rx[i]) = 0 /\ DOMAIN rx[i] = {}
      BY <2>1, <3>1
    <3>3. \A m, n \in Nat : m = 0 /\ n = 0 => m - n = 0
      OBVIOUS
    <3>4. sent[i] - Len(rx[i]) = 0
      BY <2>1, <3>2, <3>3, Zenon
    <3> QED BY <3>2, <3>4 DEF Received
  <2>3. Due(i, 0) = {}
    BY DueNone
  <2>4. Ahead(i) = {} /\ Heights(Out, i) = {}
    BY <2>1, <1>4 DEF Ahead
  <2> QED BY <2>1, <2>2, <2>3, <2>4 DEF Kept
<1> QED BY <1>4, <1>5, ConservedIsKept

LEMMA InitConserved == Init => Conserved
<1>1. Init => NothingYet
  BY DEF Init, NothingYet
<1> QED BY <1>1, NothingYetConserved

\* A line sent: it joins the channel behind those that were sent before.
LEMMA SendKeeps ==
  ASSUME Types, Conserved, NEW i \in Stream, Send(i), NEW j \in Stream
  PROVE  Kept(j)' /\ Received(j)' = Received(j)
<1>0. /\ sent[i] + 1 \in 1..Len(file[i]) /\ file[i][sent[i] + 1] \in Line
      /\ rx' = [rx EXCEPT ![i] = Append(@, file[i][sent[i] + 1])]
      /\ sent' = [sent EXCEPT ![i] = @ + 1]
      /\ UNCHANGED <<file, cut, floor, peek, seen, ready, delivered>>
  BY SendEffect
<1>t. rx \in [Stream -> Seq(Line)] /\ sent \in [Stream -> Nat] /\ Kept(j)
  BY ConservedIsKept DEF Types
<1>1. CASE j # i
  <2>1. rx'[j] = rx[j] /\ sent'[j] = sent[j]
    BY <1>0, <1>1, <1>t
  <2> QED BY <2>1, <1>0, <1>t DEF Kept, Received, Out, Has, Ahead, Due
<1>2. CASE j = i
  <2>1. PICK q, n, l : q = rx[i] /\ n = sent[i] /\ l = file[i][sent[i] + 1]
    OBVIOUS
  <2>2. q \in Seq(Line) /\ n \in Nat /\ l \in Line
    BY <2>1, <1>0, <1>t
  <2>3. rx'[j] = Append(q, l) /\ sent'[j] = n + 1
    BY <2>1, <1>0, <1>2, <1>t
  <2>4. /\ Len(Append(q, l)) = Len(q) + 1 /\ Len(q) \in Nat
        /\ Append(q, l)[Len(q) + 1] = l
        /\ DOMAIN q = 1..Len(q) /\ DOMAIN Append(q, l) = 1..(Len(q) + 1)
        /\ \A k \in 1..Len(q) : Append(q, l)[k] = q[k]
    BY <2>2
  <2>5. Len(q) <= n /\ \A k \in 1..Len(q) : q[k] = file[i][(n - Len(q)) + k]
    BY <2>1, <2>4, <1>2, <1>t DEF Kept, Received
  <2>6. Received(j)' = Received(j) /\ Received(j) = n - Len(q)
    <3>1. Received(j)' = (n + 1) - (Len(q) + 1)
      BY <2>3, <2>4 DEF Received
    <3>2. Received(j) = n - Len(q)
      BY <2>1, <1>2 DEF Received
    <3> QED BY <3>1, <3>2, <2>2, <2>4
  <2>7. ASSUME NEW k \in 1..(Len(q) + 1)
        PROVE  Append(q, l)[k] = file[i][(n - Len(q)) + k]
    <3>1. CASE k \in 1..Len(q)
      BY <3>1, <2>4, <2>5
    <3>2. CASE k = Len(q) + 1
      <4>1. (n - Len(q)) + k = n + 1
        BY <3>2, <2>2, <2>4
      <4> QED BY <4>1, <3>2, <2>1, <2>4
    <3> QED BY <3>1, <3>2, <2>4
  <2>8. Len(rx'[j]) <= sent'[j]
    BY <2>2, <2>3, <2>4, <2>5
  <2>9. \A k \in DOMAIN rx'[j] : rx'[j][k] = file'[j][Received(j)' + k]
    BY <2>3, <2>4, <2>6, <2>7, <1>0, <1>2
  <2>10. Out' = Out /\ Ahead(j)' = Ahead(j) /\ Due(j, Received(j))' = Due(j, Received(j))
    BY <1>0, <2>6 DEF Out, Ahead, Has, Due
  <2>11. Has(j)' = Has(j)
    BY <1>0 DEF Has
  <2> QED BY <2>6, <2>8, <2>9, <2>10, <2>11, <1>0, <1>t DEF Kept
<1> QED BY <1>1, <1>2

\* A line received: it is read ahead if it is due, and then above all that is out.
LEMMA TakeKeeps ==
  ASSUME Types, Conserved, NEW i \in Stream, Takes(i), NEW j \in Stream
  PROVE  /\ Kept(j)' /\ (j # i => Received(j)' = Received(j))
         /\ j = i => /\ Received(i)' = Received(i) + 1 /\ Received(i) \in Nat
                     /\ Received(i) + 1 \in 1..Len(file[i])
                     /\ Head(rx[i]) = file[i][Received(i) + 1]
<1>0. /\ rx[i] # <<>> /\ ~Has(i)
      /\ rx' = [rx EXCEPT ![i] = Tail(@)]
      /\ peek' = IF Head(rx[i]).ok /\ Head(rx[i]).h > floor THEN [peek EXCEPT ![i] = Head(rx[i])] ELSE peek
      /\ UNCHANGED <<file, sent, cut, floor, seen, ready, delivered>>
  BY DEF Takes
<1>t. rx \in [Stream -> Seq(Line)] /\ sent \in [Stream -> Nat] /\ Kept(j)
      /\ peek \in [Stream -> Line \cup {NoLine}] /\ sent[i] <= Len(file[i]) /\ Len(file[i]) \in Nat
  <2>1. file \in Files
    BY DEF Types
  <2>2. Len(file[i]) \in Nat
    BY <2>1, FileRises
  <2>3. Kept(j)
    BY ConservedIsKept
  <2> QED BY <2>2, <2>3 DEF Types
<1>1. CASE j # i
  <2>1. rx'[j] = rx[j] /\ peek'[j] = peek[j]
    BY <1>0, <1>1, <1>t
  <2>2. Received(j)' = Received(j)
    BY <2>1, <1>0 DEF Received
  <2>3. Out' = Out /\ Ahead(j)' = Ahead(j) /\ Due(j, Received(j))' = Due(j, Received(j))
    BY <2>1, <2>2, <1>0 DEF Out, Ahead, Has, Due
  <2>4. Has(j)' = Has(j)
    BY <2>1 DEF Has
  <2> QED BY <2>1, <2>2, <2>3, <2>4, <1>0, <1>1, <1>t DEF Kept
<1>2. CASE j = i
  <2>1. PICK q, n, l, r : q = rx[i] /\ n = sent[i] /\ l = Head(rx[i]) /\ r = Received(i)
    OBVIOUS
  <2>2. q \in Seq(Line) /\ n \in Nat /\ q # <<>>
    BY <2>1, <1>0, <1>t
  <2>3. /\ Len(Tail(q)) = Len(q) - 1 /\ Len(q) \in Nat /\ Len(q) > 0
        /\ DOMAIN q = 1..Len(q) /\ DOMAIN Tail(q) = 1..(Len(q) - 1)
        /\ \A k \in 1..(Len(q) - 1) : Tail(q)[k] = q[k + 1]
        /\ l = q[1] /\ l \in Line /\ 1 \in 1..Len(q)
    BY <2>1, <2>2
  <2>4. r = n - Len(q) /\ Len(q) <= n /\ \A k \in 1..Len(q) : q[k] = file[i][r + k]
    BY <2>1, <2>3, <1>2, <1>t DEF Kept, Received
  <2>5. r \in Nat /\ r + 1 \in 1..Len(file[i])
    <3>1. n <= Len(file[i])
      BY <2>1, <1>t
    <3>2. r \in Nat /\ r + 1 <= n
      BY <2>2, <2>3, <2>4
    <3> QED BY <3>1, <3>2, <2>2, <1>t
  <2>6. l = file[i][r + 1]
    BY <2>3, <2>4
  <2>7. rx'[i] = Tail(q)
    BY <2>1, <1>0, <1>t
  <2>8. Received(i)' = r + 1
    <3>1. Received(i)' = n - (Len(q) - 1)
      BY <2>1, <2>3, <2>7, <1>0 DEF Received
    <3> QED BY <3>1, <2>2, <2>3, <2>4
  <2>9. Len(Tail(q)) <= n
    BY <2>2, <2>3, <2>4
  <2>10. ASSUME NEW k \in DOMAIN Tail(q)
         PROVE  Tail(q)[k] = file[i][(r + 1) + k]
    <3>1. k + 1 \in 1..Len(q) /\ r + (k + 1) = (r + 1) + k
      BY <2>3, <2>5
    <3> QED BY <3>1, <2>3, <2>4
  <2>11. Ahead(i) = {} /\ Heights(Out, i) = Due(i, r)
    BY <2>1, <1>0, <1>2, <1>t DEF Ahead, Kept
  <2>12. Due(i, r + 1) = Due(i, r) \cup (IF l.ok /\ l.h > floor THEN {l.h} ELSE {})
    BY <2>5, <2>6, DueNext
  <2>13. \A n1 : Due(i, n1)' = Due(i, n1)
    BY <1>0 DEF Due
  <2>14. Out' = Out
    BY <1>0 DEF Out
  <2>k. /\ Len(rx'[j]) <= sent'[j]
        /\ \A k \in DOMAIN rx'[j] : rx'[j][k] = file'[j][Received(j)' + k]
    BY <2>1, <2>7, <2>8, <2>9, <2>10, <1>0, <1>2
  <2>r. j = i => /\ Received(i)' = Received(i) + 1 /\ Received(i) \in Nat
                 /\ Received(i) + 1 \in 1..Len(file[i])
                 /\ Head(rx[i]) = file[i][Received(i) + 1]
    BY <2>1, <2>5, <2>6, <2>8
  <2>d. CASE l.ok /\ l.h > floor
    <3>1. peek'[i] = l
      BY <2>1, <2>d, <1>0, <1>t
    <3>2. l # NoLine
      <4>1. l.h \in Height
        BY <2>3 DEF Line
      <4> QED BY <4>1 DEF NoLine, Height
    <3>3. Has(i)' /\ Ahead(i)' = {l.h}
      BY <3>1, <3>2 DEF Ahead, Has
    <3>4. Heights(Out, i) \cup {l.h} = Due(i, r + 1)
      BY <2>11, <2>12, <2>d
    <3>5. \A h \in Heights(Out, i) : h < l.h
      <4>1. r + 1 > r
        BY <2>5
      <4> QED BY <4>1, <2>5, <2>6, <2>11, DueIsBelow
    <3>6. Heights(Out, i)' \cup Ahead(i)' = Due(i, Received(i))'
      BY <3>3, <3>4, <2>8, <2>13, <2>14
    <3>7. Has(j)' => \A h \in Heights(Out, j)' : h < peek'[j].h
      BY <3>1, <3>5, <2>14, <1>2
    <3> QED BY <3>6, <3>7, <2>d, <2>k, <2>r, <1>2 DEF Kept
  <2>u. CASE ~(l.ok /\ l.h > floor)
    <3>1. peek' = peek
      BY <2>1, <2>u, <1>0
    <3>2. ~Has(i)' /\ Ahead(i)' = {}
      BY <3>1, <1>0 DEF Ahead, Has
    <3>3. Due(i, r + 1) = Due(i, r)
      BY <2>12, <2>u
    <3>4. Heights(Out, i)' \cup Ahead(i)' = Due(i, Received(i))'
      BY <3>2, <3>3, <2>8, <2>11, <2>13, <2>14
    <3> QED BY <3>2, <3>4, <2>k, <2>r, <1>2 DEF Kept
  <2> QED BY <2>d, <2>u
<1> QED BY <1>1, <1>2

\* A batch picked: it goes out behind its stream's others.
LEMMA PickKeeps ==
  ASSUME Types, Conserved, NEW i \in Stream, Pick(i)
  PROVE  /\ Out' = Append(Out, Picked(i)) /\ Out \in Seq(Batch)
         /\ Conserved' /\ \A j \in Stream : Received(j)' = Received(j)
<1>0. /\ Has(i)
      /\ ready' = Append(ready, Picked(i))
      /\ peek' = [peek EXCEPT ![i] = NoLine]
      /\ UNCHANGED <<file, sent, cut, rx, floor, delivered>>
  BY PickEffect
<1>t. ready \in Seq(Batch) /\ delivered \in Seq(Batch) /\ peek \in [Stream -> Line \cup {NoLine}]
  BY DEF Types
<1>b. Picked(i) \in Batch /\ Picked(i).h = peek[i].h /\ Picked(i).stream = i
  BY <1>0, PickedType DEF Picked
<1>1. Out' = Append(Out, Picked(i)) /\ Out \in Seq(Batch)
  BY <1>0, <1>t, <1>b, OneMoreOut DEF Out
<1>2. Rising(Out)'
  <2>1. \A h \in Heights(Out, i) : h < peek[i].h
    BY <1>0, ConservedIsKept DEF Kept
  <2>2. Rising(Append(Out, Picked(i)))
    BY <2>1, <1>1, <1>b, RisingAppend, ConservedIsKept
  <2> QED BY <2>2, <1>1
<1>3. ASSUME NEW j \in Stream
      PROVE  Kept(j)' /\ Received(j)' = Received(j)
  <2>1. Received(j)' = Received(j) /\ Due(j, Received(j))' = Due(j, Received(j))
    BY <1>0 DEF Received, Due
  <2>2. Heights(Out, j)' = Heights(Out, j) \cup (IF i = j THEN {peek[i].h} ELSE {})
    BY <1>1, <1>b, HeightsAppend
  <2>3. Kept(j)
    BY ConservedIsKept
  <2>4. CASE j = i
    <3>1. ~Has(j)' /\ Ahead(j)' = {} /\ Ahead(j) = {peek[i].h}
      BY <2>4, <1>0, <1>t DEF Has, Ahead
    <3>2. Heights(Out, j)' \cup Ahead(j)' = Due(j, Received(j))'
      BY <3>1, <2>1, <2>2, <2>3, <2>4 DEF Kept
    <3> QED BY <3>1, <3>2, <2>1, <2>3, <1>0 DEF Kept
  <2>5. CASE j # i
    <3>1. peek'[j] = peek[j] /\ Has(j)' = Has(j) /\ Ahead(j)' = Ahead(j)
      BY <2>5, <1>0, <1>t DEF Has, Ahead
    <3>2. Heights(Out, j)' = Heights(Out, j)
      BY <2>2, <2>5
    <3> QED BY <3>1, <3>2, <2>1, <2>3, <1>0 DEF Kept
  <2> QED BY <2>4, <2>5
<1> QED BY <1>1, <1>2, <1>3 DEF Conserved, Kept

\* A re-sync starts from nothing.
LEMMA RestartIsFresh ==
  ASSUME Restart
  PROVE  NothingYet' /\ (\A i \in Stream : seen'[i] = 0)
BY DEF Restart, StartReaders, NewMerge, NothingYet

\* What is handed out is out already.
LEMMA ReturnKeeps ==
  ASSUME Types, Return
  PROVE  Out' = Out /\ UNCHANGED <<file, sent, cut, rx, floor, peek, seen>>
<1>1. /\ delivered' = delivered \o ready /\ ready' = <<>>
      /\ UNCHANGED <<file, sent, cut, rx, floor, peek, seen>>
  BY DEF Return, readerVars, watchVars
<1> QED BY <1>1, HandedOut DEF Types, Out

LEMMA SameConserved ==
  ASSUME Conserved, Out' = Out, UNCHANGED <<file, sent, rx, floor, peek>>
  PROVE  Conserved'
<1>1. \A i : Received(i)' = Received(i) /\ Ahead(i)' = Ahead(i) /\ Has(i)' = Has(i)
  BY DEF Received, Ahead, Has
<1>2. \A i, n : Due(i, n)' = Due(i, n)
  BY DEF Due
<1> QED BY <1>1, <1>2 DEF Conserved

LEMMA ConservedNext == Types /\ Conserved /\ [Next]_vars => Conserved'
<1>1. ASSUME Types, Conserved, NEW i \in Stream, Send(i)
      PROVE  Conserved'
  <2>1. Out' = Out
    BY <1>1, SendEffect DEF Out
  <2>2. \A j \in Stream : Kept(j)'
    BY <1>1, SendKeeps
  <2> QED BY <1>1, <2>1, <2>2 DEF Conserved, Kept
<1>2. ASSUME Types, Conserved, NEW i \in Stream, Takes(i)
      PROVE  Conserved'
  <2>1. Out' = Out
    BY <1>2 DEF Takes, Out
  <2>2. \A j \in Stream : Kept(j)'
    BY <1>2, TakeKeeps
  <2> QED BY <1>2, <2>1, <2>2 DEF Conserved, Kept
<1>3. ASSUME Types, Conserved, NEW i \in Stream, Pick(i)
      PROVE  Conserved'
  BY <1>3, PickKeeps
<1>4. ASSUME Types, Conserved, Return
      PROVE  Conserved'
  BY <1>4, ReturnKeeps, SameConserved
<1>5. Restart => Conserved'
  BY RestartIsFresh, NothingYetConserved, PTL
<1>6. ASSUME Conserved, UNCHANGED lineVars
      PROVE  Conserved'
  <2>1. Out' = Out /\ UNCHANGED <<file, sent, rx, floor, peek>>
    BY <1>6 DEF lineVars, Out
  <2> QED BY <1>6, <2>1, SameConserved
<1> QED BY <1>1, <1>2, <1>3, <1>4, <1>5, <1>6, LineSteps

\* Nothing is lost or doubled between a reader and the book, whatever was cancelled
\* when, whatever does not parse, for channels of any capacity (take: "Cancel-safe").
THEOREM ConservedThm == Spec => []Conserved
BY InitConserved, ConservedNext, TypesInvariance, PTL DEF Spec

-----------------------------------------------------------------------------
(* Block order.                                                            *)

LEMMA ReceivedType ==
  ASSUME Types, Conserved, NEW i \in Stream
  PROVE  Received(i) \in Nat
<1>1. rx[i] \in Seq(Line) /\ sent[i] \in Nat /\ Len(rx[i]) <= sent[i]
  BY DEF Types, Conserved
<1>2. Len(rx[i]) \in Nat
  BY <1>1
<1> QED BY <1>1, <1>2 DEF Received

\* What is to come is read ahead or is a later line.
LEMMA ComingIs ==
  ASSUME Types, Conserved, NEW i \in Stream, NEW x \in Coming(i)
  PROVE  /\ x \in Nat
         /\ \/ Has(i) /\ x = peek[i].h
            \/ \E k \in 1..Len(file[i]) : k > Received(i) /\ x = file[i][k].h
<1>1. CASE Has(i) /\ x = peek[i].h
  BY <1>1, PickedType
<1>2. CASE ~(Has(i) /\ x = peek[i].h)
  <2>1. PICK k \in (Received(i) + 1)..Len(file[i]) : x = file[i][k].h
    BY <1>2 DEF Coming, Ahead
  <2>2. Received(i) \in Nat /\ file \in Files
    BY ReceivedType DEF Types
  <2>3. Len(file[i]) \in Nat
    BY <2>2, FileRises
  <2>4. k \in 1..Len(file[i]) /\ k > Received(i)
    BY <2>2, <2>3
  <2>5. file[i][k].h \in Nat
    BY <2>2, <2>4, FileRises
  <2> QED BY <2>1, <2>4, <2>5
<1> QED BY <1>1, <1>2

\* The next line is to come, and so is every line after it.
LEMMA LineComes ==
  ASSUME Types, Conserved, NEW i \in Stream, NEW k \in 1..Len(file[i]), k > Received(i)
  PROVE  file[i][k].h \in Coming(i)
<1>1. Received(i) \in Nat /\ file \in Files
  BY ReceivedType DEF Types
<1>2. Len(file[i]) \in Nat
  BY <1>1, FileRises
<1>3. k \in (Received(i) + 1)..Len(file[i])
  BY <1>1, <1>2
<1> QED BY <1>3 DEF Coming

\* What is read ahead is one of the lines received.
LEMMA AheadIsDue ==
  ASSUME Types, Conserved, NEW i \in Stream, Has(i)
  PROVE  /\ peek[i].h \in Nat
         /\ \A k \in 1..Len(file[i]) : k > Received(i) => peek[i].h < file[i][k].h
<1>1. peek[i].h \in Due(i, Received(i))
  BY DEF Conserved, Ahead
<1> QED BY <1>1, ReceivedType, DueIsBelow, PickedType

\* Coming, when lines are sent and batches handed out: the same; when a line is received
\* or a batch picked: no more than there was.
Shrinks == \A i \in Stream : \A x \in Coming(i)' : x \in Coming(i)

LEMMA SameComing ==
  ASSUME UNCHANGED <<file, peek>>, NEW i, Received(i)' = Received(i)
  PROVE  Coming(i)' = Coming(i) /\ Has(i)' = Has(i)
BY DEF Coming, Ahead, Has

LEMMA SendShrinks ==
  ASSUME Types, Conserved, Rises, NEW i \in Stream, Send(i)
  PROVE  Shrinks /\ Rises'
<1>1. UNCHANGED <<file, peek, seen>> /\ \A j \in Stream : Received(j)' = Received(j)
  BY SendEffect, SendKeeps
<1>2. \A j \in Stream : Coming(j)' = Coming(j) /\ Has(j)' = Has(j)
  BY <1>1, SameComing
<1> QED BY <1>1, <1>2 DEF Shrinks, Rises

LEMMA TakeShrinks ==
  ASSUME Types, Conserved, Rises, NEW i \in Stream, Takes(i)
  PROVE  Shrinks /\ Rises'
<1>0. /\ UNCHANGED <<file, seen>> /\ ~Has(i)
      /\ peek' = IF Head(rx[i]).ok /\ Head(rx[i]).h > floor THEN [peek EXCEPT ![i] = Head(rx[i])] ELSE peek
  BY DEF Takes
<1>t. DOMAIN peek = Stream
  BY DEF Types
<1>1. ASSUME NEW j \in Stream, j # i
      PROVE  Coming(j)' = Coming(j) /\ Has(j)' = Has(j) /\ peek'[j] = peek[j]
  <2>1. Received(j)' = Received(j)
    BY <1>1, TakeKeeps
  <2>2. peek'[j] = peek[j]
    BY <1>0, <1>1, <1>t
  <2> QED BY <2>1, <2>2, <1>0 DEF Coming, Ahead, Has
<1>2. /\ Received(i)' = Received(i) + 1 /\ Received(i) \in Nat
      /\ Received(i) + 1 \in 1..Len(file[i]) /\ Head(rx[i]) = file[i][Received(i) + 1]
  BY TakeKeeps
<1>3. PICK r, n : r = Received(i) /\ n = Len(file[i])
  OBVIOUS
<1>4. r \in Nat /\ n \in Nat /\ r + 1 \in 1..n /\ Received(i)' = r + 1
  <2>1. file \in Files
    BY DEF Types
  <2>2. Len(file[i]) \in Nat
    BY <2>1, FileRises
  <2> QED BY <2>2, <1>2, <1>3
<1>5. Has(i)' => peek'[i] = file[i][r + 1]
  BY <1>0, <1>2, <1>3, <1>t DEF Has
<1>6. Coming(i)' = Ahead(i)' \cup {file[i][k].h : k \in ((r + 1) + 1)..n}
  BY <1>0, <1>3, <1>4 DEF Coming
<1>7. ASSUME NEW x \in Coming(i)'
      PROVE  x \in Coming(i) /\ (Has(i)' => peek'[i].h <= x)
  <2>l. ASSUME NEW k \in (r + 1)..n, x = file[i][k].h
        PROVE  x \in Coming(i)
    BY <2>l, <1>3 DEF Coming
  <2>n. file[i][r + 1].h \in Nat
    BY <1>3, <1>4, FileRises DEF Types
  <2>1. CASE Has(i)' /\ x = peek'[i].h
    <3>1. r + 1 \in (r + 1)..n
      BY <1>4
    <3> QED BY <3>1, <2>1, <2>l, <2>n, <1>5
  <2>2. CASE ~(Has(i)' /\ x = peek'[i].h)
    <3>1. x \notin Ahead(i)'
      BY <2>2 DEF Ahead
    <3>2. PICK k \in ((r + 1) + 1)..n : x = file[i][k].h
      BY <3>1, <1>6
    <3>3. k \in (r + 1)..n /\ k \in 1..n /\ r + 1 \in 1..(k - 1)
      BY <1>4
    <3>4. file[i][r + 1].h < file[i][k].h /\ file[i][k].h \in Nat
      BY <3>3, <1>3, FileRises DEF Types
    <3> QED BY <3>2, <3>3, <3>4, <2>l, <2>n, <1>5
  <2> QED BY <2>1, <2>2
<1>8. Shrinks
  BY <1>1, <1>7 DEF Shrinks
<1>9. ASSUME NEW j \in Stream, NEW x \in Coming(j)'
      PROVE  seen'[j] < x /\ (Has(j)' => peek'[j].h <= x)
  <2>1. x \in Coming(j)
    BY <1>8 DEF Shrinks
  <2>2. seen'[j] < x
    BY <2>1, <1>0 DEF Rises
  <2>3. CASE j = i
    BY <2>2, <2>3, <1>7
  <2>4. CASE j # i
    BY <2>1, <2>2, <2>4, <1>1 DEF Rises
  <2> QED BY <2>3, <2>4
<1> QED BY <1>8, <1>9 DEF Rises

LEMMA PickShrinks ==
  ASSUME Types, Conserved, Rises, NEW i \in Stream, Pick(i)
  PROVE  Shrinks /\ Rises'
<1>0. /\ Has(i)
      /\ peek' = [peek EXCEPT ![i] = NoLine]
      /\ seen' = [seen EXCEPT ![i] = IF @ > peek[i].h THEN @ ELSE peek[i].h]
      /\ file' = file /\ \A j \in Stream : Received(j)' = Received(j)
  BY PickEffect, PickKeeps
<1>t. DOMAIN peek = Stream /\ seen \in [Stream -> Nat] /\ peek[i].h \in Nat
  BY <1>0, PickedType DEF Types
<1>1. ASSUME NEW j \in Stream, j # i
      PROVE  Coming(j)' = Coming(j) /\ Has(j)' = Has(j) /\ peek'[j] = peek[j] /\ seen'[j] = seen[j]
  <2>1. peek'[j] = peek[j] /\ seen'[j] = seen[j]
    BY <1>0, <1>1, <1>t
  <2> QED BY <2>1, <1>0 DEF Coming, Ahead, Has
<1>2. ~Has(i)' /\ Ahead(i)' = {}
  BY <1>0, <1>t DEF Has, Ahead
<1>3. Coming(i)' = {file[i][k].h : k \in (Received(i) + 1)..Len(file[i])}
  BY <1>0, <1>2 DEF Coming
<1>4. seen'[i] = peek[i].h
  <2>1. seen[i] < peek[i].h
    BY <1>0 DEF Rises, Coming, Ahead
  <2> QED BY <2>1, <1>0, <1>t
<1>5. ASSUME NEW x \in Coming(i)'
      PROVE  x \in Coming(i) /\ seen'[i] < x
  <2>1. PICK k \in (Received(i) + 1)..Len(file[i]) : x = file[i][k].h
    BY <1>3
  <2>2. Received(i) \in Nat /\ file \in Files
    BY ReceivedType DEF Types
  <2>3. Len(file[i]) \in Nat
    BY <2>2, FileRises
  <2>4. k \in 1..Len(file[i]) /\ k > Received(i)
    BY <2>2, <2>3
  <2>5. peek[i].h < x
    BY <2>1, <2>4, <1>0, AheadIsDue
  <2> QED BY <2>1, <2>5, <1>4 DEF Coming
<1>6. Shrinks
  BY <1>1, <1>5 DEF Shrinks
<1>7. ASSUME NEW j \in Stream, NEW x \in Coming(j)'
      PROVE  seen'[j] < x /\ (Has(j)' => peek'[j].h <= x)
  <2>1. CASE j = i
    BY <2>1, <1>2, <1>5
  <2>2. CASE j # i
    BY <2>2, <1>1 DEF Rises
  <2> QED BY <2>1, <2>2
<1> QED BY <1>6, <1>7 DEF Rises

\* Every height is above the heights taken, of which there is none.
LEMMA NothingTaken ==
  ASSUME Types, NothingYet, \A i \in Stream : seen[i] = 0
  PROVE  Rises /\ Skew /\ BoundedSkew
<1>1. Conserved
  BY NothingYetConserved
<1>2. ASSUME NEW i \in Stream, NEW x \in Coming(i)
      PROVE  seen[i] < x /\ ~Has(i)
  <2>1. ~Has(i) /\ seen[i] = 0
    BY DEF NothingYet, Has
  <2>2. PICK k \in 1..Len(file[i]) : x = file[i][k].h
    BY <2>1, <1>1, ComingIs
  <2>3. file[i][k].h \in Nat /\ file[i][k].h > 0
    BY FileRises DEF Types
  <2> QED BY <2>1, <2>2, <2>3
<1>3. DOMAIN Out = {}
  <2>1. Out = <<>>
    BY DEF Out, NothingYet
  <2> QED BY <2>1
<1> QED BY <1>2, <1>3 DEF Rises, Skew, BoundedSkew

LEMMA RisesNext == Types /\ Conserved /\ Rises /\ [Next]_vars => Rises'
<1>1. ASSUME Types, Conserved, Rises, NEW i \in Stream, Send(i) \/ Takes(i) \/ Pick(i)
      PROVE  Rises'
  BY <1>1, SendShrinks, TakeShrinks, PickShrinks
<1>2. ASSUME Types, Rises, Return \/ UNCHANGED lineVars
      PROVE  Rises'
  <2>1. UNCHANGED <<file, sent, rx, peek, seen>>
    BY <1>2, ReturnKeeps DEF lineVars
  <2>2. \A j \in Stream : Coming(j)' = Coming(j) /\ Has(j)' = Has(j)
    BY <2>1 DEF Coming, Ahead, Has, Received
  <2> QED BY <1>2, <2>1, <2>2 DEF Rises
<1>3. Types' /\ Restart => Rises'
  <2>1. Types /\ NothingYet /\ (\A i \in Stream : seen[i] = 0) => Rises
    BY NothingTaken
  <2>2. Restart => (NothingYet /\ (\A i \in Stream : seen[i] = 0))'
    BY RestartIsFresh
  <2> QED BY <2>1, <2>2, PTL
<1>4. Types /\ [Next]_vars => Types'
  BY TypesNext
<1> QED BY <1>1, <1>2, <1>3, <1>4, LineSteps

LEMMA InitRises == Init => Rises /\ Skew /\ BoundedSkew
<1>1. Init => Types /\ NothingYet /\ (\A i \in Stream : seen[i] = 0)
  BY InitTypes DEF Init, NothingYet
<1> QED BY <1>1, NothingTaken

THEOREM RisesInvariance == Spec => []Rises
BY InitRises, RisesNext, TypesInvariance, ConservedThm, PTL DEF Spec

\* What may go of one stream may precede whatever is to come of the other.
LEMMA PickableMayPrecede ==
  ASSUME Types, Conserved, Rises, NEW i \in Stream, Pickable(i), NEW o \in Stream, o # i, NEW x \in Coming(o)
  PROVE  MayPrecede(Picked(i), o, x)
<1>1. o = 1 - i /\ Has(i) /\ peek[i].h \in Nat /\ x \in Nat
  <2>1. Has(i)
    BY DEF Pickable
  <2> QED BY <2>1, PickedType, ComingIs DEF Stream
<1>2. Picked(i).h = peek[i].h /\ Picked(i).stream = i
      /\ Picked(i).unheld = (~Has(o) /\ UnheldOnce(i, o))
  BY <1>1 DEF Picked
<1>3. CASE Has(o)
  <2>1. peek[o].h <= x /\ peek[o].h \in Nat
    BY <1>3, PickedType DEF Rises
  <2>2. CASE i = 0
    <3>1. o = 1 /\ peek[0].h <= peek[1].h
      BY <2>2, <1>1, <1>3 DEF Pickable
    <3>2. ~(x < peek[i].h) /\ ~(o < i)
      BY <3>1, <2>1, <2>2, <1>1
    <3> QED BY <3>2, <1>2 DEF MayPrecede, BelongsBefore
  <2>3. CASE i = 1
    <3>1. o = 0 /\ peek[0].h > peek[1].h
      BY <2>3, <1>1, <1>3 DEF Pickable
    <3>2. ~(x < peek[i].h) /\ x # peek[i].h
      BY <3>1, <2>1, <2>3, <1>1
    <3> QED BY <3>2, <1>2 DEF MayPrecede, BelongsBefore
  <2> QED BY <2>2, <2>3 DEF Stream
<1>4. CASE ~Has(o)
  <2>1. LoneMayGo(i, o)
    BY <1>1, <1>4 DEF Pickable
  <2>2. CASE UnheldOnce(i, o)
    <3>1. Picked(i).unheld
      BY <2>2, <1>2, <1>4
    <3> QED BY <3>1 DEF MayPrecede
  <2>3. CASE ~UnheldOnce(i, o)
    <3>1. peek[i].h <= seen[o] + MERGE_LOOKAHEAD_BLOCKS
      BY <2>1, <2>3 DEF LoneMayGo
    <3>2. seen[o] < x /\ seen[o] \in Nat /\ MERGE_LOOKAHEAD_BLOCKS \in Nat
      BY MergeAssumption DEF Rises, Types
    <3>3. peek[i].h < x + MERGE_LOOKAHEAD_BLOCKS
      BY <3>1, <3>2, <1>1
    <3> QED BY <3>3, <1>2 DEF MayPrecede
  <2> QED BY <2>2, <2>3
<1> QED BY <1>3, <1>4

\* The invariant of the order, and the order itself.
InOrder == Skew /\ BoundedSkew

LEMMA SameOut ==
  ASSUME InOrder, Out' = Out, Shrinks
  PROVE  InOrder'
<1>1. Skew'
  <2> SUFFICES ASSUME NEW i \in Stream, NEW x \in Coming(i)', NEW k \in DOMAIN Out, Out[k].stream # i
               PROVE  MayPrecede(Out[k], i, x)
    BY DEF Skew, MayPrecede
  <2>1. x \in Coming(i)
    BY DEF Shrinks
  <2> QED BY <2>1 DEF InOrder, Skew
<1>2. BoundedSkew'
  BY DEF InOrder, BoundedSkew
<1> QED BY <1>1, <1>2 DEF InOrder

LEMMA PickInOrder ==
  ASSUME Types, Conserved, Rises, InOrder, NEW i \in Stream, Pick(i)
  PROVE  InOrder'
<1>1. PICK q, p, b : q = Out /\ p = Out' /\ b = Picked(i)
  OBVIOUS
<1>2. Has(i) /\ Pickable(i) /\ b \in Batch /\ b.h = peek[i].h /\ b.stream = i
  BY <1>1, PickEffect, PickedType DEF Picked
<1>3. /\ p = Append(q, b) /\ q \in Seq(Batch) /\ DOMAIN p = 1..(Len(q) + 1) /\ DOMAIN q = 1..Len(q)
      /\ p[Len(q) + 1] = b /\ Len(q) \in Nat
      /\ \A k \in 1..Len(q) : p[k] = q[k]
  BY <1>1, <1>2, PickKeeps, AppendBatch
<1>4. Shrinks
  BY PickShrinks
<1>5. ASSUME NEW j \in Stream, NEW x \in Coming(j)', NEW k \in DOMAIN p, p[k].stream # j
      PROVE  MayPrecede(p[k], j, x)
  <2>1. x \in Coming(j)
    BY <1>4 DEF Shrinks
  <2>2. CASE k = Len(q) + 1
    BY <2>1, <2>2, <1>1, <1>2, <1>3, <1>5, PickableMayPrecede
  <2>3. CASE k # Len(q) + 1
    <3>1. k \in DOMAIN q /\ p[k] = q[k]
      <4>1. k \in 1..Len(q)
        BY <2>3, <1>3
      <4> QED BY <4>1, <1>3
    <3> QED BY <3>1, <2>1, <1>1, <1>5 DEF InOrder, Skew
  <2> QED BY <2>2, <2>3
<1>6. ASSUME NEW k \in DOMAIN p, NEW j \in 1..(k - 1),
             p[j].stream # p[k].stream, BelongsBefore(p[k], p[j])
      PROVE  p[j].unheld \/ p[j].h < p[k].h + MERGE_LOOKAHEAD_BLOCKS
  <2>1. j \in DOMAIN q /\ p[j] = q[j]
    <3>1. j \in 1..Len(q)
      BY <1>3
    <3> QED BY <3>1, <1>3
  <2>2. CASE k = Len(q) + 1
    <3>1. p[k] = b /\ peek[i].h \in Coming(i)
      BY <2>2, <1>2, <1>3 DEF Coming, Ahead
    <3>2. MayPrecede(q[j], i, peek[i].h)
      BY <3>1, <2>1, <1>1, <1>2, <1>6 DEF InOrder, Skew
    <3>3. BelongsBefore([h |-> peek[i].h, stream |-> i], q[j])
      BY <3>1, <2>1, <1>2, <1>6 DEF BelongsBefore
    <3> QED BY <3>1, <3>2, <3>3, <2>1, <1>2 DEF MayPrecede
  <2>3. CASE k # Len(q) + 1
    <3>1. k \in DOMAIN q /\ p[k] = q[k]
      <4>1. k \in 1..Len(q)
        BY <2>3, <1>3
      <4> QED BY <4>1, <1>3
    <3> QED BY <3>1, <2>1, <1>1, <1>6 DEF InOrder, BoundedSkew
  <2> QED BY <2>2, <2>3
<1>7. Skew'
  BY <1>1, <1>5 DEF Skew, MayPrecede
<1>8. BoundedSkew'
  BY <1>1, <1>6 DEF BoundedSkew
<1> QED BY <1>7, <1>8 DEF InOrder

LEMMA InOrderNext == Types /\ Conserved /\ Rises /\ InOrder /\ [Next]_vars => InOrder'
<1>1. ASSUME Types, Conserved, Rises, InOrder, NEW i \in Stream, Send(i) \/ Takes(i)
      PROVE  InOrder'
  <2>1. Out' = Out
    BY <1>1, SendEffect DEF Takes, Out
  <2>2. Shrinks
    BY <1>1, SendShrinks, TakeShrinks
  <2> QED BY <1>1, <2>1, <2>2, SameOut
<1>2. ASSUME Types, Conserved, Rises, InOrder, NEW i \in Stream, Pick(i)
      PROVE  InOrder'
  BY <1>2, PickInOrder
<1>3. ASSUME Types, InOrder, Return \/ UNCHANGED lineVars
      PROVE  InOrder'
  <2>1. Out' = Out /\ UNCHANGED <<file, sent, rx, peek>>
    BY <1>3, ReturnKeeps DEF lineVars, Out
  <2>2. Shrinks
    BY <2>1 DEF Shrinks, Coming, Ahead, Has, Received
  <2> QED BY <1>3, <2>1, <2>2, SameOut
<1>4. Types' /\ Restart => InOrder'
  <2>1. Types /\ NothingYet /\ (\A i \in Stream : seen[i] = 0) => InOrder
    BY NothingTaken DEF InOrder
  <2>2. Restart => (NothingYet /\ (\A i \in Stream : seen[i] = 0))'
    BY RestartIsFresh
  <2> QED BY <2>1, <2>2, PTL
<1>5. Types /\ [Next]_vars => Types'
  BY TypesNext
<1> QED BY <1>1, <1>2, <1>3, <1>4, <1>5, LineSteps

\* Block order: a batch goes before one of the other stream that belongs before it only by
\* less than the lookahead, unless that stream was dead or had not been heard of; for any
\* files, any lookahead and any number of batches taken at once (pick, take).
THEOREM BoundedSkewThm == Spec => []BoundedSkew
<1>1. Init => InOrder
  BY InitRises DEF InOrder
<1>2. InOrder => BoundedSkew
  BY DEF InOrder
<1> QED BY <1>1, <1>2, InOrderNext, TypesInvariance, ConservedThm, RisesInvariance, PTL DEF Spec

-----------------------------------------------------------------------------
(* Silence.                                                                *)

LEMMA InitClock == Init => Clock
<1> SUFFICES ASSUME Init PROVE Clock
  OBVIOUS
<1>1. /\ quiet = [i \in Stream |-> 0] /\ waiting_since = NotWaiting /\ DOMAIN rx = Stream
  BY DEF Init
<1>2. 0 \in 0..DEAD_WAIT /\ NotWaiting \in 0..NotWaiting
  BY MergeAssumption DEF NotWaiting
<1> QED BY <1>1, <1>2 DEF Clock

\* The wait ends, or begins anew, and no channel loses a line otherwise.
LEMMA EndOfWait ==
  ASSUME Clock, DOMAIN rx' = Stream, quiet' = quiet \/ quiet' = [i \in Stream |-> 0],
         waiting_since' = NotWaiting \/ waiting_since' = 0
  PROVE  Clock'
<1>1. quiet' \in [Stream -> 0..DEAD_WAIT] /\ NotWaiting \in 0..NotWaiting /\ 0 \in 0..NotWaiting
  BY MergeAssumption DEF Clock, NotWaiting
<1>2. \A i \in Stream : 0 <= quiet'[i]
  BY <1>1, MergeAssumption
<1> QED BY <1>1, <1>2 DEF Clock

LEMMA SameClock ==
  ASSUME Clock, UNCHANGED <<quiet, waiting_since, rx>>
  PROVE  Clock'
BY DEF Clock

LEMMA TickClock ==
  ASSUME Clock, Tick
  PROVE  Clock'
<1>0. /\ waiting_since < DEAD_WAIT /\ waiting_since' = waiting_since + 1 /\ rx' = rx
      /\ quiet' = [i \in Stream |-> IF quiet[i] < DEAD_WAIT THEN quiet[i] + 1 ELSE quiet[i]]
  BY DEF Tick
<1>t. DEAD_WAIT \in Nat /\ waiting_since \in 0..(DEAD_WAIT + 1) /\ quiet \in [Stream -> 0..DEAD_WAIT]
  BY MergeAssumption DEF Clock, NotWaiting
<1>1. waiting_since' \in 0..(DEAD_WAIT + 1) /\ waiting_since # DEAD_WAIT + 1
  BY <1>0, <1>t
<1>2. quiet' \in [Stream -> 0..DEAD_WAIT]
  BY <1>0, <1>t
<1>3. ASSUME NEW i \in Stream, rx'[i] = <<>>
      PROVE  waiting_since' <= quiet'[i]
  <2>1. waiting_since <= quiet[i]
    BY <1>0, <1>1, <1>3 DEF Clock, NotWaiting
  <2>2. quiet[i] \in 0..DEAD_WAIT /\ quiet'[i] = IF quiet[i] < DEAD_WAIT THEN quiet[i] + 1 ELSE quiet[i]
    BY <1>0, <1>t
  <2> QED BY <2>1, <2>2, <1>0, <1>t
<1> QED BY <1>0, <1>1, <1>2, <1>3 DEF Clock, NotWaiting

LEMMA SendClock ==
  ASSUME Types, Clock, NEW i \in Stream, Send(i)
  PROVE  Clock'
<1>0. /\ rx' = [rx EXCEPT ![i] = Append(@, file[i][sent[i] + 1])]
      /\ quiet' = [quiet EXCEPT ![i] = 0] /\ waiting_since' = waiting_since
      /\ file[i][sent[i] + 1] \in Line
  BY SendEffect DEF Send, mergeVars
<1>1. quiet' \in [Stream -> 0..DEAD_WAIT] /\ DOMAIN rx' = Stream
  BY <1>0, MergeAssumption DEF Clock
<1>2. rx'[i] # <<>>
  <2>1. rx[i] \in Seq(Line) /\ rx'[i] = Append(rx[i], file[i][sent[i] + 1])
    BY <1>0 DEF Types
  <2> QED BY <2>1, <1>0
<1>3. \A j \in Stream : j # i => rx'[j] = rx[j] /\ quiet'[j] = quiet[j]
  BY <1>0 DEF Clock
<1> QED BY <1>0, <1>1, <1>2, <1>3 DEF Clock

LEMMA ClockNext == Types /\ Clock /\ [Next]_vars => Clock'
<1> SUFFICES ASSUME Types, Clock, [Next]_vars PROVE Clock'
  OBVIOUS
<1>a. ASSUME NEW i \in Stream, accept(i)
      PROVE  DOMAIN rx' = Stream /\ waiting_since' = NotWaiting
  BY <1>a DEF accept, Clock
<1>1. ASSUME NEW i \in Stream, Send(i)
      PROVE  Clock'
  BY <1>1, SendClock
<1>2. ASSUME NEW i \in Stream,
             BackfillDone(i) \/ GoLive(i) \/ OldExits(i) \/ OldGoesLive(i) \/ Pick(i)
      PROVE  Clock'
  <2>1. UNCHANGED <<quiet, waiting_since, rx>>
    BY <1>2 DEF BackfillDone, GoLive, OldExits, OldGoesLive, Pick, mergeVars, readerVars
  <2> QED BY <2>1, SameClock
<1>3. ASSUME NEW i \in Stream, Refill(i)
      PROVE  Clock'
  <2>1. quiet' = quiet /\ (accept(i) \/ UNCHANGED <<rx, waiting_since>>)
    BY <1>3 DEF Refill, readerVars
  <2> QED BY <2>1, <1>a, SameClock, EndOfWait
<1>4. ASSUME NEW i \in Stream, WakeOnLine(i)
      PROVE  Clock'
  <2>1. quiet' = quiet /\ accept(i)
    BY <1>4 DEF WakeOnLine, readerVars
  <2> QED BY <2>1, <1>a, EndOfWait
<1>5. ASSUME NEW i \in Stream, WakeDead(i)
      PROVE  Clock'
  <2>1. quiet' = quiet /\ rx' = rx /\ waiting_since' = NotWaiting
    BY <1>5 DEF WakeDead, readerVars
  <2> QED BY <2>1, EndOfWait DEF Clock
<1>6. CASE PickNone
  <2>1. quiet' = quiet /\ rx' = rx /\ (waiting_since' = waiting_since \/ waiting_since' = 0)
    BY <1>6 DEF PickNone, readerVars
  <2> QED BY <2>1, SameClock, EndOfWait DEF Clock
<1>7. CASE Return \/ Cancel \/ Install \/ UNCHANGED vars
  <2>1. UNCHANGED <<quiet, waiting_since, rx>>
    BY <1>7 DEF Return, Cancel, Install, vars, readerVars, mergeVars
  <2> QED BY <2>1, SameClock
<1>8. CASE Restart
  <2>1. quiet' = [i \in Stream |-> 0] /\ waiting_since' = NotWaiting /\ DOMAIN rx' = Stream
    BY <1>8 DEF Restart, StartReaders, NewMerge
  <2> QED BY <2>1, EndOfWait
<1>9. CASE Tick
  BY <1>9, TickClock
<1> QED BY <1>1, <1>2, <1>3, <1>4, <1>5, <1>6, <1>7, <1>8, <1>9 DEF Next, Read, Old, Take, Wake

THEOREM ClockInvariance == Spec => []Clock
BY InitClock, ClockNext, TypesInvariance, PTL DEF Spec

Verdicts == dead \in [Stream -> BOOLEAN]

\* A verdict falls only at the end of a wait on that stream; an accepted line lifts it.
LEMMA VerdictSteps ==
  ASSUME Verdicts, [Next]_vars
  PROVE  /\ Verdicts'
         /\ \A i \in Stream : ~dead[i] /\ dead'[i] => WakeDead(i)
<1>1. ASSUME NEW i \in Stream, accept(i)
      PROVE  Verdicts' /\ \A j \in Stream : ~(~dead[j] /\ dead'[j])
  BY <1>1 DEF accept, Verdicts
<1>2. ASSUME dead' = dead
      PROVE  Verdicts' /\ \A j \in Stream : ~(~dead[j] /\ dead'[j])
  BY <1>2 DEF Verdicts
<1>3. ASSUME NEW i \in Stream,
             Send(i) \/ BackfillDone(i) \/ GoLive(i) \/ OldExits(i) \/ OldGoesLive(i) \/ Pick(i)
      PROVE  dead' = dead
  BY <1>3 DEF Send, BackfillDone, GoLive, OldExits, OldGoesLive, Pick, mergeVars
<1>4. ASSUME NEW i \in Stream, Refill(i) \/ WakeOnLine(i)
      PROVE  accept(i) \/ dead' = dead
  BY <1>4 DEF Refill, WakeOnLine
<1>5. ASSUME PickNone \/ Return \/ Cancel \/ Install \/ Tick \/ UNCHANGED vars
      PROVE  dead' = dead
  BY <1>5 DEF PickNone, Return, Cancel, Install, Tick, vars, mergeVars
<1>6. ASSUME NEW i \in Stream, WakeDead(i)
      PROVE  Verdicts' /\ \A j \in Stream : ~dead[j] /\ dead'[j] => WakeDead(j)
  <2>1. dead' = [dead EXCEPT ![i] = TRUE]
    BY <1>6 DEF WakeDead
  <2>2. \A j \in Stream : j # i => dead'[j] = dead[j]
    BY <2>1 DEF Verdicts
  <2>3. \A j \in Stream : ~dead[j] /\ dead'[j] => j = i
    BY <2>2
  <2>4. Verdicts'
    BY <2>1 DEF Verdicts
  <2> QED BY <2>3, <2>4, <1>6
<1>7. CASE Restart
  <2>1. dead' = [i \in Stream |-> FALSE]
    BY <1>7 DEF Restart, NewMerge
  <2> QED BY <2>1 DEF Verdicts
<1> QED BY <1>1, <1>2, <1>3, <1>4, <1>5, <1>6, <1>7 DEF Next, Read, Old, Take, Wake

\* A stream is declared dead only after DEAD_WAIT without a line from it: a slow reader
\* that still delivers never looks dead, whatever cuts the waits short (wait, dead,
\* MERGE_DEAD_WAIT).
THEOREM DeadIsSilentThm == Spec => DeadIsSilent
<1>1. Clock /\ Verdicts /\ [Next]_vars =>
        [\A i \in Stream : ~dead[i] /\ dead'[i] /\ rx[i] = <<>> => quiet[i] = DEAD_WAIT]_vars
  <2> SUFFICES ASSUME Clock, Verdicts, [Next]_vars,
                      NEW i \in Stream, ~dead[i], dead'[i], rx[i] = <<>>
               PROVE  quiet[i] = DEAD_WAIT
    OBVIOUS
  <2>1. WakeDead(i)
    BY VerdictSteps
  <2>2. waiting_since = DEAD_WAIT
    BY <2>1 DEF WakeDead
  <2>3. DEAD_WAIT \in Nat /\ DEAD_WAIT # NotWaiting /\ quiet[i] \in 0..DEAD_WAIT
    BY MergeAssumption DEF NotWaiting, Clock
  <2>4. waiting_since <= quiet[i]
    BY <2>2, <2>3 DEF Clock
  <2> QED BY <2>2, <2>3, <2>4
<1>2. Init => Verdicts
  BY DEF Init, Verdicts
<1>3. Verdicts /\ [Next]_vars => Verdicts'
  BY VerdictSteps
<1> QED BY <1>1, <1>2, <1>3, ClockInvariance, PTL DEF Spec, DeadIsSilent
=============================================================================
