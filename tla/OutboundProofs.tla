--------------------------- MODULE OutboundProofs ---------------------------
(***************************************************************************)
(* The frames of a connection arrive in order and without a hole, and a    *)
(* writer that drains its queues leaves nothing behind, for any depths of  *)
(* the queues and any number of frames and pings.                          *)
(***************************************************************************)
EXTENDS Outbound, TLAPS, FiniteSetTheorems

Frame == [kind : {"data", "pong"}, n : Nat]

\* Is a frame of this kind being written?
Flying(kind) == IF \E f \in flight : f.kind = kind THEN 1 ELSE 0

\* The frames of a kind that have left their queue.
Taken(kind) == Count(kind, Len(wire)) + Flying(kind)

\* Count, on any wire.
CountIn(w, kind, n) == Cardinality({i \in 1..n : w[i].kind = kind})

-----------------------------------------------------------------------------
(* The inductive invariant.                                                *)

Types ==
  /\ TypeOK
  /\ wire \in Seq(Frame)
  /\ accepted \in Nat
  /\ writer = "write" => \E f \in Frame : flight = {f}
  /\ writer # "write" => flight = {}
  /\ session = "send" => frames > 0

\* As long as the writer writes, a queue goes on where the wire, with the frame
\* being written, has got to, and ends where the session has.
Numbered ==
  writer \in {"pick", "write"} =>
    /\ \A f \in flight : f.n = Count(f.kind, Len(wire)) + 1
    /\ \A i \in DOMAIN data : data[i] = Taken("data") + i
    /\ \A i \in DOMAIN pongs : pongs[i] = Taken("pong") + i
    /\ session = "run" => frames = Taken("data") + Len(data)
    /\ session = "send" => frames = Taken("data") + Len(data) + 1
    /\ session \in {"run", "send"} => answered = Taken("pong") + Len(pongs)

\* A frame that was accepted is on the wire, being written or queued, unless the
\* writer failed or was aborted.
Kept ==
  /\ writer \in {"pick", "write"} <=> outcome = "none"
  /\ outcome \in {"none", "drained"} =>
       accepted = Len(wire) + Cardinality(flight) + Len(data) + Len(pongs)
  /\ outcome = "drained" => SendersDropped /\ data = <<>> /\ pongs = <<>>

IInv == Types /\ InOrder /\ Numbered /\ Kept

-----------------------------------------------------------------------------
(* Counting.                                                               *)

\* One more frame adds one to the count of its kind.
LEMMA CountAppend ==
  ASSUME NEW w \in Seq(Frame), NEW f \in Frame, NEW kind
  PROVE  /\ CountIn(w, kind, Len(w)) \in Nat
         /\ \A n \in 0..Len(w) : CountIn(Append(w, f), kind, n) = CountIn(w, kind, n)
         /\ CountIn(Append(w, f), kind, Len(w) + 1)
              = CountIn(w, kind, Len(w)) + (IF f.kind = kind THEN 1 ELSE 0)
<1> DEFINE S == {i \in 1..Len(w) : w[i].kind = kind}
           v1 == Append(w, f)
           S1 == {i \in 1..(Len(w) + 1) : v1[i].kind = kind}
<1>1. Len(w) \in Nat
  OBVIOUS
<1>2. IsFiniteSet(S) /\ Cardinality(S) \in Nat
  <2>1. IsFiniteSet(1..Len(w))
    BY <1>1, FS_Interval
  <2>2. S \subseteq 1..Len(w)
    OBVIOUS
  <2>3. QED
    BY <2>1, <2>2, FS_Subset, FS_CardinalityType
<1>3. \A n \in 0..Len(w) : {i \in 1..n : v1[i].kind = kind} = {i \in 1..n : w[i].kind = kind}
  BY <1>1
<1>4. S1 = IF f.kind = kind THEN S \cup {Len(w) + 1} ELSE S
  BY <1>1
<1>5. Cardinality(S1) = Cardinality(S) + (IF f.kind = kind THEN 1 ELSE 0)
  <2>1. Len(w) + 1 \notin S
    BY <1>1
  <2>2. Cardinality(S \cup {Len(w) + 1}) = Cardinality(S) + 1
    BY <1>2, <2>1, FS_AddElement
  <2>3. CASE f.kind = kind
    BY <1>4, <2>2, <2>3
  <2>4. CASE f.kind # kind
    <3>1. S1 = S
      BY <1>4, <2>4
    <3> HIDE DEF S, S1
    <3>2. QED
      BY <1>2, <2>4, <3>1
  <2>5. QED
    BY <2>3, <2>4
<1>6. QED
  BY <1>2, <1>3, <1>5 DEF CountIn

\* The count over the whole wire is a number.
LEMMA CountType ==
  ASSUME wire \in Seq(Frame), NEW kind
  PROVE  Count(kind, Len(wire)) \in Nat
<1>1. Len(wire) \in Nat
  OBVIOUS
<1>2. IsFiniteSet(1..Len(wire))
  BY <1>1, FS_Interval
<1>3. {i \in 1..Len(wire) : wire[i].kind = kind} \subseteq 1..Len(wire)
  OBVIOUS
<1>4. QED
  BY <1>2, <1>3, FS_Subset, FS_CardinalityType DEF Count

\* Nothing or one frame is being written.
LEMMA FlightSize ==
  ASSUME Types
  PROVE  /\ writer = "write" => Cardinality(flight) = 1
         /\ writer # "write" => Cardinality(flight) = 0
BY FS_EmptySet, FS_Singleton DEF Types, TypeOK

\* What goes behind a queue that is numbered from k on is numbered too.
LEMMA AppendNumbered ==
  \A q \in Seq(Nat), k \in Nat : \A r :
    (\A i \in DOMAIN q : q[i] = k + i) /\ r = Append(q, k + Len(q) + 1)
      => \A i \in DOMAIN r : r[i] = k + i
<1> SUFFICES ASSUME NEW q \in Seq(Nat), NEW k \in Nat, \A i \in DOMAIN q : q[i] = k + i,
                    NEW r, r = Append(q, k + Len(q) + 1)
             PROVE  \A i \in DOMAIN r : r[i] = k + i
  BY Zenon
<1>1. /\ Len(q) \in Nat /\ DOMAIN q = 1..Len(q)
      /\ Len(r) = Len(q) + 1 /\ DOMAIN r = 1..(Len(q) + 1)
      /\ \A i \in 1..Len(q) : r[i] = q[i]
      /\ r[Len(q) + 1] = k + Len(q) + 1
  OBVIOUS
<1>2. \A i \in 1..(Len(q) + 1) : i \in 1..Len(q) \/ i = Len(q) + 1
  BY <1>1
<1>3. ASSUME NEW i \in DOMAIN r PROVE r[i] = k + i
  <2>1. CASE i \in 1..Len(q)
    BY <1>1, <2>1
  <2>2. CASE i = Len(q) + 1
    <3>1. r[i] = k + Len(q) + 1
      BY <1>1, <2>2, Zenon
    <3>2. QED
      BY <1>1, <2>2, <3>1
  <2>3. QED
    BY <1>1, <1>2, <2>1, <2>2
<1>4. QED
  BY <1>1, <1>3

-----------------------------------------------------------------------------
(* Invariance.                                                             *)

\* The invariant holds of a connection that has just been made.
LEMMA InitInv == Init => IInv
<1> SUFFICES ASSUME Init PROVE IInv
  OBVIOUS
<1> USE OutboundAssumption DEF Init
<1>1. Types
  BY FS_EmptySet DEF Types, TypeOK
<1>2. InOrder
  BY DEF InOrder
<1>3. Count("data", Len(wire)) = 0 /\ Count("pong", Len(wire)) = 0
  BY FS_EmptySet DEF Count
<1>4. Numbered
  BY <1>3 DEF Numbered, Taken, Flying
<1>5. Kept
  BY FS_EmptySet DEF Kept
<1>6. QED
  BY <1>1, <1>2, <1>4, <1>5 DEF IInv

\* A step that leaves the wire and the frame being written alone counts as before.
LEMMA SameCounts ==
  ASSUME UNCHANGED <<wire, flight>>
  PROVE  /\ \A kind : Count(kind, Len(wire))' = Count(kind, Len(wire))
         /\ \A kind : Taken(kind)' = Taken(kind)
BY DEF Count, Taken, Flying

\* What a client has got stays in order when it gets no more.
LEMMA SameWire ==
  ASSUME InOrder, UNCHANGED wire
  PROVE  InOrder'
BY DEF InOrder, Count

\* The session's steps keep the invariant.
LEMMA SessionInv == IInv /\ SessionStep => IInv'
<1> SUFFICES ASSUME IInv, SessionStep PROVE IInv'
  OBVIOUS
<1> USE OutboundAssumption
<1>t. Types /\ TypeOK /\ InOrder /\ Numbered /\ Kept
  BY DEF IInv, Types
<1>c. Taken("data") \in Nat /\ Taken("pong") \in Nat
  BY <1>t, CountType DEF Taken, Flying, Types
<1>w. UNCHANGED wire
  BY DEF SessionStep, MakeFrame, Enqueue, EnqueueFails, ReadPing, Leave, WriterGone, Finish, Abort,
         clientVars
<1>o. InOrder'
  BY <1>t, <1>w, SameWire
<1>1. CASE MakeFrame
  <2> USE <1>1 DEF MakeFrame, writerVars, clientVars
  <2>1. Types'
    BY <1>t DEF Types, TypeOK
  <2>2. Numbered'
    BY <1>t, <1>c, SameCounts DEF Numbered, Types, TypeOK
  <2>3. Kept'
    BY <1>t DEF Kept, SendersDropped
  <2>4. QED
    BY <1>o, <2>1, <2>2, <2>3 DEF IInv
<1>2. CASE Enqueue
  <2>0. /\ session = "send" /\ session' \in {"run", "end"} /\ accepted' = accepted + 1
        /\ UNCHANGED <<is_ready, frames, pongs, writer, flight, reading, asked, wire, answered, outcome>>
    BY <1>2 DEF Enqueue, writerVars, clientVars
  <2>d. data' = Append(data, frames) /\ Len(data) < OUTBOUND_QUEUE_DEPTH
    BY <1>2 DEF Enqueue, TakeSlot
  <2>l. /\ Len(data) \in Nat /\ Len(data') = Len(data) + 1
        /\ Len(wire) \in Nat /\ Len(pongs) \in Nat /\ Cardinality(flight) \in Nat /\ accepted \in Nat
    BY <1>t, <2>d, FlightSize DEF Types, TypeOK
  <2>1. Types'
    <3>1. frames \in 1..(MaxFrames + 1)
      BY <1>t, <2>0 DEF Types, TypeOK
    <3>2. data' \in Seq(1..(MaxFrames + 1)) /\ Len(data') <= OUTBOUND_QUEUE_DEPTH
      BY <1>t, <2>d, <2>l, <3>1 DEF TypeOK
    <3>3. TypeOK'
      BY <1>t, <2>0, <3>2 DEF TypeOK
    <3>4. QED
      BY <1>t, <2>0, <2>l, <3>1, <3>3 DEF Types
  <2>2. Numbered'
    <3> SUFFICES ASSUME writer' \in {"pick", "write"} PROVE Numbered'
      BY DEF Numbered
    <3>1. data \in Seq(Nat) /\ \A i \in DOMAIN data : data[i] = Taken("data") + i
      BY <1>t, <2>0 DEF Numbered, TypeOK
    <3>2. frames = Taken("data") + Len(data) + 1
      BY <1>t, <2>0 DEF Numbered
    <3>3. data' = Append(data, Taken("data") + Len(data) + 1)
      BY <2>d, <3>2
    <3>4. \A i \in DOMAIN data' : data'[i] = Taken("data") + i
      <4> DEFINE k == Taken("data")
      <4>1. /\ k \in Nat /\ data \in Seq(Nat)
            /\ \A i \in DOMAIN data : data[i] = k + i
            /\ data' = Append(data, k + Len(data) + 1)
        BY <1>c, <3>1, <3>3
      <4> HIDE DEF k
      <4>2. \A i \in DOMAIN data' : data'[i] = k + i
        BY <4>1, AppendNumbered
      <4>3. QED
        BY <4>2 DEF k
    <3>5. frames' = Taken("data") + Len(data')
      BY <1>c, <2>0, <2>l, <3>2
    <3>6. QED
      BY <1>t, <2>0, <3>4, <3>5, SameCounts DEF Numbered
  <2>3. Kept'
    BY <1>t, <2>0, <2>l DEF Kept, SendersDropped
  <2>4. QED
    BY <1>o, <2>1, <2>2, <2>3 DEF IInv
<1>3. CASE EnqueueFails \/ Leave \/ WriterGone \/ Finish
  <2>0. /\ session' \in {"end", "done"}
        /\ UNCHANGED <<is_ready, frames, data, pongs, writer, flight, reading, asked, wire, answered,
                       outcome, accepted>>
    BY <1>3 DEF EnqueueFails, Leave, WriterGone, Finish, writerVars, clientVars
  <2>1. Types'
    BY <1>t, <2>0 DEF Types, TypeOK
  <2>2. Numbered'
    BY <1>t, <2>0, SameCounts DEF Numbered
  <2>3. Kept'
    BY <1>t, <2>0 DEF Kept, SendersDropped
  <2>4. QED
    BY <1>o, <2>1, <2>2, <2>3 DEF IInv
<1>4. CASE ReadPing
  <2> USE <1>4 DEF ReadPing, Open, writerVars, clientVars
  <2>l. /\ Len(pongs) \in Nat /\ Len(wire) \in Nat /\ Len(data) \in Nat
        /\ Cardinality(flight) \in Nat /\ accepted \in Nat
    BY <1>t, FlightSize DEF Types, TypeOK
  <2>1. CASE Open /\ Len(pongs) < PONG_QUEUE_DEPTH
    <3>1. answered + 1 \in 1..MaxPings /\ answered' \in 0..asked' /\ answered \in Nat
      BY <1>t DEF TypeOK
    <3>2. pongs' = Append(pongs, answered + 1) /\ accepted' = accepted + 1 /\ session' = session
      BY <2>1
    <3>3. pongs' \in Seq(1..MaxPings) /\ Len(pongs') = Len(pongs) + 1
      BY <1>t, <3>1, <3>2 DEF TypeOK
    <3>4. Types'
      BY <1>t, <2>l, <2>1, <3>1, <3>2, <3>3 DEF Types, TypeOK
    <3>5. Numbered'
      <4> SUFFICES ASSUME writer' \in {"pick", "write"} PROVE Numbered'
        BY DEF Numbered
      <4>1. pongs \in Seq(Nat) /\ \A i \in DOMAIN pongs : pongs[i] = Taken("pong") + i
        BY <1>t DEF Numbered, TypeOK
      <4>2. answered = Taken("pong") + Len(pongs)
        BY <1>t DEF Numbered
      <4>3. pongs' = Append(pongs, Taken("pong") + Len(pongs) + 1)
        BY <3>2, <4>2
      <4>4. \A i \in DOMAIN pongs' : pongs'[i] = Taken("pong") + i
        BY <1>c, <4>1, <4>3, AppendNumbered
      <4>5. answered' = Taken("pong") + Len(pongs')
        BY <1>c, <2>l, <3>3, <4>2
      <4>6. QED
        BY <1>t, <3>2, <4>4, <4>5, SameCounts DEF Numbered
    <3>6. Kept'
      BY <1>t, <2>l, <3>2, <3>3 DEF Kept, SendersDropped
    <3>7. QED
      BY <1>o, <3>4, <3>5, <3>6 DEF IInv
  <2>2. CASE ~(Open /\ Len(pongs) < PONG_QUEUE_DEPTH)
    <3>1. session' = "end" /\ pongs' = pongs /\ accepted' = accepted
      BY <2>2
    <3>2. Types'
      BY <1>t, <3>1 DEF Types, TypeOK
    <3>3. Numbered'
      BY <1>t, <1>c, <3>1, SameCounts DEF Numbered
    <3>4. Kept'
      BY <1>t, <3>1 DEF Kept, SendersDropped
    <3>5. QED
      BY <1>o, <3>2, <3>3, <3>4 DEF IInv
  <2>3. QED
    BY <2>1, <2>2
<1>5. CASE Abort
  <2> USE <1>5 DEF Abort, clientVars
  <2>1. Types'
    BY <1>t, FS_EmptySet DEF Types, TypeOK
  <2>2. Numbered'
    BY DEF Numbered
  <2>3. Kept'
    BY DEF Kept
  <2>4. QED
    BY <1>o, <2>1, <2>2, <2>3 DEF IInv
<1>6. QED
  BY <1>1, <1>2, <1>3, <1>4, <1>5 DEF SessionStep

\* A frame that leaves its queue is the next of its kind.
LEMMA PickInv == IInv /\ (PickPong \/ PickData) => IInv'
<1> SUFFICES ASSUME IInv, PickPong \/ PickData PROVE IInv'
  OBVIOUS
<1> USE OutboundAssumption
<1>t. Types /\ TypeOK /\ InOrder /\ Numbered /\ Kept
  BY DEF IInv, Types
<1>c. /\ Count("data", Len(wire)) \in Nat /\ Count("pong", Len(wire)) \in Nat
      /\ \A kind : Count(kind, Len(wire))' = Count(kind, Len(wire))
  BY <1>t, CountType DEF Types, Count, PickPong, PickData, clientVars
<1>f. flight = {} /\ Cardinality(flight) = 0
  BY <1>t, FS_EmptySet DEF Types, PickPong, PickData
<1>o. InOrder'
  BY <1>t, SameWire DEF PickPong, PickData, clientVars
<1>1. CASE PickPong
  <2> USE <1>1 DEF PickPong, Pong, clientVars
  <2>1. Head(pongs) \in 1..MaxPings /\ Tail(pongs) \in Seq(1..MaxPings) /\ Len(Tail(pongs)) = Len(pongs) - 1
    BY <1>t DEF Types, TypeOK
  <2>2. Cardinality(flight') = 1
    BY FS_Singleton
  <2>3. Types'
    <3>1. flight' = {Pong(Head(pongs))} /\ Pong(Head(pongs)) \in Frame
      BY <2>1 DEF Frame
    <3>2. TypeOK'
      BY <1>t, <2>1, <2>2 DEF TypeOK
    <3>3. QED
      BY <1>t, <3>1, <3>2 DEF Types
  <2>4. Numbered'
    <3>1. /\ Taken("pong")' = Taken("pong") + 1
          /\ Taken("data")' = Taken("data")
          /\ Taken("pong") = Count("pong", Len(wire))
      BY <1>c, <1>f DEF Taken, Flying
    <3>2. Taken("pong") + 1 = Head(pongs)
      <4>1. 1 \in DOMAIN pongs /\ Head(pongs) = pongs[1]
        BY <1>t DEF TypeOK
      <4>2. QED
        BY <1>t, <4>1 DEF Numbered
    <3>3. \A i \in DOMAIN Tail(pongs) : Tail(pongs)[i] = pongs[i + 1] /\ i + 1 \in DOMAIN pongs /\ i \in Nat
      BY <1>t DEF Types, TypeOK
    <3>4. \A i \in DOMAIN pongs' : pongs'[i] = Taken("pong")' + i
      BY <1>t, <1>c, <3>1, <3>3 DEF Numbered
    <3>5. QED
      <4>1. \A f \in flight' : f.kind = "pong" /\ f.n = Head(pongs)
        OBVIOUS
      <4>2. \A f \in flight' : f.n = Count(f.kind, Len(wire))' + 1
        BY <1>c, <3>1, <3>2, <4>1
      <4>3. Len(pongs') = Len(pongs) - 1 /\ Len(pongs) \in Nat /\ Taken("pong") \in Nat
        BY <1>t, <1>c, <2>1, <3>1 DEF TypeOK
      <4>4. QED
        BY <1>t, <3>1, <3>4, <4>2, <4>3 DEF Numbered
  <2>5. Kept'
    BY <1>t, <1>f, <2>1, <2>2 DEF Kept, SendersDropped, Types, TypeOK
  <2>6. QED
    BY <1>o, <2>3, <2>4, <2>5 DEF IInv
<1>2. CASE PickData
  <2> USE <1>2 DEF PickData, Data, clientVars
  <2>1. /\ Head(data) \in 1..(MaxFrames + 1) /\ Tail(data) \in Seq(1..(MaxFrames + 1))
        /\ Len(Tail(data)) = Len(data) - 1
    BY <1>t DEF Types, TypeOK
  <2>2. Cardinality(flight') = 1
    BY FS_Singleton
  <2>3. Types'
    <3>1. flight' = {Data(Head(data))} /\ Data(Head(data)) \in Frame
      BY <2>1 DEF Frame
    <3>2. TypeOK'
      BY <1>t, <2>1, <2>2 DEF TypeOK
    <3>3. QED
      BY <1>t, <3>1, <3>2 DEF Types
  <2>4. Numbered'
    <3>1. /\ Taken("data")' = Taken("data") + 1
          /\ Taken("pong")' = Taken("pong")
          /\ Taken("data") = Count("data", Len(wire))
      BY <1>c, <1>f DEF Taken, Flying
    <3>2. Taken("data") + 1 = Head(data)
      <4>1. 1 \in DOMAIN data /\ Head(data) = data[1]
        BY <1>t DEF TypeOK
      <4>2. QED
        BY <1>t, <4>1 DEF Numbered
    <3>3. \A i \in DOMAIN Tail(data) : Tail(data)[i] = data[i + 1] /\ i + 1 \in DOMAIN data /\ i \in Nat
      BY <1>t DEF Types, TypeOK
    <3>4. \A i \in DOMAIN data' : data'[i] = Taken("data")' + i
      BY <1>t, <1>c, <3>1, <3>3 DEF Numbered
    <3>5. QED
      <4>1. \A f \in flight' : f.kind = "data" /\ f.n = Head(data)
        OBVIOUS
      <4>2. \A f \in flight' : f.n = Count(f.kind, Len(wire))' + 1
        BY <1>c, <3>1, <3>2, <4>1
      <4>3. Len(data') = Len(data) - 1 /\ Len(data) \in Nat /\ Taken("data") \in Nat
        BY <1>t, <1>c, <2>1, <3>1 DEF TypeOK
      <4>4. QED
        BY <1>t, <3>1, <3>4, <4>2, <4>3 DEF Numbered
  <2>5. Kept'
    BY <1>t, <1>f, <2>1, <2>2 DEF Kept, SendersDropped, Types, TypeOK
  <2>6. QED
    BY <1>o, <2>3, <2>4, <2>5 DEF IInv
<1>3. QED
  BY <1>1, <1>2

\* A frame that is written is the next of its kind on the wire.
LEMMA WrittenInv == IInv /\ Written => IInv'
<1> SUFFICES ASSUME IInv, Written PROVE IInv'
  OBVIOUS
<1> USE OutboundAssumption
<1>t. Types /\ TypeOK /\ InOrder /\ Numbered /\ Kept
  BY DEF IInv, Types
<1>1. PICK f \in Frame : flight = {f} /\ wire' = Append(wire, f)
  BY <1>t DEF Types, Written
<1>2. wire \in Seq(Frame) /\ wire' \in Seq(Frame) /\ Len(wire') = Len(wire) + 1 /\ Len(wire) \in Nat
  BY <1>t, <1>1 DEF Types
<1>3. \A kind : /\ Count(kind, Len(wire)) \in Nat
                /\ \A n \in 0..Len(wire) : Count(kind, n)' = Count(kind, n)
                /\ Count(kind, Len(wire))'
                     = Count(kind, Len(wire)) + (IF f.kind = kind THEN 1 ELSE 0)
  <2> SUFFICES ASSUME NEW kind
               PROVE  /\ Count(kind, Len(wire)) \in Nat
                      /\ \A n \in 0..Len(wire) : Count(kind, n)' = Count(kind, n)
                      /\ Count(kind, Len(wire))'
                           = Count(kind, Len(wire)) + (IF f.kind = kind THEN 1 ELSE 0)
    OBVIOUS
  <2>1. /\ CountIn(wire, kind, Len(wire)) \in Nat
        /\ \A n \in 0..Len(wire) : CountIn(Append(wire, f), kind, n) = CountIn(wire, kind, n)
        /\ CountIn(Append(wire, f), kind, Len(wire) + 1)
             = CountIn(wire, kind, Len(wire)) + (IF f.kind = kind THEN 1 ELSE 0)
    BY <1>2, CountAppend, Zenon
  <2>2. /\ \A n : Count(kind, n) = CountIn(wire, kind, n) /\ Count(kind, n)' = CountIn(wire', kind, n)
        /\ Count(kind, Len(wire))' = CountIn(wire', kind, Len(wire'))
    BY DEF Count, CountIn
  <2>3. QED
    BY <1>1, <1>2, <2>1, <2>2
<1>4. \A kind \in {"data", "pong"} : Taken(kind)' = Taken(kind) /\ Taken(kind) \in Nat
  BY <1>1, <1>3 DEF Taken, Flying, Written
<1>5. Types'
  BY <1>t, <1>2, FS_EmptySet DEF Types, TypeOK, Written
<1>6. InOrder'
  <2>1. f.n = Count(f.kind, Len(wire)) + 1
    BY <1>t, <1>1 DEF Numbered, Written
  <2>2. wire'[Len(wire')] = f /\ f.n = Count(f.kind, Len(wire))'
    BY <1>1, <1>2, <1>3, <2>1
  <2>3. \A i \in 1..Len(wire) : wire'[i] = wire[i]
    BY <1>1, <1>2
  <2>4. ASSUME NEW i \in DOMAIN wire'
        PROVE  wire'[i].n = Count(wire[i].kind, i)'
    <3>1. CASE i \in 1..Len(wire)
      <4>1. wire[i].n = Count(wire[i].kind, i) /\ i \in 0..Len(wire)
        BY <1>t, <1>2, <3>1 DEF InOrder
      <4>2. \A kind : Count(kind, i)' = Count(kind, i)
        BY <1>3, <4>1
      <4>3. Count(wire[i].kind, i)' = CountIn(wire', wire'[i].kind, i)
        BY DEF Count, CountIn
      <4>4. Count(wire[i].kind, i)' = Count(wire[i].kind, i)
        BY <2>3, <3>1, <4>2, <4>3 DEF Count, CountIn
      <4>5. QED
        BY <2>3, <3>1, <4>1, <4>4
    <3>2. CASE i = Len(wire')
      <4>1. Count(wire[i].kind, i)' = Cardinality({j \in 1..Len(wire') : wire'[j].kind = f.kind})
        BY <2>2, <3>2 DEF Count
      <4>2. QED
        BY <2>2, <3>2, <4>1 DEF Count
    <3>3. QED
      BY <1>2, <3>1, <3>2
  <2>5. QED
    BY <2>4 DEF InOrder
<1>7. Numbered'
  BY <1>t, <1>4 DEF Numbered, Written
<1>8. Kept'
  BY <1>t, <1>1, <1>2, FS_Singleton, FS_EmptySet DEF Kept, SendersDropped, Written, Types, TypeOK
<1>9. QED
  BY <1>5, <1>6, <1>7, <1>8 DEF IInv

\* The other steps of the writer, and those of the client, keep the invariant.
LEMMA EndInv == IInv /\ (Drained \/ WriteFails \/ Close \/ Stall \/ SendPing) => IInv'
<1> SUFFICES ASSUME IInv, Drained \/ WriteFails \/ Close \/ Stall \/ SendPing PROVE IInv'
  OBVIOUS
<1> USE OutboundAssumption DEF Drained, BothClosed, WriteFails, WriteGivesUp, Close, Stall, SendPing,
      writerVars, clientVars
<1>t. Types /\ TypeOK /\ InOrder /\ Numbered /\ Kept
  BY DEF IInv, Types
<1>o. InOrder'
  BY <1>t, SameWire
<1>1. Types'
  <2>1. CASE Drained \/ WriteFails \/ Close
    BY <1>t, <2>1, FS_EmptySet DEF Types, TypeOK
  <2>2. CASE Stall
    <3>1. reading' \in BOOLEAN
      BY <2>2
    <3>2. QED
      BY <1>t, <2>2, <3>1, Zenon DEF Types, TypeOK
  <2>3. CASE SendPing
    BY <1>t, <2>3 DEF Types, TypeOK
  <2>4. QED
    BY <2>1, <2>2, <2>3
<1>2. Numbered'
  <2>1. CASE Drained \/ WriteFails \/ Close
    BY <2>1 DEF Numbered
  <2>2. CASE Stall \/ SendPing
    BY <1>t, <2>2, SameCounts DEF Numbered
  <2>3. QED
    BY <2>1, <2>2
<1>3. Kept'
  BY <1>t, FS_EmptySet DEF Kept, SendersDropped
<1>4. QED
  BY <1>o, <1>1, <1>2, <1>3 DEF IInv

\* The queues and the wire agree, always.
THEOREM Invariance == Spec => []IInv
<1>1. Init => IInv
  BY InitInv
<1>2. IInv /\ [Next]_vars => IInv'
  <2> SUFFICES ASSUME IInv, [Next]_vars PROVE IInv'
    OBVIOUS
  <2>1. CASE Next
    BY <2>1, SessionInv, PickInv, WrittenInv, EndInv DEF Next, WriterStep
  <2>2. CASE UNCHANGED vars
    <3>1. Types' /\ Kept'
      BY <2>2 DEF vars, IInv, Types, TypeOK, Kept, SendersDropped
    <3>2. InOrder'
      BY <2>2, SameWire DEF vars, IInv
    <3>3. Numbered'
      BY <2>2, SameCounts DEF vars, IInv, Numbered
    <3>4. QED
      BY <3>1, <3>2, <3>3 DEF IInv
  <2>3. QED
    BY <2>1, <2>2
<1>3. QED
  BY <1>1, <1>2, PTL DEF Spec

\* The queues stay within their depths, and the pings that are answered within
\* those that were asked (OUTBOUND_QUEUE_DEPTH, PONG_QUEUE_DEPTH).
THEOREM TypesThm == Spec => []TypeOK
<1>1. IInv => TypeOK
  BY DEF IInv, Types
<1>2. QED
  BY <1>1, Invariance, PTL

\* What the client gets is what the session sent, in order and without a hole, on
\* both lanes, for queues of any depth (Outbound, write_task).
THEOREM InOrderThm == Spec => []InOrder
<1>1. IInv => InOrder
  BY DEF IInv
<1>2. QED
  BY <1>1, Invariance, PTL

\* A writer that drained its queues has delivered every frame that was accepted
\* (write_task, run_session's last wait).
THEOREM DrainedIsDeliveredThm == Spec => []DrainedIsDelivered
<1>1. IInv => DrainedIsDelivered
  <2> SUFFICES ASSUME IInv, outcome = "drained" PROVE Len(wire) = accepted
    BY DEF DrainedIsDelivered
  <2>1. Cardinality(flight) = 0
    BY FlightSize DEF IInv, Kept
  <2>2. QED
    BY <2>1 DEF IInv, Kept, Types
<1>2. QED
  BY <1>1, Invariance, PTL
=============================================================================
