--------------------------- MODULE EventFeedProofs ---------------------------
(***************************************************************************)
(* The l4Book, trades and bbo channels, for any connections, scenarios,    *)
(* batches and fills and any depth of the broadcast channel: the counts of *)
(* the guards are exact, a dump and its stream leave no gap, a trade is    *)
(* printed once if both its legs were read, and a client that is not       *)
(* behind shows the top of the book.                                       *)
(***************************************************************************)
EXTENDS EventFeed, TLAPS, FiniteSetTheorems

-----------------------------------------------------------------------------
(* The inductive invariants.                                               *)

Building == {"wait", "clone", "insert"}

Control ==
  /\ phase \in [Builders -> {"off", "open"} \cup Building]
  /\ subs \in [Session -> SUBSET Channel]
  /\ sub_guards = subs
  /\ active_subs \in [Family -> Nat]

\* A session that builds a dump is subscribed to l4Book, one that is gone to nothing.
Guarded ==
  \A c \in Session :
    /\ phase[c] \in Building => "l4Book" \in subs[c]
    /\ phase[c] = "off" => subs[c] = {}

Gates == Control /\ Guarded /\ GatesExact

\* A function whose domain is an initial segment.
IsSeq(q) == \E M : q \in Seq(M)

Queues ==
  /\ DOMAIN inbox = Session /\ \A c \in Session : IsSeq(inbox[c])
  /\ DOMAIN missed = Session
  /\ \A c \in Session : phase[c] = "off" => inbox[c] = <<>>

\* What waits in the pairer is the last leg it took, unless the other leg of that
\* trade was taken too.
Waiting ==
  /\ fills \in Nat
  /\ grouped \subseteq 1..fills
  /\ prev = {p \in grouped : \A g \in grouped : g <= p /\ (tid(g) = tid(p) => g = p)}

\* The trades broadcast are those with both legs taken.
Pairing ==
  /\ Waiting
  /\ traded = {t \in 1..MaxFills : {2 * t - 1, 2 * t} \subseteq grouped}

\* The trades of a queue of broadcasts are among S, and rise.
TradesAmong(q, S) == \A i \in DOMAIN q : q[i].kind = "Trades" => q[i].n \in S
TradesRise(q) ==
  \A i, j \in DOMAIN q : i < j /\ q[i].kind = "Trades" /\ q[j].kind = "Trades" => q[i].n < q[j].n

\* They come after the trades printed.
TradesAfter(trades, q) ==
  \A i \in DOMAIN trades, j \in DOMAIN q : q[j].kind = "Trades" => trades[i] < q[j].n

\* What a client has been printed and what is on its way to it rises.
Prints(c) ==
  /\ \A i \in DOMAIN printed[c] : printed[c][i] \in traded
  /\ \A i, j \in DOMAIN printed[c] : i < j => printed[c][i] < printed[c][j]
  /\ TradesAmong(inbox[c], traded)
  /\ TradesRise(inbox[c])
  /\ TradesAfter(printed[c], inbox[c])

Printing ==
  /\ DOMAIN printed = Session /\ \A c \in Session : IsSeq(printed[c])
  /\ \A c \in Session : Prints(c)

Event == {"L4Statuses", "L4Diffs"}

\* Batch n is on its way to c, or the channel has dropped it.
Sent(c, n) ==
  \/ \E i \in DOMAIN inbox[c] : inbox[c][i].n = n /\ inbox[c][i].kind \in Event
  \/ \E x \in missed[c] : x.n = n /\ x.kind \in Event

\* An l4Book subscriber is sent every batch applied since it asked.
Streamed ==
  /\ applied \in Nat /\ since \in [Session -> Nat] /\ DOMAIN got = Session
  /\ \A c \in Session : "l4Book" \in subs[c] =>
       \A n \in (since[c] + 1)..applied : n \in got[c] \/ Sent(c, n)

\* A dump that was made for its subscriber is not older than its request.
Dump(c) ==
  /\ since[c] <= applied
  /\ dump[c] # {} => phase[c] = "open" /\ "l4Book" \in subs[c]
  /\ ~cached[c] => \A d \in dump[c] : since[c] <= d
  /\ phase[c] = "insert" => \A d \in body[c] : since[c] <= d

Dumped ==
  /\ cache \subseteq Nat /\ body \in [Builders -> SUBSET Nat]
  /\ dump \in [Session -> SUBSET Nat] /\ cached \in [Session -> BOOLEAN]
  /\ \A c \in Session : Dump(c)

\* The quotes a session remembers are those its client shows.
Remembered ==
  /\ last_bbo = shows /\ shows = [e \in Session |-> shows[e]]
  /\ heard \in [Session -> BOOLEAN] /\ untold \in BOOLEAN
  /\ \A c \in Session : heard[c] => "bbo" \in subs[c]

\* Message i of q is its last quote.
LastQuote(q, i) == q[i].kind = "Bbo" /\ \A j \in DOMAIN q : j > i => q[j].kind # "Bbo"

\* A session that has heard a quote and has none before it, lost or on its way.
CaughtUp(c) ==
  /\ "bbo" \in subs[c] /\ heard[c]
  /\ \A i \in DOMAIN inbox[c] : inbox[c][i].kind # "Bbo"
  /\ \A x \in missed[c] : x.kind # "Bbo"

\* The last quote on its way is the top of the book; if none is, the client shows it.
Quotes(c) ==
  /\ \A i \in DOMAIN inbox[c] : LastQuote(inbox[c], i) => inbox[c][i].top = top
  /\ CaughtUp(c) => shows[c] = {Quoted(top)}

Quoting == Remembered /\ (~untold => \A c \in Session : Quotes(c))

-----------------------------------------------------------------------------
(* The counts of the guards.                                               *)

LEMMA FamiliesOf ==
  ASSUME NEW ch \in Channel
  PROVE  acquire_for(ch) \subseteq Family
BY DEF Channel, Family, acquire_for

LEMMA ChannelFinite == IsFiniteSet(Channel)
<1>1. Channel = {"l4Book"} \cup ({"bookDiffs"} \cup ({"orderUpdates"} \cup ({"trades"} \cup {"bbo"})))
  BY DEF Channel
<1> QED BY <1>1, FS_Singleton, FS_Union

LEMMA WantingFinite ==
  ASSUME NEW f
  PROVE  IsFiniteSet(Wanting(f)) /\ Cardinality(Wanting(f)) \in Nat
<1>1. IsFiniteSet(Session \X Channel)
  BY EventFeedAssumption, ChannelFinite, FS_Product
<1>2. Wanting(f) \in SUBSET (Session \X Channel)
  BY DEF Wanting
<1>3. IsFiniteSet(Wanting(f))
  BY <1>1, <1>2, FS_Subset
<1> QED BY <1>3, FS_CardinalityType

\* The subscriptions of c in S that need f.
Among(S, c, f) == {p \in {c} \X S : f \in acquire_for(p[2])}

\* There are as many as channels in S that need f.
LEMMA AmongCount ==
  ASSUME NEW c \in Session, NEW S \in SUBSET Channel, NEW f
  PROVE  Cardinality(Among(S, c, f)) = Cardinality({ch \in S : f \in acquire_for(ch)})
<1> DEFINE T == {ch \in S : f \in acquire_for(ch)}
<1>1. T \in SUBSET Channel
  OBVIOUS
<1>2. IsFiniteSet(T)
  BY <1>1, ChannelFinite, FS_Subset
<1>3. Among(S, c, f) = {c} \X T
  BY DEF Among
<1>4. Cardinality({c} \X T) = Cardinality({c}) * Cardinality(T)
  BY <1>2, FS_Singleton, FS_Product
<1>5. Cardinality({c}) = 1 /\ Cardinality(T) \in Nat
  BY <1>2, FS_Singleton, FS_CardinalityType
<1>6. 1 * Cardinality(T) = Cardinality(T)
  BY <1>5
<1> QED BY <1>3, <1>4, <1>5, <1>6

\* What is counted is what is dropped.
LEMMA DropCount ==
  ASSUME Control, NEW c \in Session, NEW S \in SUBSET subs[c], NEW f \in Family
  PROVE  /\ Among(S, c, f) \subseteq Wanting(f)
         /\ Cardinality(Wanting(f) \ Among(S, c, f))
              = Cardinality(Wanting(f)) - Cardinality({ch \in S : f \in acquire_for(ch)})
         /\ Cardinality(Wanting(f) \ Among(S, c, f)) \in Nat
<1>1. subs[c] \subseteq Channel
  BY DEF Control
<1>2. Among(S, c, f) \subseteq Wanting(f)
  BY <1>1 DEF Among, Wanting
<1>3. Wanting(f) \cap Among(S, c, f) = Among(S, c, f)
  BY <1>2
<1>4. /\ IsFiniteSet(Wanting(f) \ Among(S, c, f))
      /\ Cardinality(Wanting(f) \ Among(S, c, f)) = Cardinality(Wanting(f)) - Cardinality(Among(S, c, f))
  BY <1>3, WantingFinite, FS_Difference
<1>5. Cardinality(Wanting(f) \ Among(S, c, f)) \in Nat
  BY <1>4, FS_CardinalityType
<1> QED BY <1>1, <1>2, <1>4, <1>5, AmongCount

\* Subscriptions dropped with their guards leave the counts exact.
LEMMA DropKeepsCounts ==
  ASSUME Control, GatesExact, NEW c \in Session, NEW S \in SUBSET subs[c], Release(S),
         subs' = [subs EXCEPT ![c] = @ \ S]
  PROVE  GatesExact' /\ active_subs' \in [Family -> Nat]
<1>t. subs \in [Session -> SUBSET Channel] /\ active_subs \in [Family -> Nat]
  BY DEF Control
<1>1. ASSUME NEW f \in Family
      PROVE  active_subs'[f] = Cardinality(Wanting(f)') /\ active_subs'[f] \in Nat
  <2>1. Wanting(f)' = Wanting(f) \ Among(S, c, f)
    BY <1>t DEF Wanting, Among
  <2>2. active_subs'[f] = active_subs[f] - Cardinality({ch \in S : f \in acquire_for(ch)})
    BY DEF Release
  <2>3. active_subs[f] = Cardinality(Wanting(f))
    BY DEF GatesExact
  <2> QED BY <2>1, <2>2, <2>3, DropCount
<1>2. active_subs' \in [Family -> Nat]
  BY <1>1 DEF Release
<1> QED BY <1>1, <1>2 DEF GatesExact

\* A subscription made with its guards does too.
LEMMA AddKeepsCounts ==
  ASSUME Control, GatesExact, NEW c \in Session, NEW ch \in Channel, ch \notin subs[c], Acquire(ch),
         subs' = [subs EXCEPT ![c] = @ \cup {ch}]
  PROVE  GatesExact' /\ active_subs' \in [Family -> Nat]
<1>t. subs \in [Session -> SUBSET Channel] /\ active_subs \in [Family -> Nat]
  BY DEF Control
<1>1. ASSUME NEW f \in Family
      PROVE  active_subs'[f] = Cardinality(Wanting(f)') /\ active_subs'[f] \in Nat
  <2>1. active_subs[f] = Cardinality(Wanting(f)) /\ IsFiniteSet(Wanting(f)) /\ active_subs[f] \in Nat
    BY <1>t, WantingFinite DEF GatesExact
  <2>2. CASE f \in acquire_for(ch)
    <3>1. Wanting(f)' = Wanting(f) \cup {<<c, ch>>} /\ <<c, ch>> \notin Wanting(f)
      BY <2>2, <1>t DEF Wanting
    <3>2. Cardinality(Wanting(f)') = Cardinality(Wanting(f)) + 1
      BY <3>1, <2>1, FS_AddElement
    <3>3. active_subs'[f] = active_subs[f] + 1
      BY <2>2 DEF Acquire
    <3> QED BY <3>2, <3>3, <2>1
  <2>3. CASE f \notin acquire_for(ch)
    <3>1. Wanting(f)' = Wanting(f)
      BY <2>3, <1>t DEF Wanting
    <3>2. active_subs'[f] = active_subs[f]
      BY <2>1, <2>3 DEF Acquire
    <3> QED BY <3>1, <3>2, <2>1
  <2> QED BY <2>2, <2>3
<1>2. active_subs' \in [Family -> Nat]
  BY <1>1 DEF Acquire
<1> QED BY <1>1, <1>2 DEF GatesExact

LEMMA GatesInit == Init => Gates
<1> SUFFICES ASSUME Init PROVE Gates
  OBVIOUS
<1>1. Control /\ Guarded
  BY DEF Init, Control, Guarded, Builders, Building
<1>2. \A f \in Family : Wanting(f) = {}
  BY DEF Init, Wanting
<1>3. GatesExact
  BY <1>2, FS_EmptySet DEF Init, GatesExact
<1> QED BY <1>1, <1>3 DEF Gates

\* A step that leaves subscriptions and guards alone.
LEMMA GatesUntouched ==
  ASSUME Gates, UNCHANGED <<subs, sub_guards, active_subs>>,
         phase' \in [Builders -> {"off", "open"} \cup Building],
         \A c \in Session : /\ phase'[c] \in Building => phase[c] \in Building
                            /\ phase'[c] = "off" => phase[c] = "off"
  PROVE  Gates'
<1>1. Control'
  BY DEF Gates, Control
<1>2. Guarded'
  BY DEF Gates, Guarded
<1>3. \A f \in Family : Wanting(f)' = Wanting(f)
  BY DEF Wanting
<1> QED BY <1>1, <1>2, <1>3 DEF Gates, GatesExact

\* The phase a builder is in once it has its dump.
LEMMA ServePhase ==
  ASSUME Control, NEW b \in Builders, NEW d, NEW hit, Serve(b, d, hit)
  PROVE  /\ phase' \in [Builders -> {"off", "open"} \cup Building]
         /\ \A c \in Session : c = b => phase'[c] = "open"
         /\ \A c \in Session : c # b => phase'[c] = phase[c]
BY EventFeedAssumption DEF Serve, Control, Builders

LEMMA BuildKeepsGates ==
  ASSUME Gates, NEW b \in Builders, Build(b)
  PROVE  Gates'
<1>t. /\ phase \in [Builders -> {"off", "open"} \cup Building] /\ Control
      /\ subs \in [Session -> SUBSET Channel] /\ sub_guards = subs
  BY DEF Gates, Control
<1>b. Session \subseteq Builders /\ Http \notin Session
  BY EventFeedAssumption DEF Builders
<1>1. CASE TakePermit(b) \/ InsertBody(b)
  <2>1. UNCHANGED <<subs, sub_guards, active_subs>> /\ phase[b] \in Building
    BY <1>1 DEF TakePermit, InsertBody, sessionVars, Building
  <2>2. (\E d, hit : Serve(b, d, hit)) \/ phase' = [phase EXCEPT ![b] = "clone"]
    BY <1>1 DEF TakePermit, InsertBody
  <2>3. CASE \E d, hit : Serve(b, d, hit)
    <3>1. /\ phase' \in [Builders -> {"off", "open"} \cup Building]
          /\ \A c \in Session : c = b => phase'[c] = "open"
          /\ \A c \in Session : c # b => phase'[c] = phase[c]
      BY <2>3, <1>t, ServePhase
    <3>2. \A c \in Session : /\ phase'[c] \in Building => phase[c] \in Building
                             /\ phase'[c] = "off" => phase[c] = "off"
      BY <3>1, <2>1
    <3> QED BY <3>1, <3>2, <2>1, GatesUntouched
  <2>4. CASE phase' = [phase EXCEPT ![b] = "clone"]
    <3>1. /\ phase' \in [Builders -> {"off", "open"} \cup Building]
          /\ \A c \in Session : /\ phase'[c] \in Building => phase[c] \in Building
                                /\ phase'[c] = "off" => phase[c] = "off"
      BY <2>4, <2>1, <1>t, <1>b DEF Building
    <3> QED BY <3>1, <2>1, GatesUntouched
  <2> QED BY <2>2, <2>3, <2>4
<1>2. CASE CloneBook(b)
  <2>1. /\ UNCHANGED <<subs, sub_guards, active_subs>> /\ phase[b] = "clone"
        /\ phase' = [phase EXCEPT ![b] = "insert"]
    BY <1>2 DEF CloneBook, sessionVars
  <2>2. /\ phase' \in [Builders -> {"off", "open"} \cup Building]
        /\ \A c \in Session : /\ phase'[c] \in Building => phase[c] \in Building
                              /\ phase'[c] = "off" => phase[c] = "off"
    BY <2>1, <1>t, <1>b DEF Building
  <2> QED BY <2>1, <2>2, GatesUntouched
<1>3. CASE CloneFails(b)
  <2>0. /\ phase[b] = "clone"
        /\ phase' = [phase EXCEPT ![b] = IF b = Http THEN "off" ELSE "open"]
        /\ subs' = [c \in Session |-> IF c = b THEN subs[c] \ {"l4Book"} ELSE subs[c]]
        /\ sub_guards' = [c \in Session |-> IF c = b THEN sub_guards[c] \ {"l4Book"} ELSE sub_guards[c]]
        /\ IF b = Http THEN active_subs' = active_subs ELSE Release({"l4Book"})
    BY <1>3 DEF CloneFails, Refused
  <2>1. CASE b = Http
    <3>1. /\ UNCHANGED <<subs, sub_guards, active_subs>>
          /\ phase' \in [Builders -> {"off", "open"} \cup Building]
          /\ \A c \in Session : phase'[c] = phase[c]
      BY <2>0, <2>1, <1>t, <1>b
    <3> QED BY <3>1, GatesUntouched
  <2>2. CASE b # Http
    <3>1. b \in Session /\ {"l4Book"} \in SUBSET subs[b]
      BY <2>0, <2>2 DEF Gates, Guarded, Building, Builders
    <3>2. /\ subs' = [subs EXCEPT ![b] = @ \ {"l4Book"}] /\ sub_guards' = subs'
          /\ Release({"l4Book"})
          /\ phase' = [phase EXCEPT ![b] = "open"]
      BY <2>0, <2>2, <1>t
    <3>3. GatesExact' /\ active_subs' \in [Family -> Nat]
      BY <3>1, <3>2, DropKeepsCounts DEF Gates
    <3>4. Control'
      BY <3>1, <3>2, <3>3, <1>t DEF Control
    <3>5. Guarded'
      BY <3>1, <3>2, <1>t, <1>b DEF Gates, Guarded, Building
    <3> QED BY <3>3, <3>4, <3>5 DEF Gates
  <2> QED BY <2>1, <2>2
<1> QED BY <1>1, <1>2, <1>3 DEF Build

LEMMA SubscribeKeepsGates ==
  ASSUME Gates, NEW c \in Session, NEW ch \in Channel, Subscribe(c, ch)
  PROVE  Gates'
<1>t. /\ phase \in [Builders -> {"off", "open"} \cup Building] /\ Control
      /\ subs \in [Session -> SUBSET Channel] /\ sub_guards = subs
  BY DEF Gates, Control
<1>b. Session \subseteq Builders
  BY DEF Builders
<1>0. /\ phase[c] = "open" /\ ch \notin subs[c]
      /\ subs' = [subs EXCEPT ![c] = @ \cup {ch}]
      /\ sub_guards' = [sub_guards EXCEPT ![c] = @ \cup {ch}]
      /\ Acquire(ch)
      /\ \/ phase' = phase
         \/ \E d : Serve(c, d, TRUE)
         \/ ch = "l4Book" /\ phase' = [phase EXCEPT ![c] = "wait"]
  BY DEF Subscribe
<1>1. GatesExact' /\ active_subs' \in [Family -> Nat]
  BY <1>0, AddKeepsCounts DEF Gates
<1>2. /\ phase' \in [Builders -> {"off", "open"} \cup Building]
      /\ phase'[c] = "open" \/ (ch = "l4Book" /\ phase'[c] = "wait")
      /\ \A e \in Session : e # c => phase'[e] = phase[e]
  BY <1>0, <1>t, <1>b, ServePhase DEF Building
<1>3. Control'
  BY <1>0, <1>1, <1>2, <1>t DEF Control
<1>4. Guarded'
  BY <1>0, <1>2, <1>t DEF Gates, Guarded, Building
<1> QED BY <1>1, <1>3, <1>4 DEF Gates

LEMMA LeavingKeepsGates ==
  ASSUME Gates, NEW c \in Session, Disconnect(c) \/ \E ch \in Channel : Unsubscribe(c, ch)
  PROVE  Gates'
<1>t. /\ phase \in [Builders -> {"off", "open"} \cup Building] /\ Control
      /\ subs \in [Session -> SUBSET Channel] /\ sub_guards = subs
  BY DEF Gates, Control
<1>b. Session \subseteq Builders
  BY DEF Builders
<1>1. CASE Disconnect(c)
  <2>0. /\ phase[c] = "open" /\ phase' = [phase EXCEPT ![c] = "off"]
        /\ Release(sub_guards[c])
        /\ subs' = [subs EXCEPT ![c] = {}] /\ sub_guards' = [sub_guards EXCEPT ![c] = {}]
    BY <1>1 DEF Disconnect
  <2>1. subs' = [subs EXCEPT ![c] = @ \ subs[c]] /\ Release(subs[c])
    BY <2>0, <1>t
  <2>2. GatesExact' /\ active_subs' \in [Family -> Nat]
    BY <2>1, DropKeepsCounts DEF Gates
  <2>3. Control'
    BY <2>0, <2>2, <1>t DEF Control
  <2>4. Guarded'
    BY <2>0, <1>t, <1>b DEF Gates, Guarded, Building
  <2> QED BY <2>2, <2>3, <2>4 DEF Gates
<1>2. ASSUME NEW ch \in Channel, Unsubscribe(c, ch)
      PROVE  Gates'
  <2>0. /\ phase[c] = "open" /\ ch \in subs[c] /\ phase' = phase
        /\ Release({ch} \cap sub_guards[c])
        /\ subs' = [subs EXCEPT ![c] = @ \ {ch}] /\ sub_guards' = [sub_guards EXCEPT ![c] = @ \ {ch}]
    BY <1>2 DEF Unsubscribe, buildVars
  <2>1. {ch} \cap sub_guards[c] = {ch} /\ {ch} \in SUBSET subs[c]
    BY <2>0, <1>t
  <2>2. GatesExact' /\ active_subs' \in [Family -> Nat]
    BY <2>0, <2>1, DropKeepsCounts DEF Gates
  <2>3. Control'
    BY <2>0, <2>2, <1>t DEF Control
  <2>4. Guarded'
    BY <2>0, <1>t, <1>b DEF Gates, Guarded, Building
  <2> QED BY <2>2, <2>3, <2>4 DEF Gates
<1> QED BY <1>1, <1>2

LEMMA GatesNext == Gates /\ [Next]_vars => Gates'
<1> SUFFICES ASSUME Gates, [Next]_vars PROVE Gates'
  OBVIOUS
<1>t. phase \in [Builders -> {"off", "open"} \cup Building]
  BY DEF Gates, Control
<1>b. Session \subseteq Builders /\ Http \in Builders /\ Http \notin Session
  BY EventFeedAssumption DEF Builders
<1>1. ASSUME UNCHANGED <<subs, sub_guards, active_subs, phase>>
      PROVE  Gates'
  BY <1>1, <1>t, GatesUntouched
<1>2. ASSUME NEW f, NEW t, ApplyFails(f, t) \/ (\E changed \in BOOLEAN : ApplyEvent(f, t, changed)) \/ Install(t)
      PROVE  Gates'
  BY <1>1, <1>2 DEF ApplyFails, ApplyEvent, Install, buildVars, sessionVars
<1>3. CASE TakeFill \/ FillLost \/ Expire \/ UNCHANGED vars
  BY <1>1, <1>3 DEF TakeFill, FillLost, Expire, vars, buildVars, sessionVars
<1>4. CASE GetL4Book
  <2>1. /\ phase' = [phase EXCEPT ![Http] = "wait"]
        /\ UNCHANGED <<subs, sub_guards, active_subs>>
    BY <1>4 DEF GetL4Book, sessionVars
  <2>2. /\ phase' \in [Builders -> {"off", "open"} \cup Building]
        /\ \A c \in Session : phase'[c] = phase[c]
    BY <2>1, <1>t, <1>b DEF Building
  <2> QED BY <2>1, <2>2, GatesUntouched
<1>5. ASSUME NEW b \in Builders, Build(b)
      PROVE  Gates'
  BY <1>5, BuildKeepsGates
<1>6. ASSUME NEW c \in Session, Connect(c) \/ Recv(c)
      PROVE  Gates'
  <2>1. /\ UNCHANGED <<subs, sub_guards, active_subs>>
        /\ phase' = phase \/ (phase[c] = "off" /\ phase' = [phase EXCEPT ![c] = "open"])
    BY <1>6 DEF Connect, Recv, sessionVars, buildVars
  <2>2. /\ phase' \in [Builders -> {"off", "open"} \cup Building]
        /\ \A e \in Session : /\ phase'[e] \in Building => phase[e] \in Building
                              /\ phase'[e] = "off" => phase[e] = "off"
    BY <2>1, <1>t, <1>b DEF Building
  <2> QED BY <2>1, <2>2, GatesUntouched
<1>7. ASSUME NEW c \in Session,
             Disconnect(c) \/ \E ch \in Channel : Subscribe(c, ch) \/ Unsubscribe(c, ch)
      PROVE  Gates'
  BY <1>7, SubscribeKeepsGates, LeavingKeepsGates
<1> QED BY <1>2, <1>3, <1>4, <1>5, <1>6, <1>7 DEF Next

THEOREM GatesInvariance == Spec => []Gates
BY GatesInit, GatesNext, PTL DEF Spec

\* The counts by which the listener decides what to broadcast are those of the live
\* subscriptions (ActiveSubs, SubGuard, receive_client_message and its error path).
THEOREM GatesExactThm == Spec => []GatesExact
<1>1. Gates => GatesExact
  BY DEF Gates
<1> QED BY <1>1, GatesInvariance, PTL

-----------------------------------------------------------------------------
(* The broadcast channel.                                                  *)

\* The queue of c is now q without its first k messages.
Passed(c, q, k) ==
  /\ k \in Nat /\ Len(q) \in Nat /\ k <= Len(q)
  /\ DOMAIN q = 1..Len(q)
  /\ IsSeq(inbox'[c]) /\ Len(inbox'[c]) = Len(q) - k /\ DOMAIN inbox'[c] = 1..(Len(q) - k)
  /\ \A j \in 1..(Len(q) - k) : inbox'[c][j] = q[j + k]
  /\ missed'[c] = missed[c] \cup {q[i] : i \in 1..k}
  /\ q # <<>> => k < Len(q)

\* A full channel drops its oldest messages and keeps the newest.
LEMMA RingDrops ==
  ASSUME NEW M, NEW q \in Seq(M)
  PROVE  /\ Ring(q) \in Seq(M)
         /\ Len(q) - Len(Ring(q)) \in Nat
         /\ \A j \in 1..Len(Ring(q)) : Ring(q)[j] = q[j + (Len(q) - Len(Ring(q)))]
         /\ q # <<>> => Len(Ring(q)) > 0
<1>d. ChannelDepth \in Nat /\ ChannelDepth > 0
  BY EventFeedAssumption
<1>1. CASE Len(q) > ChannelDepth
  <2>1. Ring(q) = SubSeq(q, Len(q) - ChannelDepth + 1, Len(q))
    BY <1>1 DEF Ring
  <2>2. Ring(q) \in Seq(M) /\ Len(Ring(q)) = ChannelDepth
    BY <2>1, <1>1, <1>d
  <2>3. \A j \in 1..ChannelDepth : Ring(q)[j] = q[j + (Len(q) - ChannelDepth)]
    BY <2>1, <1>1, <1>d
  <2> QED BY <2>2, <2>3, <1>1, <1>d
<1>2. CASE ~(Len(q) > ChannelDepth)
  <2>1. Ring(q) = q
    BY <1>2 DEF Ring
  <2>2. q # <<>> => Len(q) > 0
    OBVIOUS
  <2> QED BY <2>1, <2>2
<1> QED BY <1>1, <1>2

LEMMA PassedLength ==
  ASSUME NEW c \in Session, NEW q, NEW k, Passed(c, q, k)
  PROVE  \E m \in Nat : /\ m = Len(q) - k /\ DOMAIN inbox'[c] = 1..m /\ k \in Nat
                        /\ \A j \in 1..m : inbox'[c][j] = q[j + k]
<1>1. k \in Nat /\ Len(q) \in Nat /\ k <= Len(q)
  BY DEF Passed
<1>2. Len(q) - k \in Nat
  BY <1>1
<1>3. PICK m : m = Len(q) - k
  OBVIOUS
<1>4. DOMAIN inbox'[c] = 1..(Len(q) - k) /\ \A j \in 1..(Len(q) - k) : inbox'[c][j] = q[j + k]
  BY DEF Passed
<1>5. DOMAIN inbox'[c] = 1..m /\ \A j \in 1..m : inbox'[c][j] = q[j + k]
  BY <1>3, <1>4, Zenon
<1> QED BY <1>1, <1>2, <1>3, <1>5

LEMMA BroadcastPasses ==
  ASSUME Queues, NEW c \in Session, phase[c] # "off", NEW N, NEW msgs \in Seq(N), Broadcast(msgs)
  PROVE  /\ \E k : Passed(c, inbox[c] \o msgs, k)
         /\ Len(inbox[c]) \in Nat /\ DOMAIN inbox[c] = 1..Len(inbox[c])
         /\ Len(inbox[c] \o msgs) = Len(inbox[c]) + Len(msgs)
         /\ \A i \in 1..Len(inbox[c]) : (inbox[c] \o msgs)[i] = inbox[c][i]
         /\ \A i \in 1..Len(msgs) : (inbox[c] \o msgs)[Len(inbox[c]) + i] = msgs[i]
<1>1. PICK M : inbox[c] \in Seq(M)
  BY DEF Queues, IsSeq
<1>2. inbox[c] \in Seq(M \cup N) /\ msgs \in Seq(M \cup N)
  BY <1>1
<1>3. PICK q : q = inbox[c] \o msgs
  OBVIOUS
<1>4. q \in Seq(M \cup N)
  BY <1>2, <1>3
<1>5. inbox'[c] = Ring(q) /\ missed'[c] = missed[c] \cup {q[i] : i \in 1..(Len(q) - Len(Ring(q)))}
  BY <1>3 DEF Broadcast, Online
<1>6. PICK k : k = Len(q) - Len(Ring(q))
  OBVIOUS
<1>7. /\ Ring(q) \in Seq(M \cup N) /\ k \in Nat
      /\ \A j \in 1..Len(Ring(q)) : Ring(q)[j] = q[j + k]
      /\ q # <<>> => Len(Ring(q)) > 0
  BY <1>4, <1>6, RingDrops
<1>8. Len(Ring(q)) = Len(q) - k /\ k <= Len(q) /\ Len(q) \in Nat /\ (q # <<>> => k < Len(q))
  BY <1>4, <1>6, <1>7
<1>9. Passed(c, q, k)
  BY <1>4, <1>5, <1>6, <1>7, <1>8 DEF Passed, IsSeq
<1> QED BY <1>2, <1>3, <1>9

\* Nothing vanishes: what was on its way or is sent is on its way or was dropped.
LEMMA BroadcastLosesNothing ==
  ASSUME Queues, NEW c \in Session, phase[c] # "off", NEW N, NEW msgs \in Seq(N), Broadcast(msgs)
  PROVE  /\ missed[c] \subseteq missed'[c]
         /\ \A i \in DOMAIN inbox[c] :
              inbox[c][i] \in missed'[c] \/ \E j \in DOMAIN inbox'[c] : inbox'[c][j] = inbox[c][i]
         /\ \A i \in DOMAIN msgs :
              msgs[i] \in missed'[c] \/ \E j \in DOMAIN inbox'[c] : inbox'[c][j] = msgs[i]
<1>1. PICK q : q = inbox[c] \o msgs
  OBVIOUS
<1>2. /\ \E k : Passed(c, q, k)
      /\ Len(inbox[c]) \in Nat /\ DOMAIN inbox[c] = 1..Len(inbox[c])
      /\ Len(q) = Len(inbox[c]) + Len(msgs)
      /\ \A i \in 1..Len(inbox[c]) : q[i] = inbox[c][i]
      /\ \A i \in 1..Len(msgs) : q[Len(inbox[c]) + i] = msgs[i]
  BY <1>1, BroadcastPasses
<1>3. PICK k : Passed(c, q, k)
  BY <1>2
<1>n. k \in Nat /\ Len(q) \in Nat /\ k <= Len(q)
  BY <1>3 DEF Passed
<1>4. ASSUME NEW i \in 1..Len(q)
      PROVE  q[i] \in missed'[c] \/ \E j \in DOMAIN inbox'[c] : inbox'[c][j] = q[i]
  <2>1. CASE i <= k
    <3>1. missed'[c] = missed[c] \cup {q[e] : e \in 1..k}
      BY <1>3 DEF Passed
    <3>2. i \in 1..k
      BY <2>1, <1>n
    <3> QED BY <3>1, <3>2
  <2>2. CASE i > k
    <3>1. i - k \in 1..(Len(q) - k) /\ (i - k) + k = i
      BY <2>2, <1>n
    <3>2. i - k \in DOMAIN inbox'[c] /\ inbox'[c][i - k] = q[i]
      BY <3>1, <1>3 DEF Passed
    <3> QED BY <3>2
  <2> QED BY <2>1, <2>2, <1>n
<1>5. \A i \in DOMAIN inbox[c] : i \in 1..Len(q) /\ q[i] = inbox[c][i]
  BY <1>2
<1>6. \A i \in DOMAIN msgs : Len(inbox[c]) + i \in 1..Len(q) /\ q[Len(inbox[c]) + i] = msgs[i]
  BY <1>2
<1>7. missed[c] \subseteq missed'[c]
  BY <1>3 DEF Passed
<1> QED BY <1>4, <1>5, <1>6, <1>7

LEMMA BroadcastOffline ==
  ASSUME NEW c \in Session, phase[c] = "off", NEW msgs, Broadcast(msgs)
  PROVE  inbox'[c] = inbox[c] /\ missed'[c] = missed[c]
BY DEF Broadcast, Online

LEMMA BroadcastKeepsQueues ==
  ASSUME Queues, NEW N, NEW msgs \in Seq(N), Broadcast(msgs), phase' = phase
  PROVE  Queues'
<1>1. DOMAIN inbox' = Session /\ DOMAIN missed' = Session
  BY DEF Broadcast
<1>2. ASSUME NEW c \in Session
      PROVE  IsSeq(inbox'[c]) /\ (phase'[c] = "off" => inbox'[c] = <<>>)
  <2>1. CASE phase[c] = "off"
    BY <2>1, BroadcastOffline DEF Queues
  <2>2. CASE phase[c] # "off"
    <3>1. PICK q : q = inbox[c] \o msgs
      OBVIOUS
    <3>2. \E k : Passed(c, q, k)
      BY <3>1, <2>2, BroadcastPasses
    <3> QED BY <3>2, <2>2 DEF Passed
  <2> QED BY <2>1, <2>2
<1> QED BY <1>1, <1>2 DEF Queues

LEMMA SeqOfOne ==
  ASSUME NEW S, NEW m \in S
  PROVE  <<m>> \in Seq(S) /\ <<>> \in Seq(S)
OBVIOUS

\* What a batch makes the listener send.
LEMMA EventBatchMsgs ==
  ASSUME NEW f, NEW t, NEW changed
  PROVE  /\ EventMsgs(f) \in Seq({EventMsg(f)})
         /\ EventMsgs(f) \o (IF changed THEN BboMsgs(t) ELSE <<>>) \in Seq({EventMsg(f), BboMsg(t)})
<1>1. EventMsgs(f) \in Seq({EventMsg(f)}) /\ EventMsgs(f) \in Seq({EventMsg(f), BboMsg(t)})
  BY SeqOfOne DEF EventMsgs
<1>2. (IF changed THEN BboMsgs(t) ELSE <<>>) \in Seq({EventMsg(f), BboMsg(t)})
  BY SeqOfOne DEF BboMsgs
<1> QED BY <1>1, <1>2

-----------------------------------------------------------------------------
(* Queues.                                                                 *)

LEMMA QueuesInit == Init => Queues
<1> SUFFICES ASSUME Init PROVE Queues
  OBVIOUS
<1>1. \A c \in Session : inbox[c] = <<>> /\ IsSeq(<<>>)
  <2>1. <<>> \in Seq({})
    OBVIOUS
  <2> QED BY <2>1 DEF Init, IsSeq
<1> QED BY <1>1 DEF Init, Queues

\* What the builders of dumps leave alone.
BuildStep == GetL4Book \/ Expire \/ \E b \in Builders : Build(b)

LEMMA BuildFrame ==
  ASSUME Gates, BuildStep
  PROVE  /\ UNCHANGED <<applied, top, fills, prev, inbox, last_bbo, got, shows, printed,
                        grouped, traded, untold, missed, since, heard>>
         /\ \A c \in Session :
              /\ phase'[c] = "off" => phase[c] = "off"
              /\ subs'[c] \subseteq subs[c]
              /\ \A ch \in subs[c] \ {"l4Book"} : ch \in subs'[c]
<1>t. /\ phase \in [Builders -> {"off", "open"} \cup Building] /\ Control
      /\ subs \in [Session -> SUBSET Channel]
  BY DEF Gates, Control
<1>b. Session \subseteq Builders /\ Http \in Builders /\ Http \notin Session
  BY EventFeedAssumption DEF Builders
<1>1. CASE GetL4Book
  <2>1. /\ phase' = [phase EXCEPT ![Http] = "wait"] /\ subs' = subs
        /\ UNCHANGED <<applied, top, fills, prev, inbox, last_bbo, got, shows, printed,
                       grouped, traded, untold, missed, since, heard>>
    BY <1>1 DEF GetL4Book, bookVars, tradeVars, sessionVars, clientVars, historyVars
  <2> QED BY <2>1, <1>t, <1>b
<1>2. CASE Expire
  BY <1>2 DEF Expire, bookVars, tradeVars, sessionVars, clientVars, historyVars
<1>3. ASSUME NEW b \in Builders, TakePermit(b) \/ InsertBody(b)
      PROVE  /\ UNCHANGED <<applied, top, fills, prev, inbox, last_bbo, got, shows, printed,
                            grouped, traded, untold, missed, since, heard, subs>>
             /\ \A c \in Session : phase'[c] = "off" => phase[c] = "off"
  <2>1. UNCHANGED <<applied, top, fills, prev, inbox, last_bbo, got, shows, printed,
                    grouped, traded, untold, missed, since, heard, subs>>
    BY <1>3 DEF TakePermit, InsertBody, bookVars, tradeVars, sessionVars
  <2>2. (\E d, hit : Serve(b, d, hit)) \/ phase' = [phase EXCEPT ![b] = "clone"]
    BY <1>3 DEF TakePermit, InsertBody
  <2>3. \A c \in Session : phase'[c] = "off" => phase[c] = "off"
    BY <2>2, <1>t, <1>b, ServePhase
  <2> QED BY <2>1, <2>3
<1>4. ASSUME NEW b \in Builders, CloneBook(b)
      PROVE  /\ UNCHANGED <<applied, top, fills, prev, inbox, last_bbo, got, shows, printed,
                            grouped, traded, untold, missed, since, heard, subs>>
             /\ \A c \in Session : phase'[c] = "off" => phase[c] = "off"
  <2>1. /\ phase' = [phase EXCEPT ![b] = "insert"]
        /\ UNCHANGED <<applied, top, fills, prev, inbox, last_bbo, got, shows, printed,
                       grouped, traded, untold, missed, since, heard, subs>>
    BY <1>4 DEF CloneBook, bookVars, tradeVars, sessionVars, clientVars, historyVars
  <2> QED BY <2>1, <1>t, <1>b
<1>5. ASSUME NEW b \in Builders, CloneFails(b)
      PROVE  /\ UNCHANGED <<applied, top, fills, prev, inbox, last_bbo, got, shows, printed,
                            grouped, traded, untold, missed, since, heard>>
             /\ \A c \in Session :
                  /\ phase'[c] = "off" => phase[c] = "off"
                  /\ subs'[c] \subseteq subs[c]
                  /\ \A ch \in subs[c] \ {"l4Book"} : ch \in subs'[c]
  <2>1. /\ phase' = [phase EXCEPT ![b] = IF b = Http THEN "off" ELSE "open"]
        /\ subs' = [c \in Session |-> IF c = b THEN subs[c] \ {"l4Book"} ELSE subs[c]]
        /\ UNCHANGED <<applied, top, fills, prev, inbox, last_bbo, got, shows, printed,
                       grouped, traded, untold, missed, since, heard>>
    BY <1>5 DEF CloneFails, Refused, bookVars, tradeVars, clientVars, historyVars
  <2> QED BY <2>1, <1>t, <1>b
<1> QED BY <1>1, <1>2, <1>3, <1>4, <1>5 DEF BuildStep, Build

\* The steps of a connection that send and receive nothing.
LEMMA ClientFrame ==
  ASSUME Gates, NEW c \in Session, Connect(c) \/ \E ch \in Channel : Subscribe(c, ch) \/ Unsubscribe(c, ch)
  PROVE  /\ UNCHANGED <<applied, top, fills, prev, inbox, printed, grouped, traded, untold, missed>>
         /\ \A e \in Session : phase'[e] = "off" => phase[e] = "off"
         /\ \A e \in Session : e # c => subs'[e] = subs[e]
<1>t. /\ phase \in [Builders -> {"off", "open"} \cup Building] /\ Control
      /\ subs \in [Session -> SUBSET Channel]
  BY DEF Gates, Control
<1>b. Session \subseteq Builders
  BY DEF Builders
<1>1. CASE Connect(c)
  <2>1. /\ phase' = [phase EXCEPT ![c] = "open"] /\ subs' = subs
        /\ UNCHANGED <<applied, top, fills, prev, inbox, printed, grouped, traded, untold, missed>>
    BY <1>1 DEF Connect, bookVars, tradeVars, sessionVars, clientVars, historyVars
  <2> QED BY <2>1, <1>t, <1>b
<1>2. ASSUME NEW ch \in Channel, Subscribe(c, ch)
      PROVE  /\ UNCHANGED <<applied, top, fills, prev, inbox, printed, grouped, traded, untold, missed>>
             /\ \A e \in Session : phase'[e] = "off" => phase[e] = "off"
             /\ \A e \in Session : e # c => subs'[e] = subs[e]
  <2>1. /\ subs' = [subs EXCEPT ![c] = @ \cup {ch}]
        /\ UNCHANGED <<applied, top, fills, prev, inbox, printed, grouped, traded, untold, missed>>
        /\ \/ phase' = phase
           \/ \E d : Serve(c, d, TRUE)
           \/ phase' = [phase EXCEPT ![c] = "wait"]
    BY <1>2 DEF Subscribe, bookVars, tradeVars
  <2>2. \A e \in Session : phase'[e] = "off" => phase[e] = "off"
    BY <2>1, <1>t, <1>b, ServePhase
  <2> QED BY <2>1, <2>2, <1>t
<1>3. ASSUME NEW ch \in Channel, Unsubscribe(c, ch)
      PROVE  /\ UNCHANGED <<applied, top, fills, prev, inbox, printed, grouped, traded, untold, missed, phase>>
             /\ \A e \in Session : e # c => subs'[e] = subs[e]
  <2>1. /\ subs' = [subs EXCEPT ![c] = @ \ {ch}]
        /\ UNCHANGED <<applied, top, fills, prev, inbox, printed, grouped, traded, untold, missed, phase>>
    BY <1>3 DEF Unsubscribe, bookVars, tradeVars, buildVars
  <2> QED BY <2>1, <1>t
<1> QED BY <1>1, <1>2, <1>3

\* A step that touches no queue.
LEMMA QueuesUntouched ==
  ASSUME Queues, UNCHANGED <<inbox, missed>>, \A c \in Session : phase'[c] = "off" => phase[c] = "off"
  PROVE  Queues'
BY DEF Queues

LEMMA RecvKeepsQueues ==
  ASSUME Queues, NEW c \in Session, Recv(c)
  PROVE  Queues'
<1>0. /\ phase[c] = "open" /\ inbox[c] # <<>> /\ phase' = phase
      /\ inbox' = [inbox EXCEPT ![c] = Tail(@)]
      /\ DOMAIN missed' = DOMAIN missed
  BY DEF Recv, buildVars
<1>1. IsSeq(Tail(inbox[c]))
  <2>1. PICK M : inbox[c] \in Seq(M)
    BY DEF Queues, IsSeq
  <2>2. Tail(inbox[c]) \in Seq(M)
    BY <2>1, <1>0
  <2> QED BY <2>2 DEF IsSeq
<1>2. \A e \in Session : inbox'[e] = IF e = c THEN Tail(inbox[c]) ELSE inbox[e]
  BY <1>0 DEF Queues
<1> QED BY <1>0, <1>1, <1>2 DEF Queues

LEMMA DisconnectKeepsQueues ==
  ASSUME Control, Queues, NEW c \in Session, Disconnect(c)
  PROVE  Queues'
<1>0. /\ phase' = [phase EXCEPT ![c] = "off"]
      /\ inbox' = [inbox EXCEPT ![c] = <<>>]
      /\ missed' = [missed EXCEPT ![c] = {}]
  BY DEF Disconnect
<1>1. IsSeq(<<>>)
  <2>1. <<>> \in Seq({})
    OBVIOUS
  <2> QED BY <2>1 DEF IsSeq
<1>2. \A e \in Session : /\ inbox'[e] = IF e = c THEN <<>> ELSE inbox[e]
                         /\ e # c => phase'[e] = phase[e]
  BY <1>0 DEF Queues, Control, Builders
<1> QED BY <1>0, <1>1, <1>2 DEF Queues

\* The two shapes of a batch: a broadcast of some messages, the phases as they were.
LEMMA EventBroadcasts ==
  ASSUME NEW f, NEW t, ApplyFails(f, t) \/ \E changed \in BOOLEAN : ApplyEvent(f, t, changed)
  PROVE  /\ phase' = phase
         /\ \E N : \E msgs \in Seq(N) : Broadcast(msgs)
<1>1. CASE ApplyFails(f, t)
  <2>1. phase' = phase /\ Broadcast(EventMsgs(f))
    BY <1>1 DEF ApplyFails, buildVars
  <2> QED BY <2>1, EventBatchMsgs
<1>2. ASSUME NEW changed \in BOOLEAN, ApplyEvent(f, t, changed)
      PROVE  /\ phase' = phase
             /\ \E N : \E msgs \in Seq(N) : Broadcast(msgs)
  <2>1. phase' = phase /\ Broadcast(EventMsgs(f) \o (IF changed THEN BboMsgs(t) ELSE <<>>))
    BY <1>2 DEF ApplyEvent, buildVars
  <2> QED BY <2>1, EventBatchMsgs
<1> QED BY <1>1, <1>2

\* What a fill makes the listener send.
TradeMsgs(i) == IF Paired(i) THEN <<TradeMsg(tid(i))>> ELSE <<>>

LEMMA FillBroadcasts ==
  ASSUME TakeFill, Wants("Trades")
  PROVE  phase' = phase /\ Broadcast(TradeMsgs(fills + 1))
         /\ TradeMsgs(fills + 1) \in Seq({TradeMsg(tid(fills + 1))})
<1>1. TradeMsgs(fills + 1) \in Seq({TradeMsg(tid(fills + 1))})
  BY SeqOfOne DEF TradeMsgs
<1> QED BY <1>1 DEF TakeFill, TradeMsgs, buildVars

LEMMA QueuesNext == Gates /\ Queues /\ [Next]_vars => Queues'
<1> SUFFICES ASSUME Gates, Queues, [Next]_vars PROVE Queues'
  OBVIOUS
<1>1. ASSUME NEW f, NEW t, ApplyFails(f, t) \/ \E changed \in BOOLEAN : ApplyEvent(f, t, changed)
      PROVE  Queues'
  BY <1>1, EventBroadcasts, BroadcastKeepsQueues
<1>2. CASE TakeFill /\ Wants("Trades")
  BY <1>2, FillBroadcasts, BroadcastKeepsQueues
<1>3. CASE (TakeFill /\ ~Wants("Trades")) \/ FillLost \/ (\E t : Install(t)) \/ UNCHANGED vars
  <2>1. UNCHANGED <<inbox, missed, phase>>
    BY <1>3 DEF TakeFill, FillLost, Install, vars, buildVars, sessionVars, historyVars
  <2> QED BY <2>1, QueuesUntouched
<1>4. CASE BuildStep
  BY <1>4, BuildFrame, QueuesUntouched
<1>5. ASSUME NEW c \in Session, Connect(c) \/ \E ch \in Channel : Subscribe(c, ch) \/ Unsubscribe(c, ch)
      PROVE  Queues'
  BY <1>5, ClientFrame, QueuesUntouched
<1>6. ASSUME NEW c \in Session, Recv(c) \/ Disconnect(c)
      PROVE  Queues'
  BY <1>6, RecvKeepsQueues, DisconnectKeepsQueues DEF Gates
<1> QED BY <1>1, <1>2, <1>3, <1>4, <1>5, <1>6 DEF Next, BuildStep

THEOREM QueuesInvariance == Spec => []Queues
BY QueuesInit, QueuesNext, GatesInvariance, PTL DEF Spec

-----------------------------------------------------------------------------
(* The trades.                                                             *)

\* The legs of trade t are 2t - 1 and 2t, and no others.
LEMMA Legs ==
  ASSUME NEW i \in Nat, i > 0
  PROVE  /\ tid(i) \in Nat /\ tid(i) > 0 /\ tid(i) <= i
         /\ i = 2 * tid(i) - 1 \/ i = 2 * tid(i)
BY DEF tid

LEMMA LegsOf ==
  ASSUME NEW t \in Nat, t > 0
  PROVE  tid(2 * t - 1) = t /\ tid(2 * t) = t
BY DEF tid

\* A fill finds its partner if and only if that is the leg taken just before.
LEMMA PartnerWaits ==
  ASSUME Waiting
  PROVE  /\ Paired(fills + 1) <=> \E g \in grouped : tid(g) = tid(fills + 1)
         /\ Paired(fills + 1) => fills \in grouped /\ fills + 1 = 2 * tid(fills + 1)
<1>t. fills \in Nat /\ grouped \subseteq 1..fills
  BY DEF Waiting
<1>1. ASSUME Paired(fills + 1) PROVE \E g \in grouped : tid(g) = tid(fills + 1)
  BY <1>1 DEF Paired, Waiting
<1>2. ASSUME NEW g \in grouped, tid(g) = tid(fills + 1)
      PROVE  /\ Paired(fills + 1)
             /\ fills \in grouped /\ fills + 1 = 2 * tid(fills + 1)
  <2>1. g \in Nat /\ g > 0 /\ g <= fills /\ fills + 1 \in Nat /\ fills + 1 > 0
    BY <1>t
  <2>2. /\ g = 2 * tid(g) - 1 \/ g = 2 * tid(g)
        /\ fills + 1 = 2 * tid(g) - 1 \/ fills + 1 = 2 * tid(g)
        /\ tid(g) \in Nat
    BY <2>1, <1>2, Legs
  <2>3. g = fills /\ fills + 1 = 2 * tid(g)
    BY <2>1, <2>2, <1>t
  <2>4. ASSUME NEW h \in grouped
        PROVE  h <= g /\ (tid(h) = tid(g) => h = g)
    <3>1. h \in Nat /\ h > 0 /\ h <= fills
      BY <1>t
    <3>2. h = 2 * tid(h) - 1 \/ h = 2 * tid(h)
      BY <3>1, Legs
    <3> QED BY <3>1, <3>2, <2>1, <2>2, <2>3
  <2>5. g \in prev
    BY <2>4 DEF Waiting
  <2> QED BY <2>3, <2>5, <1>2 DEF Paired
<1> QED BY <1>1, <1>2

LEMMA GroupKeepsWaiting ==
  ASSUME Waiting, fills' = fills + 1, grouped' = grouped \cup {fills + 1}, prev' = PrevAfter(fills + 1)
  PROVE  Waiting'
<1>t. fills \in Nat /\ grouped \subseteq 1..fills
  BY DEF Waiting
<1>1. fills' \in Nat /\ grouped' \subseteq 1..fills'
  BY <1>t
<1>2. \A g \in grouped : g \in Nat /\ g < fills + 1
  BY <1>t
<1>3. PICK W : W = {p \in grouped' : \A g \in grouped' : g <= p /\ (tid(g) = tid(p) => g = p)}
  OBVIOUS
<1>4. \A p \in W : p = fills + 1
  <2>1. ASSUME NEW p \in W PROVE p = fills + 1
    <3>1. p \in grouped \/ p = fills + 1
      BY <1>3
    <3>2. fills + 1 <= p
      BY <1>3
    <3>3. p \notin grouped
      <4> SUFFICES ASSUME p \in grouped PROVE FALSE
        OBVIOUS
      <4>1. p \in Nat /\ p < fills + 1 /\ fills \in Nat
        BY <1>2, <1>t
      <4> QED BY <4>1, <3>2
    <3> QED BY <3>1, <3>3
  <2> QED BY <2>1
<1>5. fills + 1 \in W <=> ~ \E g \in grouped : tid(g) = tid(fills + 1)
  <2>1. fills + 1 \in W <=> \A g \in grouped' : g <= fills + 1 /\ (tid(g) = tid(fills + 1) => g = fills + 1)
    BY <1>3
  <2>2. \A g \in grouped' : g <= fills + 1
    BY <1>2, <1>t
  <2> QED BY <2>1, <2>2, <1>2, <1>t
<1>6. PrevAfter(fills + 1) = IF Paired(fills + 1) THEN {} ELSE {fills + 1}
  BY DEF PrevAfter, Paired
<1>7. prev' = W
  <2>1. CASE Paired(fills + 1)
    BY <2>1, <1>4, <1>5, <1>6, PartnerWaits
  <2>2. CASE ~Paired(fills + 1)
    <3>1. fills + 1 \in W
      BY <2>2, <1>5, PartnerWaits
    <3> QED BY <3>1, <2>2, <1>4, <1>6
  <2> QED BY <2>1, <2>2
<1>8. prev' = {p \in grouped' : \A g \in grouped' : g <= p /\ (tid(g) = tid(p) => g = p)}
  BY <1>3, <1>7
<1> QED BY <1>1, <1>8 DEF Waiting, tid

\* The trades with both legs taken.
Complete(S) == {t \in 1..MaxFills : {2 * t - 1, 2 * t} \subseteq S}

LEMMA GroupKeepsTraded ==
  ASSUME Waiting, fills < MaxFills, traded = Complete(grouped)
  PROVE  /\ Paired(fills + 1) => Complete(grouped \cup {fills + 1}) = traded \cup {tid(fills + 1)}
         /\ ~Paired(fills + 1) => Complete(grouped \cup {fills + 1}) = traded
<1>t. fills \in Nat /\ grouped \subseteq 1..fills /\ MaxFills \in Nat
  BY EventFeedAssumption DEF Waiting
<1>n. \A g \in grouped : g \in Nat /\ g > 0 /\ g <= fills
  BY <1>t
<1>l. /\ tid(fills + 1) \in Nat /\ tid(fills + 1) > 0 /\ tid(fills + 1) <= fills + 1
      /\ fills + 1 = 2 * tid(fills + 1) - 1 \/ fills + 1 = 2 * tid(fills + 1)
  BY <1>t, Legs
<1>1. ASSUME NEW t \in 1..MaxFills, {2 * t - 1, 2 * t} \subseteq grouped \cup {fills + 1},
             ~({2 * t - 1, 2 * t} \subseteq grouped)
      PROVE  Paired(fills + 1) /\ t = tid(fills + 1)
  <2>1. t \in Nat /\ t > 0
    OBVIOUS
  <2>2. tid(2 * t) = t /\ tid(2 * t - 1) = t
    BY <2>1, LegsOf
  <2>3. 2 * t \in grouped \cup {fills + 1} /\ 2 * t - 1 \in grouped \cup {fills + 1}
    BY <1>1
  <2>4. 2 * t = fills + 1 \/ 2 * t - 1 = fills + 1
    BY <1>1
  <2>5. 2 * t = fills + 1 /\ 2 * t - 1 \in grouped
    <3>1. CASE 2 * t = fills + 1
      <4>1. 2 * t - 1 # fills + 1
        BY <3>1, <1>t, <2>1
      <4> QED BY <3>1, <4>1, <2>3
    <3>2. CASE 2 * t - 1 = fills + 1
      <4>1. 2 * t # fills + 1 /\ 2 * t > fills
        BY <3>2, <1>t, <2>1
      <4>2. 2 * t \in grouped
        BY <4>1, <2>3
      <4> QED BY <4>1, <4>2, <1>n, <1>t, <2>1
    <3> QED BY <2>4, <3>1, <3>2
  <2>6. tid(2 * t - 1) = tid(fills + 1) /\ t = tid(fills + 1)
    BY <2>2, <2>5
  <2> QED BY <2>5, <2>6, PartnerWaits
<1>2. ASSUME Paired(fills + 1)
      PROVE  tid(fills + 1) \in Complete(grouped \cup {fills + 1})
  <2>1. fills \in grouped /\ fills + 1 = 2 * tid(fills + 1)
    BY <1>2, PartnerWaits
  <2>2. 2 * tid(fills + 1) - 1 = fills /\ tid(fills + 1) \in 1..MaxFills
    BY <2>1, <1>l, <1>t
  <2> QED BY <2>1, <2>2 DEF Complete
<1>3. Complete(grouped) \subseteq Complete(grouped \cup {fills + 1})
  BY DEF Complete
<1>4. \A t \in Complete(grouped \cup {fills + 1}) :
        t \in Complete(grouped) \/ (Paired(fills + 1) /\ t = tid(fills + 1))
  BY <1>1 DEF Complete
<1> QED BY <1>2, <1>3, <1>4

LEMMA PairingInit == Init => Pairing
<1> SUFFICES ASSUME Init PROVE Pairing
  OBVIOUS
<1>1. \A t \in 1..MaxFills : ~({2 * t - 1, 2 * t} \subseteq {})
  OBVIOUS
<1> QED BY <1>1 DEF Init, Pairing, Waiting

LEMMA PairingNext == Pairing /\ [Next]_vars => Pairing'
<1> SUFFICES ASSUME Pairing, [Next]_vars PROVE Pairing'
  OBVIOUS
<1>w. Waiting /\ traded = Complete(grouped) /\ fills \in Nat /\ grouped \subseteq 1..fills
  BY DEF Pairing, Waiting, Complete
<1>1. CASE TakeFill /\ Wants("Trades")
  <2>0. /\ fills < MaxFills
        /\ fills' = fills + 1 /\ prev' = PrevAfter(fills + 1) /\ grouped' = grouped \cup {fills + 1}
        /\ traded' = IF Paired(fills + 1) THEN traded \cup {tid(fills + 1)} ELSE traded
    BY <1>1 DEF TakeFill
  <2>1. Waiting'
    BY <2>0, <1>w, GroupKeepsWaiting
  <2>2. traded' = Complete(grouped')
    BY <2>0, <1>w, GroupKeepsTraded
  <2> QED BY <2>1, <2>2 DEF Pairing, Complete
<1>2. ASSUME fills' = fills + 1, UNCHANGED <<prev, grouped, traded>>
      PROVE  Pairing'
  <2>1. fills' \in Nat /\ grouped' \subseteq 1..fills'
    BY <1>2, <1>w
  <2> QED BY <1>2, <2>1 DEF Pairing, Waiting, tid
<1>3. CASE (TakeFill /\ ~Wants("Trades")) \/ FillLost
  BY <1>2, <1>3 DEF TakeFill, FillLost, historyVars
<1>4. ASSUME UNCHANGED <<fills, prev, grouped, traded>>
      PROVE  Pairing'
  BY <1>4 DEF Pairing, Waiting, tid
<1>5. ASSUME NEW f, NEW t, ApplyFails(f, t) \/ (\E changed \in BOOLEAN : ApplyEvent(f, t, changed)) \/ Install(t)
      PROVE  Pairing'
  BY <1>4, <1>5 DEF ApplyFails, ApplyEvent, Install, tradeVars
<1>6. ASSUME NEW b \in Builders, Build(b)
      PROVE  Pairing'
  BY <1>4, <1>6 DEF Build, TakePermit, CloneBook, CloneFails, InsertBody, tradeVars, historyVars
<1>7. CASE GetL4Book \/ Expire \/ UNCHANGED vars
  BY <1>4, <1>7 DEF GetL4Book, Expire, vars, tradeVars, historyVars
<1>8. ASSUME NEW c \in Session, Connect(c) \/ Disconnect(c) \/ Recv(c)
      PROVE  Pairing'
  BY <1>4, <1>8 DEF Connect, Disconnect, Recv, tradeVars, historyVars
<1>9. ASSUME NEW c \in Session, NEW ch \in Channel, Subscribe(c, ch) \/ Unsubscribe(c, ch)
      PROVE  Pairing'
  BY <1>4, <1>9 DEF Subscribe, Unsubscribe, tradeVars
<1> QED BY <1>1, <1>3, <1>5, <1>6, <1>7, <1>8, <1>9 DEF Next

THEOREM PairingInvariance == Spec => []Pairing
BY PairingInit, PairingNext, PTL DEF Spec

\* A broadcast in which a trade comes alone and is younger than every other.
Youngest(msgs, older) ==
  \A i \in DOMAIN msgs : msgs[i].kind = "Trades" =>
    Len(msgs) = 1 /\ \A t \in older : t < msgs[i].n

LEMMA BroadcastKeepsPrinting ==
  ASSUME Queues, Printing, NEW N, NEW msgs \in Seq(N), Broadcast(msgs),
         printed' = printed, traded \subseteq traded',
         TradesAmong(msgs, traded'), Youngest(msgs, traded)
  PROVE  Printing'
<1> SUFFICES ASSUME NEW c \in Session PROVE Prints(c)'
  BY DEF Printing
<1>p. Prints(c)
  BY DEF Printing
<1>1. CASE phase[c] = "off"
  <2>1. inbox'[c] = inbox[c]
    BY <1>1, BroadcastOffline
  <2> QED BY <2>1, <1>p DEF Prints, TradesAmong, TradesRise, TradesAfter
<1>2. CASE phase[c] # "off"
  <2>1. PICK q : q = inbox[c] \o msgs
    OBVIOUS
  <2>2. PICK L : L = Len(inbox[c])
    OBVIOUS
  <2>3. PICK l : l = Len(msgs)
    OBVIOUS
  <2>4. /\ \E k : Passed(c, q, k)
        /\ L \in Nat /\ DOMAIN inbox[c] = 1..L
        /\ Len(q) = L + l
        /\ \A i \in 1..L : q[i] = inbox[c][i]
        /\ \A i \in 1..l : q[L + i] = msgs[i]
    BY <1>2, <2>1, <2>2, <2>3, BroadcastPasses
  <2>5. PICK k : Passed(c, q, k)
    BY <2>4
  <2>l. l \in Nat /\ DOMAIN msgs = 1..l
    BY <2>3
  <2>6. ASSUME NEW i \in 1..(L + l)
        PROVE  \/ i <= L /\ i \in DOMAIN inbox[c] /\ q[i] = inbox[c][i]
               \/ i > L /\ i - L \in DOMAIN msgs /\ q[i] = msgs[i - L]
    <3>1. CASE i <= L
      BY <3>1, <2>4, <2>l
    <3>2. CASE i > L
      <4>1. i - L \in 1..l /\ L + (i - L) = i
        BY <3>2, <2>4, <2>l
      <4> QED BY <3>2, <4>1, <2>4, <2>l
    <3> QED BY <3>1, <3>2, <2>4, <2>l
  <2>7. ASSUME NEW i \in 1..(L + l), q[i].kind = "Trades"
        PROVE  q[i].n \in traded'
    BY <2>6, <2>7, <1>p DEF Prints, TradesAmong
  <2>8. ASSUME NEW i \in 1..(L + l), NEW j \in 1..(L + l), i < j, q[i].kind = "Trades", q[j].kind = "Trades"
        PROVE  q[i].n < q[j].n
    <3>1. CASE j <= L
      <4>1. i <= L
        BY <3>1, <2>8, <2>4, <2>l
      <4>2. i \in DOMAIN inbox[c] /\ q[i] = inbox[c][i] /\ j \in DOMAIN inbox[c] /\ q[j] = inbox[c][j]
        BY <4>1, <3>1, <2>4, <2>6
      <4> QED BY <4>2, <2>8, <1>p DEF Prints, TradesRise
    <3>2. CASE j > L
      <4>1. j - L \in DOMAIN msgs /\ q[j] = msgs[j - L]
        BY <3>2, <2>6, <2>4, <2>l
      <4>2. l = 1 /\ \A t \in traded : t < q[j].n
        BY <4>1, <2>8, <2>3 DEF Youngest
      <4>3. i <= L
        BY <4>2, <2>8, <2>4
      <4>4. i \in DOMAIN inbox[c] /\ q[i] = inbox[c][i]
        BY <4>3, <2>6, <2>4
      <4>5. q[i].n \in traded
        BY <4>4, <2>8, <1>p DEF Prints, TradesAmong
      <4> QED BY <4>2, <4>5
    <3> QED BY <3>1, <3>2, <2>4, <2>l
  <2>9. ASSUME NEW i \in DOMAIN printed[c], NEW j \in 1..(L + l), q[j].kind = "Trades"
        PROVE  printed[c][i] < q[j].n
    <3>1. printed[c][i] \in traded
      BY <1>p DEF Prints
    <3> QED BY <3>1, <2>6, <2>9, <1>p DEF Prints, TradesAfter, Youngest
  <2>10. /\ DOMAIN inbox'[c] = 1..((L + l) - k) /\ k \in Nat /\ k <= L + l
         /\ \A j \in 1..((L + l) - k) : inbox'[c][j] = q[j + k]
    <3>1. /\ DOMAIN inbox'[c] = 1..(Len(q) - k) /\ k \in Nat /\ k <= Len(q)
          /\ \A j \in 1..(Len(q) - k) : inbox'[c][j] = q[j + k]
      BY <2>5 DEF Passed
    <3>2. PICK m : m = L + l
      OBVIOUS
    <3>3. Len(q) = m
      BY <3>2, <2>4
    <3>4. /\ DOMAIN inbox'[c] = 1..(m - k) /\ k \in Nat /\ k <= m
          /\ \A j \in 1..(m - k) : inbox'[c][j] = q[j + k]
      BY <3>1, <3>3, Zenon
    <3> QED BY <3>2, <3>4, Zenon
  <2>11. \A j \in 1..((L + l) - k) : j + k \in 1..(L + l)
    BY <2>10, <2>4, <2>l
  <2>12. TradesAmong(inbox'[c], traded')
    BY <2>7, <2>10, <2>11 DEF TradesAmong
  <2>13. TradesRise(inbox'[c])
    <3> SUFFICES ASSUME NEW i \in 1..((L + l) - k), NEW j \in 1..((L + l) - k), i < j,
                        q[i + k].kind = "Trades", q[j + k].kind = "Trades"
                 PROVE  q[i + k].n < q[j + k].n
      BY <2>10 DEF TradesRise
    <3>1. i + k < j + k
      BY <2>10, <2>4, <2>l
    <3> QED BY <3>1, <2>11, <2>8
  <2>14. TradesAfter(printed'[c], inbox'[c])
    BY <2>9, <2>10, <2>11 DEF TradesAfter
  <2> QED BY <2>12, <2>13, <2>14, <1>p DEF Prints, TradesAmong, TradesRise, TradesAfter
<1> QED BY <1>1, <1>2

LEMMA RecvKeepsPrinting ==
  ASSUME Queues, Printing, NEW c \in Session, Recv(c)
  PROVE  Printing'
<1>0. /\ inbox[c] # <<>>
      /\ inbox' = [inbox EXCEPT ![c] = Tail(@)]
      /\ \/ printed' = printed
         \/ /\ Head(inbox[c]).kind = "Trades"
            /\ printed' = [printed EXCEPT ![c] = Append(@, Head(inbox[c]).n)]
      /\ traded' = traded
  BY DEF Recv
<1>p. Prints(c) /\ IsSeq(printed[c]) /\ IsSeq(inbox[c])
  BY DEF Printing, Queues
<1>o. ASSUME NEW e \in Session, e # c
      PROVE  inbox'[e] = inbox[e] /\ printed'[e] = printed[e]
  BY <1>0, <1>o DEF Printing, Queues
<1>1. PICK L \in Nat : /\ DOMAIN inbox[c] = 1..L /\ L > 0
                       /\ inbox'[c] = Tail(inbox[c])
                       /\ DOMAIN Tail(inbox[c]) = 1..(L - 1)
                       /\ \A i \in 1..(L - 1) : Tail(inbox[c])[i] = inbox[c][i + 1]
                       /\ Head(inbox[c]) = inbox[c][1]
  <2>1. PICK M : inbox[c] \in Seq(M)
    BY <1>p DEF IsSeq
  <2>2. inbox'[c] = Tail(inbox[c])
    BY <1>0 DEF Queues
  <2>3. Len(inbox[c]) \in Nat /\ Len(inbox[c]) > 0
    BY <2>1, <1>0
  <2> QED BY <2>1, <2>2, <2>3, <1>0
<1>2. /\ TradesAmong(inbox'[c], traded) /\ TradesRise(inbox'[c]) /\ TradesAfter(printed[c], inbox'[c])
  <2>1. \A i \in 1..(L - 1) : i + 1 \in 1..L
    BY <1>1
  <2>2. \A i, j \in 1..(L - 1) : i < j => i + 1 < j + 1
    BY <1>1
  <2>3. DOMAIN inbox'[c] = 1..(L - 1) /\ \A i \in 1..(L - 1) : inbox'[c][i] = inbox[c][i + 1]
    BY <1>1
  <2>4. TradesAmong(inbox'[c], traded)
    BY <2>1, <2>3, <1>1, <1>p DEF Prints, TradesAmong
  <2>5. TradesRise(inbox'[c])
    <3> SUFFICES ASSUME NEW i \in DOMAIN inbox'[c], NEW j \in DOMAIN inbox'[c], i < j,
                        inbox'[c][i].kind = "Trades", inbox'[c][j].kind = "Trades"
                 PROVE  inbox'[c][i].n < inbox'[c][j].n
      BY DEF TradesRise
    <3>1. inbox'[c][i] = inbox[c][i + 1] /\ inbox'[c][j] = inbox[c][j + 1]
      BY <2>3
    <3>2. i + 1 \in DOMAIN inbox[c] /\ j + 1 \in DOMAIN inbox[c] /\ i + 1 < j + 1
      BY <2>1, <2>2, <2>3, <1>1
    <3> QED BY <3>1, <3>2, <1>p DEF Prints, TradesRise
  <2>6. TradesAfter(printed[c], inbox'[c])
    BY <2>1, <2>3, <1>1, <1>p DEF Prints, TradesAfter
  <2> QED BY <2>4, <2>5, <2>6
<1>3. CASE printed' = printed
  <2>1. Prints(c)'
    BY <1>0, <1>2, <1>3, <1>p DEF Prints, TradesAmong, TradesRise, TradesAfter
  <2>2. \A e \in Session : e # c => Prints(e)'
    BY <1>0, <1>o DEF Printing, Prints, TradesAmong, TradesRise, TradesAfter
  <2> QED BY <1>3, <2>1, <2>2 DEF Printing
<1>4. CASE /\ Head(inbox[c]).kind = "Trades"
           /\ printed' = [printed EXCEPT ![c] = Append(@, Head(inbox[c]).n)]
  <2>h. PICK h : h = Head(inbox[c]).n
    OBVIOUS
  <2>1. printed'[c] = Append(printed[c], h)
    BY <1>4, <2>h DEF Printing
  <2>2. h \in traded /\ \A i \in DOMAIN printed[c] : printed[c][i] < h
    <3>1. 1 \in DOMAIN inbox[c] /\ inbox[c][1].kind = "Trades" /\ inbox[c][1].n = h
      BY <1>1, <1>4, <2>h
    <3> QED BY <3>1, <1>p DEF Prints, TradesAmong, TradesAfter
  <2>3. \A j \in 1..(L - 1) : inbox'[c][j].kind = "Trades" => h < inbox'[c][j].n
    <3>1. ASSUME NEW j \in 1..(L - 1), inbox'[c][j].kind = "Trades"
          PROVE  h < inbox'[c][j].n
      <4>1. j + 1 \in 1..L /\ 1 \in 1..L /\ 1 < j + 1
        BY <1>1
      <4>2. inbox[c][j + 1].kind = "Trades" /\ inbox[c][1].kind = "Trades" /\ inbox[c][1].n = h
            /\ inbox'[c][j] = inbox[c][j + 1]
        BY <1>1, <1>4, <2>h, <3>1
      <4> QED BY <4>1, <4>2, <1>1, <1>p DEF Prints, TradesRise
    <3> QED BY <3>1
  <2>4. PICK K \in Nat : /\ DOMAIN printed[c] = 1..K /\ DOMAIN printed'[c] = 1..(K + 1)
                         /\ \A i \in 1..K : printed'[c][i] = printed[c][i]
                         /\ printed'[c][K + 1] = h
                         /\ IsSeq(printed'[c])
    <3>1. PICK M : printed[c] \in Seq(M)
      BY <1>p DEF IsSeq
    <3>2. printed[c] \in Seq(M \cup {h})
      BY <3>1
    <3>3. printed'[c] \in Seq(M \cup {h})
      BY <3>2, <2>1
    <3> QED BY <3>2, <3>3, <2>1 DEF IsSeq
  <2>5. \A i \in 1..(K + 1) : i \in 1..K \/ i = K + 1
    BY <2>4
  <2>6. \A i \in DOMAIN printed'[c] : printed'[c][i] \in traded
    BY <2>2, <2>4, <2>5, <1>p DEF Prints
  <2>7. ASSUME NEW i \in DOMAIN printed'[c], NEW j \in DOMAIN printed'[c], i < j
        PROVE  printed'[c][i] < printed'[c][j]
    <3>1. i \in 1..K
      BY <2>4, <2>7
    <3>2. CASE j \in 1..K
      BY <3>1, <3>2, <2>4, <2>7, <1>p DEF Prints
    <3>3. CASE j = K + 1
      BY <3>1, <3>3, <2>2, <2>4
    <3> QED BY <3>2, <3>3, <2>4, <2>5
  <2>8. TradesAfter(printed'[c], inbox'[c])
    BY <2>3, <2>4, <2>5, <1>1, <1>2 DEF TradesAfter
  <2>9. Prints(c)'
    BY <2>6, <2>7, <2>8, <1>0, <1>2 DEF Prints, TradesAmong, TradesRise, TradesAfter
  <2>10. \A e \in Session : e # c => Prints(e)'
    BY <1>0, <1>o DEF Printing, Prints, TradesAmong, TradesRise, TradesAfter
  <2>11. DOMAIN printed' = Session /\ \A e \in Session : IsSeq(printed'[e])
    BY <1>4, <1>o, <2>4 DEF Printing
  <2> QED BY <2>9, <2>10, <2>11 DEF Printing
<1> QED BY <1>0, <1>3, <1>4

\* A batch sends events and quotes.
LEMMA EventBatchKinds ==
  ASSUME NEW f \in Event, NEW t, NEW msgs \in Seq({EventMsg(f), BboMsg(t)})
  PROVE  \A i \in DOMAIN msgs : msgs[i].kind # "Trades" /\ (msgs[i].kind = "Bbo" => msgs[i].top = t)
<1>1. \A i \in DOMAIN msgs : msgs[i] \in {EventMsg(f), BboMsg(t)}
  OBVIOUS
<1>2. EventMsg(f).kind \in Event /\ BboMsg(t).kind = "Bbo" /\ BboMsg(t).top = t
  BY DEF EventMsg, BboMsg
<1> QED BY <1>1, <1>2 DEF Event

LEMMA PrintingInit == Init => Printing
<1> SUFFICES ASSUME Init PROVE Printing
  OBVIOUS
<1>1. \A c \in Session : inbox[c] = <<>> /\ printed[c] = <<>>
  BY DEF Init
<1>2. <<>> \in Seq({}) /\ DOMAIN <<>> = {}
  OBVIOUS
<1> QED BY <1>1, <1>2 DEF Init, Printing, Prints, TradesAmong, TradesRise, TradesAfter, IsSeq

LEMMA FillKeepsPrinting ==
  ASSUME Queues, Pairing, Printing, TakeFill, Wants("Trades")
  PROVE  Printing'
<1>0. /\ traded' = IF Paired(fills + 1) THEN traded \cup {tid(fills + 1)} ELSE traded
      /\ printed' = printed
  BY DEF TakeFill, clientVars
<1>1. PICK t : t = tid(fills + 1)
  OBVIOUS
<1>2. PICK msgs : msgs = TradeMsgs(fills + 1)
  OBVIOUS
<1>3. Broadcast(msgs) /\ msgs \in Seq({TradeMsg(t)})
  BY <1>1, <1>2, FillBroadcasts
<1>4. msgs = IF Paired(fills + 1) THEN <<TradeMsg(t)>> ELSE <<>>
  BY <1>1, <1>2 DEF TradeMsgs
<1>5. TradeMsg(t).n = t
  BY DEF TradeMsg
<1>6. TradesAmong(msgs, traded')
  BY <1>0, <1>1, <1>4, <1>5 DEF TradesAmong
<1>7. ASSUME Paired(fills + 1), NEW u \in traded
      PROVE  u < t
  <2>1. fills \in Nat /\ grouped \subseteq 1..fills /\ u \in Nat /\ 2 * u \in grouped
    BY DEF Pairing, Waiting
  <2>2. fills + 1 = 2 * t /\ t \in Nat
    BY <2>1, <1>1, <1>7, PartnerWaits, Legs DEF Pairing
  <2>3. 2 * u <= fills
    BY <2>1
  <2> QED BY <2>1, <2>2, <2>3
<1>8. Youngest(msgs, traded)
  BY <1>4, <1>5, <1>7 DEF Youngest
<1> QED BY <1>0, <1>3, <1>6, <1>8, BroadcastKeepsPrinting

LEMMA EventKeepsPrinting ==
  ASSUME Queues, Printing, NEW f \in Event, NEW t,
         ApplyFails(f, t) \/ \E changed \in BOOLEAN : ApplyEvent(f, t, changed)
  PROVE  Printing'
<1>0. printed' = printed /\ traded' = traded
  BY DEF ApplyFails, ApplyEvent, clientVars
<1>1. PICK msgs \in Seq({EventMsg(f), BboMsg(t)}) : Broadcast(msgs)
  <2>1. CASE ApplyFails(f, t)
    <3>1. Broadcast(EventMsgs(f)) /\ EventMsgs(f) \in Seq({EventMsg(f), BboMsg(t)})
      BY <2>1, SeqOfOne DEF ApplyFails, EventMsgs
    <3> QED BY <3>1
  <2>2. ASSUME NEW changed \in BOOLEAN, ApplyEvent(f, t, changed)
        PROVE  \E msgs \in Seq({EventMsg(f), BboMsg(t)}) : Broadcast(msgs)
    BY <2>2, EventBatchMsgs DEF ApplyEvent
  <2> QED BY <2>1, <2>2
<1>2. \A i \in DOMAIN msgs : msgs[i].kind # "Trades"
  BY EventBatchKinds
<1>3. TradesAmong(msgs, traded') /\ Youngest(msgs, traded)
  BY <1>2 DEF TradesAmong, Youngest
<1> QED BY <1>0, <1>1, <1>3, BroadcastKeepsPrinting

LEMMA PrintingNext == Gates /\ Queues /\ Pairing /\ Printing /\ [Next]_vars => Printing'
<1> SUFFICES ASSUME Gates, Queues, Pairing, Printing, [Next]_vars PROVE Printing'
  OBVIOUS
<1>1. ASSUME NEW f \in Event, NEW t, ApplyFails(f, t) \/ \E changed \in BOOLEAN : ApplyEvent(f, t, changed)
      PROVE  Printing'
  BY <1>1, EventKeepsPrinting
<1>2. CASE TakeFill /\ Wants("Trades")
  BY <1>2, FillKeepsPrinting
<1>3. ASSUME UNCHANGED <<inbox, printed, traded>>
      PROVE  Printing'
  BY <1>3 DEF Printing, Prints, TradesAmong, TradesRise, TradesAfter
<1>4. CASE (TakeFill /\ ~Wants("Trades")) \/ FillLost \/ (\E t : Install(t)) \/ UNCHANGED vars
  BY <1>3, <1>4 DEF TakeFill, FillLost, Install, vars, sessionVars, clientVars, historyVars
<1>5. CASE BuildStep
  BY <1>3, <1>5, BuildFrame
<1>6. ASSUME NEW c \in Session, Connect(c) \/ \E ch \in Channel : Subscribe(c, ch) \/ Unsubscribe(c, ch)
      PROVE  Printing'
  BY <1>3, <1>6, ClientFrame
<1>7. ASSUME NEW c \in Session, Recv(c)
      PROVE  Printing'
  BY <1>7, RecvKeepsPrinting
<1>8. ASSUME NEW c \in Session, Disconnect(c)
      PROVE  Printing'
  <2>0. /\ inbox' = [inbox EXCEPT ![c] = <<>>] /\ printed' = [printed EXCEPT ![c] = <<>>]
        /\ traded' = traded
    BY <1>8 DEF Disconnect
  <2>1. inbox'[c] = <<>> /\ printed'[c] = <<>> /\ DOMAIN printed' = Session
    BY <2>0 DEF Queues, Printing
  <2>2. \A e \in Session : e # c => inbox'[e] = inbox[e] /\ printed'[e] = printed[e]
    BY <2>0 DEF Queues, Printing
  <2>3. <<>> \in Seq({}) /\ DOMAIN <<>> = {}
    OBVIOUS
  <2>4. IsSeq(printed'[c])
    BY <2>1, <2>3 DEF IsSeq
  <2>5. Prints(c)'
    BY <2>1, <2>3 DEF Prints, TradesAmong, TradesRise, TradesAfter
  <2>6. \A e \in Session : e # c => Prints(e)'
    BY <2>0, <2>2 DEF Printing, Prints, TradesAmong, TradesRise, TradesAfter
  <2> QED BY <2>1, <2>2, <2>4, <2>5, <2>6 DEF Printing
<1> QED BY <1>1, <1>2, <1>4, <1>5, <1>6, <1>7, <1>8 DEF Next, BuildStep, Event

THEOREM PrintingInvariance == Spec => []Printing
BY PrintingInit, PrintingNext, GatesInvariance, QueuesInvariance, PairingInvariance, PTL DEF Spec

\* A trade is printed if and only if both its legs were read while somebody was
\* subscribed (TradePairer::group), and a client gets each once, in order.
THEOREM TradesExactThm == Spec => []TradesExact
<1>1. Pairing /\ Printing => TradesExact
  BY DEF Pairing, Printing, Prints, TradesExact
<1> QED BY <1>1, PairingInvariance, PrintingInvariance, PTL

-----------------------------------------------------------------------------
(* The dump and the stream.                                                *)

\* What somebody is subscribed to is broadcast, and reaches its connection.
LEMMA SubscribedIsSent ==
  ASSUME Gates, NEW c \in Session, NEW ch \in subs[c], NEW f \in acquire_for(ch)
  PROVE  Wants(f) /\ phase[c] # "off"
<1>1. ch \in Channel /\ f \in Family
  BY FamiliesOf DEF Gates, Control
<1>2. <<c, ch>> \in Wanting(f)
  BY <1>1 DEF Wanting
<1>3. Cardinality(Wanting(f)) # 0 /\ Cardinality(Wanting(f)) \in Nat
  BY <1>2, WantingFinite, FS_EmptySet
<1>4. active_subs[f] = Cardinality(Wanting(f))
  BY <1>1 DEF Gates, GatesExact
<1> QED BY <1>3, <1>4 DEF Wants, Gates, Guarded

LEMMA StreamedInit == Init => Streamed
<1> SUFFICES ASSUME Init PROVE Streamed
  OBVIOUS
<1> QED BY DEF Init, Streamed

\* What was sent stays sent when more is broadcast.
LEMMA SentStays ==
  ASSUME Queues, NEW c \in Session, phase[c] # "off", NEW N, NEW msgs \in Seq(N), Broadcast(msgs),
         NEW n, Sent(c, n)
  PROVE  Sent(c, n)'
<1>1. CASE \E i \in DOMAIN inbox[c] : inbox[c][i].n = n /\ inbox[c][i].kind \in Event
  <2>1. PICK i \in DOMAIN inbox[c] : inbox[c][i].n = n /\ inbox[c][i].kind \in Event
    BY <1>1
  <2>2. inbox[c][i] \in missed'[c] \/ \E j \in DOMAIN inbox'[c] : inbox'[c][j] = inbox[c][i]
    BY BroadcastLosesNothing
  <2> QED BY <2>1, <2>2 DEF Sent
<1>2. CASE \E x \in missed[c] : x.n = n /\ x.kind \in Event
  BY <1>2, BroadcastLosesNothing DEF Sent
<1> QED BY <1>1, <1>2 DEF Sent

LEMMA EventKeepsStreamed ==
  ASSUME Gates, Queues, Streamed, NEW f \in Event, NEW t,
         ApplyFails(f, t) \/ \E changed \in BOOLEAN : ApplyEvent(f, t, changed)
  PROVE  Streamed'
<1>0. applied' = applied + 1 /\ since' = since /\ got' = got /\ subs' = subs
  BY DEF ApplyFails, ApplyEvent, clientVars
<1>t. applied \in Nat /\ since \in [Session -> Nat] /\ DOMAIN got = Session
  BY DEF Streamed
<1>1. PICK N : \E msgs \in Seq(N) : Broadcast(msgs) /\ (Wants(f) => \E i \in DOMAIN msgs : msgs[i] = EventMsg(f))
  <2>1. CASE ApplyFails(f, t)
    <3>1. Broadcast(EventMsgs(f)) /\ EventMsgs(f) \in Seq({EventMsg(f)})
      BY <2>1, EventBatchMsgs DEF ApplyFails
    <3>2. Wants(f) => 1 \in DOMAIN EventMsgs(f) /\ EventMsgs(f)[1] = EventMsg(f)
      BY DEF EventMsgs
    <3> QED BY <3>1, <3>2
  <2>2. ASSUME NEW changed \in BOOLEAN, ApplyEvent(f, t, changed)
        PROVE  \E M : \E msgs \in Seq(M) :
                 Broadcast(msgs) /\ (Wants(f) => \E i \in DOMAIN msgs : msgs[i] = EventMsg(f))
    <3>1. PICK rest : rest = IF changed THEN BboMsgs(t) ELSE <<>>
      OBVIOUS
    <3>2. Broadcast(EventMsgs(f) \o rest) /\ EventMsgs(f) \o rest \in Seq({EventMsg(f), BboMsg(t)})
      BY <2>2, <3>1, EventBatchMsgs DEF ApplyEvent
    <3>3. rest \in Seq({BboMsg(t)})
      BY <3>1, SeqOfOne DEF BboMsgs
    <3>4. PICK m : m = EventMsg(f)
      OBVIOUS
    <3>5. 1 \in DOMAIN (<<m>> \o rest) /\ (<<m>> \o rest)[1] = m
      BY <3>3
    <3>6. Wants(f) => EventMsgs(f) = <<m>>
      BY <3>4 DEF EventMsgs
    <3> QED BY <3>2, <3>4, <3>5, <3>6
  <2> QED BY <2>1, <2>2
<1>2. PICK msgs \in Seq(N) : Broadcast(msgs) /\ (Wants(f) => \E i \in DOMAIN msgs : msgs[i] = EventMsg(f))
  BY <1>1
<1>3. ASSUME NEW c \in Session, "l4Book" \in subs[c], NEW n \in (since[c] + 1)..(applied + 1)
      PROVE  n \in got[c] \/ Sent(c, n)'
  <2>1. f \in acquire_for("l4Book")
    BY DEF acquire_for, Event
  <2>2. Wants(f) /\ phase[c] # "off"
    BY <2>1, <1>3, SubscribedIsSent
  <2>3. CASE n = applied + 1
    <3>1. EventMsg(f).n = n /\ EventMsg(f).kind \in Event
      BY <2>3 DEF EventMsg
    <3>2. EventMsg(f) \in missed'[c] \/ \E j \in DOMAIN inbox'[c] : inbox'[c][j] = EventMsg(f)
      BY <1>2, <2>2, BroadcastLosesNothing
    <3> QED BY <3>1, <3>2 DEF Sent
  <2>4. CASE n # applied + 1
    <3>1. n \in (since[c] + 1)..applied
      BY <2>4, <1>t
    <3>2. n \in got[c] \/ Sent(c, n)
      BY <3>1, <1>3 DEF Streamed
    <3> QED BY <3>2, <1>2, <2>2, SentStays
  <2> QED BY <2>3, <2>4
<1> QED BY <1>0, <1>3, <1>t DEF Streamed

LEMMA RecvKeepsStreamed ==
  ASSUME Queues, Streamed, NEW c \in Session, Recv(c)
  PROVE  Streamed'
<1>h. PICK m : m = Head(inbox[c])
  OBVIOUS
<1>0. /\ inbox[c] # <<>> /\ inbox' = [inbox EXCEPT ![c] = Tail(@)]
      /\ got' = IF m.kind \in Event /\ "l4Book" \in subs[c] THEN [got EXCEPT ![c] = @ \cup {m.n}] ELSE got
      /\ missed' = missed \/ missed' = [missed EXCEPT ![c] = {x \in @ : x.kind # "Bbo"}]
      /\ applied' = applied /\ since' = since /\ subs' = subs
  BY <1>h DEF Recv, bookVars, Event
<1>t. DOMAIN inbox = Session /\ DOMAIN missed = Session /\ DOMAIN got = Session
  BY DEF Queues, Streamed
<1>1. \A e \in Session : e # c => inbox'[e] = inbox[e] /\ missed'[e] = missed[e] /\ got'[e] = got[e]
  BY <1>0, <1>t
<1>2. \A x \in missed[c] : x.kind \in Event => x \in missed'[c]
  BY <1>0, <1>t DEF Event
<1>3. \A i \in DOMAIN inbox[c] : inbox[c][i] = m \/ \E j \in DOMAIN inbox'[c] : inbox'[c][j] = inbox[c][i]
  <2>1. PICK M : inbox[c] \in Seq(M)
    BY DEF Queues, IsSeq
  <2>2. inbox'[c] = Tail(inbox[c])
    BY <1>0, <1>t
  <2>3. ASSUME NEW i \in DOMAIN inbox[c], i # 1
        PROVE  \E j \in DOMAIN inbox'[c] : inbox'[c][j] = inbox[c][i]
    <3>1. i - 1 \in 1..(Len(inbox[c]) - 1) /\ (i - 1) + 1 = i
      BY <2>1, <2>3
    <3>2. i - 1 \in DOMAIN Tail(inbox[c]) /\ Tail(inbox[c])[i - 1] = inbox[c][(i - 1) + 1]
      BY <2>1, <3>1, <1>0
    <3> QED BY <3>1, <3>2, <2>2
  <2>4. inbox[c][1] = m
    BY <2>1, <1>0, <1>h
  <2> QED BY <2>3, <2>4
<1>4. ASSUME NEW e \in Session, "l4Book" \in subs[e], NEW n \in (since[e] + 1)..applied
      PROVE  n \in got'[e] \/ Sent(e, n)'
  <2>0. n \in got[e] \/ Sent(e, n)
    BY <1>4 DEF Streamed
  <2>1. CASE e # c
    BY <2>0, <2>1, <1>1 DEF Sent
  <2>2. CASE e = c
    <3>1. CASE n \in got[c]
      BY <2>2, <3>1, <1>0, <1>t
    <3>2. CASE \E x \in missed[c] : x.n = n /\ x.kind \in Event
      BY <2>2, <3>2, <1>2 DEF Sent
    <3>3. CASE \E i \in DOMAIN inbox[c] : inbox[c][i].n = n /\ inbox[c][i].kind \in Event
      <4>1. PICK i \in DOMAIN inbox[c] : inbox[c][i].n = n /\ inbox[c][i].kind \in Event
        BY <3>3
      <4>2. CASE inbox[c][i] = m
        BY <4>1, <4>2, <2>2, <1>0, <1>4, <1>t
      <4>3. CASE \E j \in DOMAIN inbox'[c] : inbox'[c][j] = inbox[c][i]
        BY <4>1, <4>3, <2>2 DEF Sent
      <4> QED BY <4>2, <4>3, <1>3
    <3> QED BY <2>0, <2>2, <3>1, <3>2, <3>3 DEF Sent
  <2> QED BY <2>1, <2>2
<1>5. DOMAIN got' = Session
  BY <1>0, <1>t
<1> QED BY <1>0, <1>4, <1>5 DEF Streamed

LEMMA StreamedNext == Gates /\ Queues /\ Streamed /\ [Next]_vars => Streamed'
<1> SUFFICES ASSUME Gates, Queues, Streamed, [Next]_vars PROVE Streamed'
  OBVIOUS
<1>t. applied \in Nat /\ since \in [Session -> Nat] /\ DOMAIN got = Session
  BY DEF Streamed
<1>s. subs \in [Session -> SUBSET Channel]
  BY DEF Gates, Control
<1>1. ASSUME NEW f \in Event, NEW t, ApplyFails(f, t) \/ \E changed \in BOOLEAN : ApplyEvent(f, t, changed)
      PROVE  Streamed'
  BY <1>1, EventKeepsStreamed
<1>2. CASE TakeFill /\ Wants("Trades")
  <2>0. applied' = applied /\ since' = since /\ got' = got /\ subs' = subs
    BY <1>2 DEF TakeFill, bookVars, clientVars
  <2>1. PICK N : \E msgs \in Seq(N) : Broadcast(msgs)
    BY <1>2, FillBroadcasts
  <2>2. ASSUME NEW c \in Session, "l4Book" \in subs[c], NEW n, Sent(c, n)
        PROVE  Sent(c, n)'
    <3>1. phase[c] # "off"
      BY <2>2 DEF Gates, Guarded
    <3> QED BY <3>1, <2>1, <2>2, SentStays
  <2> QED BY <2>0, <2>2 DEF Streamed
<1>3. ASSUME UNCHANGED <<applied, since, got, inbox, missed>>,
             \A c \in Session : "l4Book" \in subs'[c] => "l4Book" \in subs[c]
      PROVE  Streamed'
  BY <1>3 DEF Streamed, Sent
<1>4. CASE (TakeFill /\ ~Wants("Trades")) \/ FillLost \/ (\E t : Install(t)) \/ UNCHANGED vars
  <2>1. UNCHANGED <<applied, since, got, inbox, missed, subs>>
    BY <1>4 DEF TakeFill, FillLost, Install, vars, bookVars, sessionVars, clientVars, historyVars
  <2> QED BY <2>1, <1>3
<1>5. CASE BuildStep
  BY <1>3, <1>5, BuildFrame
<1>6. ASSUME NEW c \in Session, Connect(c)
      PROVE  Streamed'
  <2>1. UNCHANGED <<applied, since, got, inbox, missed, subs>>
    BY <1>6 DEF Connect, bookVars, sessionVars, clientVars, historyVars
  <2> QED BY <2>1, <1>3
<1>7. ASSUME NEW c \in Session, NEW ch \in Channel, Subscribe(c, ch)
      PROVE  Streamed'
  <2>0. /\ subs' = [subs EXCEPT ![c] = @ \cup {ch}]
        /\ UNCHANGED <<applied, got, inbox, missed>>
        /\ ch # "l4Book" => since' = since
        /\ ch = "l4Book" => since' = [since EXCEPT ![c] = applied]
    BY <1>7 DEF Subscribe, bookVars
  <2>1. CASE ch # "l4Book"
    BY <2>0, <2>1, <1>3, <1>s
  <2>2. CASE ch = "l4Book"
    <3>1. since' \in [Session -> Nat] /\ since'[c] = applied
      BY <2>0, <2>2, <1>t
    <3>2. \A n \in (since'[c] + 1)..applied : FALSE
      BY <3>1, <1>t
    <3>3. \A e \in Session : e # c => since'[e] = since[e] /\ subs'[e] = subs[e]
      BY <2>0, <2>2, <1>t, <1>s
    <3>4. \A e \in Session : \A n : Sent(e, n) => Sent(e, n)'
      BY <2>0 DEF Sent
    <3> QED BY <3>1, <3>2, <3>3, <3>4, <2>0 DEF Streamed
  <2> QED BY <2>1, <2>2
<1>8. ASSUME NEW c \in Session, NEW ch \in Channel, Unsubscribe(c, ch)
      PROVE  Streamed'
  <2>0. /\ subs' = [subs EXCEPT ![c] = @ \ {ch}]
        /\ UNCHANGED <<applied, inbox, missed, since>>
        /\ got' = IF ch = "l4Book" THEN [got EXCEPT ![c] = {}] ELSE got
    BY <1>8 DEF Unsubscribe, bookVars
  <2>1. \A e \in Session : "l4Book" \in subs'[e] => "l4Book" \in subs[e] /\ got'[e] = got[e]
    BY <2>0, <1>s, <1>t
  <2>2. DOMAIN got' = Session
    BY <2>0, <1>t
  <2> QED BY <2>0, <2>1, <2>2 DEF Streamed, Sent
<1>9. ASSUME NEW c \in Session, Recv(c)
      PROVE  Streamed'
  BY <1>9, RecvKeepsStreamed
<1>10. ASSUME NEW c \in Session, Disconnect(c)
       PROVE  Streamed'
  <2>0. /\ subs' = [subs EXCEPT ![c] = {}] /\ inbox' = [inbox EXCEPT ![c] = <<>>]
        /\ got' = [got EXCEPT ![c] = {}] /\ missed' = [missed EXCEPT ![c] = {}]
        /\ since' = [since EXCEPT ![c] = 0] /\ applied' = applied
    BY <1>10 DEF Disconnect, bookVars
  <2>1. since' \in [Session -> Nat] /\ DOMAIN got' = Session /\ "l4Book" \notin subs'[c]
    BY <2>0, <1>t, <1>s
  <2>2. \A e \in Session : e # c => /\ subs'[e] = subs[e] /\ inbox'[e] = inbox[e] /\ got'[e] = got[e]
                                    /\ missed'[e] = missed[e] /\ since'[e] = since[e]
    BY <2>0, <1>t, <1>s DEF Queues
  <2> QED BY <2>0, <2>1, <2>2 DEF Streamed, Sent
<1> QED BY <1>1, <1>2, <1>4, <1>5, <1>6, <1>7, <1>8, <1>9, <1>10 DEF Next, BuildStep, Event

THEOREM StreamedInvariance == Spec => []Streamed
BY StreamedInit, StreamedNext, GatesInvariance, QueuesInvariance, PTL DEF Spec

LEMMA DumpedInit == Init => Dumped
BY DEF Init, Dumped, Dump, Builders

\* A builder is served a dump.
LEMMA ServeKeepsDumped ==
  ASSUME Gates, Streamed, Dumped, NEW b \in Builders, NEW d \in Nat, NEW hit \in BOOLEAN, Serve(b, d, hit),
         b \in Session => "l4Book" \in subs'[b] /\ since'[b] <= applied' /\ (~hit => since'[b] <= d),
         \A c \in Session : c # b => since'[c] = since[c] /\ subs'[c] = subs[c] /\ body'[c] = body[c],
         applied' = applied, cache' \subseteq Nat, body' \in [Builders -> SUBSET Nat]
  PROVE  Dumped'
<1>t. /\ dump \in [Session -> SUBSET Nat] /\ cached \in [Session -> BOOLEAN]
      /\ phase \in [Builders -> {"off", "open"} \cup Building] /\ Control
  BY DEF Dumped, Dump, Gates, Control
<1>b. Session \subseteq Builders /\ Http \notin Session /\ (b # Http => b \in Session)
  BY EventFeedAssumption DEF Builders
<1>p. /\ \A c \in Session : c = b => phase'[c] = "open"
      /\ \A c \in Session : c # b => phase'[c] = phase[c]
  BY <1>t, ServePhase
<1>0. /\ dump' = IF b = Http THEN dump ELSE [dump EXCEPT ![b] = {d}]
      /\ cached' = IF b = Http THEN cached ELSE [cached EXCEPT ![b] = hit]
  BY DEF Serve
<1>1. dump' \in [Session -> SUBSET Nat] /\ cached' \in [Session -> BOOLEAN]
  BY <1>0, <1>t, <1>b
<1>2. ASSUME NEW c \in Session
      PROVE  Dump(c)'
  <2>1. CASE c = b
    <3>1. dump'[c] = {d} /\ cached'[c] = hit
      BY <2>1, <1>0, <1>t, <1>b
    <3> QED BY <3>1, <2>1, <1>p DEF Dump
  <2>2. CASE c # b
    <3>1. dump'[c] = dump[c] /\ cached'[c] = cached[c] /\ phase'[c] = phase[c]
      BY <2>2, <1>0, <1>t, <1>p
    <3> QED BY <3>1, <2>2 DEF Dump, Dumped
  <2> QED BY <2>1, <2>2
<1> QED BY <1>1, <1>2 DEF Dump, Dumped

LEMMA BuildKeepsDumped ==
  ASSUME Gates, Streamed, Dumped, NEW b \in Builders, Build(b)
  PROVE  Dumped'
<1>t. /\ cache \subseteq Nat /\ body \in [Builders -> SUBSET Nat]
      /\ dump \in [Session -> SUBSET Nat] /\ cached \in [Session -> BOOLEAN]
      /\ phase \in [Builders -> {"off", "open"} \cup Building] /\ Control
      /\ subs \in [Session -> SUBSET Channel] /\ applied \in Nat /\ since \in [Session -> Nat]
  BY DEF Dumped, Dump, Gates, Control, Streamed
<1>b. Session \subseteq Builders /\ Http \notin Session
  BY EventFeedAssumption DEF Builders
<1>g. \A c \in Session : /\ since[c] <= applied /\ (phase[c] \in Building => "l4Book" \in subs[c])
                         /\ phase[c] = "insert" => \A d \in body[c] : since[c] <= d
  BY DEF Gates, Guarded, Dumped, Dump
<1>1. ASSUME TakePermit(b), cache # {}
      PROVE  Dumped'
  <2>0. /\ phase[b] = "wait" /\ UNCHANGED <<applied, cache, body, subs, since>>
        /\ \E d \in cache : Serve(b, d, TRUE)
    BY <1>1 DEF TakePermit, bookVars, sessionVars
  <2>1. PICK d \in cache : Serve(b, d, TRUE)
    BY <2>0
  <2>2. d \in Nat /\ (b \in Session => "l4Book" \in subs[b])
    BY <2>0, <1>t, <1>g DEF Building
  <2> QED BY <2>0, <2>1, <2>2, <1>g, <1>t, ServeKeepsDumped
<1>2. ASSUME TakePermit(b), cache = {}
      PROVE  Dumped'
  <2>0. /\ phase[b] = "wait" /\ UNCHANGED <<applied, cache, body, subs, since, dump, cached>>
        /\ phase' = [phase EXCEPT ![b] = "clone"]
    BY <1>2 DEF TakePermit, bookVars, sessionVars
  <2>1. \A c \in Session : /\ c # b => phase'[c] = phase[c]
                           /\ c = b => phase'[c] = "clone"
    BY <2>0, <1>t, <1>b
  <2> QED BY <2>0, <2>1 DEF Dumped, Dump
<1>3. ASSUME CloneBook(b)
      PROVE  Dumped'
  <2>0. /\ phase[b] = "clone" /\ UNCHANGED <<applied, cache, subs, since, dump, cached>>
        /\ phase' = [phase EXCEPT ![b] = "insert"] /\ body' = [body EXCEPT ![b] = {applied}]
    BY <1>3 DEF CloneBook, bookVars, sessionVars, clientVars, historyVars
  <2>1. body' \in [Builders -> SUBSET Nat]
    BY <2>0, <1>t
  <2>2. \A c \in Session : /\ c # b => phase'[c] = phase[c] /\ body'[c] = body[c]
                           /\ c = b => phase'[c] = "insert" /\ body'[c] = {applied}
    BY <2>0, <1>t, <1>b
  <2>3. \A c \in Session : Dump(c)'
    BY <2>0, <2>2, <1>g DEF Dumped, Dump
  <2> QED BY <2>0, <2>1, <2>3 DEF Dumped, Dump
<1>4. ASSUME CloneFails(b)
      PROVE  Dumped'
  <2>0. /\ phase[b] = "clone" /\ UNCHANGED <<applied, cache, body, since, dump, cached>>
        /\ phase' = [phase EXCEPT ![b] = IF b = Http THEN "off" ELSE "open"]
        /\ subs' = [c \in Session |-> IF c = b THEN subs[c] \ {"l4Book"} ELSE subs[c]]
    BY <1>4 DEF CloneFails, Refused, bookVars, clientVars, historyVars
  <2>1. \A c \in Session : /\ c # b => phase'[c] = phase[c] /\ subs'[c] = subs[c]
                           /\ c = b => phase'[c] = "open" /\ dump[c] = {}
    BY <2>0, <1>t, <1>b DEF Dumped, Dump
  <2>2. \A c \in Session : Dump(c)'
    BY <2>0, <2>1 DEF Dumped, Dump
  <2> QED BY <2>0, <2>2, <1>t DEF Dumped, Dump
<1>5. ASSUME InsertBody(b)
      PROVE  Dumped'
  <2>0. /\ phase[b] = "insert" /\ UNCHANGED <<applied, subs, since>>
        /\ cache' = body[b] /\ body' = [body EXCEPT ![b] = {}]
        /\ \E d \in body[b] : Serve(b, d, FALSE)
    BY <1>5 DEF InsertBody, bookVars, sessionVars
  <2>1. PICK d \in body[b] : Serve(b, d, FALSE)
    BY <2>0
  <2>2. /\ d \in Nat /\ cache' \subseteq Nat /\ body' \in [Builders -> SUBSET Nat]
        /\ \A c \in Session : c # b => body'[c] = body[c]
    BY <2>0, <1>t, <1>b
  <2>3. b \in Session => "l4Book" \in subs[b] /\ since[b] <= d
    BY <2>0, <1>g DEF Building
  <2> QED BY <2>0, <2>1, <2>2, <2>3, <1>g, <1>t, ServeKeepsDumped
<1> QED BY <1>1, <1>2, <1>3, <1>4, <1>5 DEF Build

LEMMA ClientKeepsDumped ==
  ASSUME Gates, Streamed, Dumped, NEW c \in Session,
         Disconnect(c) \/ \E ch \in Channel : Subscribe(c, ch) \/ Unsubscribe(c, ch)
  PROVE  Dumped'
<1>t. /\ cache \subseteq Nat /\ body \in [Builders -> SUBSET Nat]
      /\ dump \in [Session -> SUBSET Nat] /\ cached \in [Session -> BOOLEAN]
      /\ phase \in [Builders -> {"off", "open"} \cup Building] /\ Control
      /\ subs \in [Session -> SUBSET Channel] /\ applied \in Nat /\ since \in [Session -> Nat]
  BY DEF Dumped, Dump, Gates, Control, Streamed
<1>b. c \in Builders /\ Session \subseteq Builders
  BY DEF Builders
<1>d. \A e \in Session : Dump(e)
  BY DEF Dumped, Dump
<1>1. ASSUME NEW ch \in Channel, Subscribe(c, ch), ch # "l4Book"
      PROVE  Dumped'
  <2>0. /\ subs' = [subs EXCEPT ![c] = @ \cup {ch}]
        /\ UNCHANGED <<applied, cache, body, phase, dump, cached, since>>
    BY <1>1 DEF Subscribe, bookVars
  <2>1. \A e \in Session : "l4Book" \in subs[e] => "l4Book" \in subs'[e]
    BY <2>0, <1>t
  <2> QED BY <2>0, <2>1 DEF Dumped, Dump
<1>2. ASSUME Subscribe(c, "l4Book"), cache # {}
      PROVE  Dumped'
  <2>0. /\ subs' = [subs EXCEPT ![c] = @ \cup {"l4Book"}]
        /\ UNCHANGED <<applied, cache, body>> /\ since' = [since EXCEPT ![c] = applied]
        /\ \E d \in cache : Serve(c, d, TRUE)
    BY <1>2 DEF Subscribe, bookVars
  <2>1. PICK d \in cache : Serve(c, d, TRUE)
    BY <2>0
  <2>2. /\ d \in Nat /\ "l4Book" \in subs'[c] /\ since'[c] <= applied'
        /\ \A e \in Session : e # c => since'[e] = since[e] /\ subs'[e] = subs[e]
    BY <2>0, <1>t
  <2> QED BY <2>0, <2>1, <2>2, <1>b, <1>t, ServeKeepsDumped
<1>3. ASSUME Subscribe(c, "l4Book"), cache = {}
      PROVE  Dumped'
  <2>0. /\ subs' = [subs EXCEPT ![c] = @ \cup {"l4Book"}] /\ "l4Book" \notin subs[c]
        /\ UNCHANGED <<applied, cache, body, dump, cached>> /\ since' = [since EXCEPT ![c] = applied]
        /\ phase' = [phase EXCEPT ![c] = "wait"]
    BY <1>3 DEF Subscribe, bookVars
  <2>1. /\ since'[c] <= applied' /\ phase'[c] = "wait" /\ dump[c] = {}
        /\ \A e \in Session : e # c => since'[e] = since[e] /\ subs'[e] = subs[e] /\ phase'[e] = phase[e]
    BY <2>0, <1>t, <1>b, <1>d DEF Dump
  <2>2. \A e \in Session : Dump(e)'
    BY <2>0, <2>1, <1>d DEF Dump
  <2> QED BY <2>0, <2>2, <1>t DEF Dumped, Dump
<1>4. ASSUME NEW ch \in Channel, Unsubscribe(c, ch)
      PROVE  Dumped'
  <2>0. /\ phase[c] = "open" /\ subs' = [subs EXCEPT ![c] = @ \ {ch}]
        /\ UNCHANGED <<applied, cache, body, phase, since>>
        /\ dump' = IF ch = "l4Book" THEN [dump EXCEPT ![c] = {}] ELSE dump
        /\ cached' = IF ch = "l4Book" THEN [cached EXCEPT ![c] = FALSE] ELSE cached
    BY <1>4 DEF Unsubscribe, bookVars, buildVars
  <2>1. dump' \in [Session -> SUBSET Nat] /\ cached' \in [Session -> BOOLEAN]
    BY <2>0, <1>t
  <2>2. \A e \in Session : e # c => dump'[e] = dump[e] /\ cached'[e] = cached[e] /\ subs'[e] = subs[e]
    BY <2>0, <1>t
  <2>3. Dump(c)'
    <3>1. CASE ch = "l4Book"
      <4>1. dump'[c] = {}
        BY <3>1, <2>0, <1>t
      <4> QED BY <4>1, <2>0, <1>d DEF Dump
    <3>2. CASE ch # "l4Book"
      <4>1. "l4Book" \in subs[c] => "l4Book" \in subs'[c]
        BY <3>2, <2>0, <1>t
      <4> QED BY <3>2, <4>1, <2>0, <1>d DEF Dump
    <3> QED BY <3>1, <3>2
  <2>4. \A e \in Session : e # c => Dump(e)'
    BY <2>0, <2>2, <1>d DEF Dump
  <2> QED BY <2>0, <2>1, <2>3, <2>4, <1>t DEF Dumped, Dump
<1>5. ASSUME Disconnect(c)
      PROVE  Dumped'
  <2>0. /\ phase' = [phase EXCEPT ![c] = "off"] /\ subs' = [subs EXCEPT ![c] = {}]
        /\ UNCHANGED <<applied, cache, body>> /\ since' = [since EXCEPT ![c] = 0]
        /\ dump' = [dump EXCEPT ![c] = {}] /\ cached' = [cached EXCEPT ![c] = FALSE]
    BY <1>5 DEF Disconnect, bookVars
  <2>1. dump' \in [Session -> SUBSET Nat] /\ cached' \in [Session -> BOOLEAN]
    BY <2>0, <1>t
  <2>2. \A e \in Session : e # c => /\ dump'[e] = dump[e] /\ cached'[e] = cached[e] /\ subs'[e] = subs[e]
                                    /\ phase'[e] = phase[e] /\ since'[e] = since[e]
    BY <2>0, <1>t, <1>b
  <2>3. dump'[c] = {} /\ phase'[c] = "off" /\ since'[c] <= applied'
    BY <2>0, <1>t, <1>b
  <2>4. \A e \in Session : Dump(e)'
    BY <2>0, <2>2, <2>3, <1>d DEF Dump
  <2> QED BY <2>0, <2>1, <2>4, <1>t DEF Dumped, Dump
<1> QED BY <1>1, <1>2, <1>3, <1>4, <1>5

LEMMA DumpedNext == Gates /\ Streamed /\ Dumped /\ [Next]_vars => Dumped'
<1> SUFFICES ASSUME Gates, Streamed, Dumped, [Next]_vars PROVE Dumped'
  OBVIOUS
<1>t. /\ applied \in Nat /\ since \in [Session -> Nat]
      /\ phase \in [Builders -> {"off", "open"} \cup Building]
  BY DEF Gates, Control, Streamed
<1>b. Session \subseteq Builders /\ Http \notin Session
  BY EventFeedAssumption DEF Builders
<1>1. ASSUME NEW f, NEW t, ApplyFails(f, t) \/ \E changed \in BOOLEAN : ApplyEvent(f, t, changed)
      PROVE  Dumped'
  <2>0. applied' = applied + 1 /\ UNCHANGED <<cache, body, phase, dump, cached, since, subs>>
    BY <1>1 DEF ApplyFails, ApplyEvent, buildVars, clientVars
  <2>1. \A c \in Session : since[c] <= applied + 1
    BY <1>t DEF Dumped, Dump
  <2> QED BY <2>0, <2>1 DEF Dumped, Dump
<1>2. CASE TakeFill \/ FillLost \/ (\E t : Install(t)) \/ (\E c \in Session : Recv(c)) \/ UNCHANGED vars
  <2>1. UNCHANGED <<applied, cache, body, phase, dump, cached, since, subs>>
    BY <1>2 DEF TakeFill, FillLost, Install, Recv, vars, bookVars, buildVars, sessionVars, clientVars, historyVars
  <2> QED BY <2>1 DEF Dumped, Dump
<1>3. CASE GetL4Book
  <2>1. /\ phase' = [phase EXCEPT ![Http] = "wait"]
        /\ UNCHANGED <<applied, cache, body, dump, cached, since, subs>>
    BY <1>3 DEF GetL4Book, bookVars, sessionVars, clientVars, historyVars
  <2>2. \A c \in Session : phase'[c] = phase[c]
    BY <2>1, <1>t, <1>b
  <2> QED BY <2>1, <2>2 DEF Dumped, Dump
<1>4. CASE Expire
  <2>1. cache' = {} /\ UNCHANGED <<applied, phase, body, dump, cached, since, subs>>
    BY <1>4 DEF Expire, bookVars, sessionVars, clientVars, historyVars
  <2> QED BY <2>1 DEF Dumped, Dump
<1>5. ASSUME NEW b \in Builders, Build(b)
      PROVE  Dumped'
  BY <1>5, BuildKeepsDumped
<1>6. ASSUME NEW c \in Session, Connect(c)
      PROVE  Dumped'
  <2>1. /\ phase[c] = "off" /\ phase' = [phase EXCEPT ![c] = "open"]
        /\ UNCHANGED <<applied, cache, body, dump, cached, since, subs>>
    BY <1>6 DEF Connect, bookVars, sessionVars, clientVars, historyVars
  <2>2. phase'[c] = "open" /\ \A e \in Session : e # c => phase'[e] = phase[e]
    BY <2>1, <1>t, <1>b
  <2> QED BY <2>1, <2>2 DEF Dumped, Dump
<1>7. ASSUME NEW c \in Session,
             Disconnect(c) \/ \E ch \in Channel : Subscribe(c, ch) \/ Unsubscribe(c, ch)
      PROVE  Dumped'
  BY <1>7, ClientKeepsDumped
<1> QED BY <1>1, <1>2, <1>3, <1>4, <1>5, <1>6, <1>7 DEF Next

THEOREM DumpedInvariance == Spec => []Dumped
BY DumpedInit, DumpedNext, GatesInvariance, StreamedInvariance, PTL DEF Spec

\* An l4Book client has its dump and every batch after it (handle_l4_snapshot,
\* apply_event_batch), but for what its channel dropped and, with a dump from the
\* cache, what was applied before it asked.
THEOREM L4CompleteThm == Spec => []L4Complete
<1>1. Streamed /\ Dumped => L4Complete
  <2> SUFFICES ASSUME Streamed, Dumped, NEW c \in Session, NEW d \in dump[c], NEW n \in (d + 1)..applied
               PROVE  n \in got[c] \/ Sent(c, n) \/ (cached[c] /\ n <= since[c])
    BY DEF L4Complete, Sent, Event
  <2>1. d \in Nat /\ applied \in Nat /\ since[c] \in Nat /\ "l4Book" \in subs[c]
    BY DEF Streamed, Dumped, Dump
  <2>2. CASE n <= since[c]
    <3>1. ~(since[c] <= d)
      BY <2>1, <2>2
    <3>2. cached[c]
      BY <3>1 DEF Dumped, Dump
    <3> QED BY <3>2, <2>2
  <2>3. CASE ~(n <= since[c])
    <3>1. n \in (since[c] + 1)..applied
      BY <2>1, <2>3
    <3> QED BY <3>1, <2>1 DEF Streamed
  <2> QED BY <2>2, <2>3
<1> QED BY <1>1, StreamedInvariance, DumpedInvariance, PTL

-----------------------------------------------------------------------------
(* The top of the book.                                                    *)

LEMMA QuotingInit == Init => Quoting
BY DEF Init, Quoting, Remembered

\* Broadcasts without a quote.
LEMMA OtherKeepsQuotes ==
  ASSUME Queues, NEW c \in Session, Quotes(c), NEW N, NEW msgs \in Seq(N), Broadcast(msgs),
         \A i \in DOMAIN msgs : msgs[i].kind # "Bbo",
         top' = top, subs' = subs, heard' = heard, shows' = shows
  PROVE  Quotes(c)'
<1>1. CASE phase[c] = "off"
  <2>1. inbox'[c] = inbox[c] /\ missed'[c] = missed[c]
    BY <1>1, BroadcastOffline
  <2> QED BY <2>1 DEF Quotes, LastQuote, CaughtUp, Quoted
<1>2. CASE phase[c] # "off"
  <2>1. PICK q : q = inbox[c] \o msgs
    OBVIOUS
  <2>2. PICK L : L = Len(inbox[c])
    OBVIOUS
  <2>3. PICK l : l = Len(msgs)
    OBVIOUS
  <2>4. /\ \E k : Passed(c, q, k)
        /\ L \in Nat /\ DOMAIN inbox[c] = 1..L
        /\ Len(q) = L + l
        /\ \A i \in 1..L : q[i] = inbox[c][i]
        /\ \A i \in 1..l : q[L + i] = msgs[i]
    BY <1>2, <2>1, <2>2, <2>3, BroadcastPasses
  <2>5. PICK k : Passed(c, q, k)
    BY <2>4
  <2>l. l \in Nat /\ DOMAIN msgs = 1..l
    BY <2>3
  <2>6. PICK m \in Nat : /\ m = Len(q) - k /\ DOMAIN inbox'[c] = 1..m /\ k \in Nat
                         /\ \A j \in 1..m : inbox'[c][j] = q[j + k]
    BY <2>5, PassedLength
  <2>s. m + k = L + l
    BY <2>4, <2>5, <2>6 DEF Passed
  <2>7. ASSUME NEW i \in DOMAIN inbox'[c], LastQuote(inbox'[c], i)
        PROVE  inbox'[c][i].top = top
    <3>1. i \in 1..m /\ inbox'[c][i] = q[i + k] /\ q[i + k].kind = "Bbo"
      BY <2>6, <2>7 DEF LastQuote
    <3>2. i + k <= L
      <4> SUFFICES ASSUME ~(i + k <= L) PROVE FALSE
        OBVIOUS
      <4>1. (i + k) - L \in 1..l /\ L + ((i + k) - L) = i + k
        BY <3>1, <2>s, <2>4, <2>6, <2>l
      <4>2. q[i + k] = msgs[(i + k) - L]
        BY <4>1, <2>4
      <4> QED BY <3>1, <4>1, <4>2, <2>l
    <3>3. i + k \in 1..L
      BY <3>1, <3>2, <2>4, <2>6
    <3>4. q[i + k] = inbox[c][i + k] /\ i + k \in DOMAIN inbox[c]
      BY <3>3, <2>4
    <3>5. ASSUME NEW j \in DOMAIN inbox[c], j > i + k
          PROVE  inbox[c][j].kind # "Bbo"
      <4>1. j - k \in 1..m /\ (j - k) + k = j /\ j - k > i /\ j \in 1..L
        BY <3>1, <3>5, <2>s, <2>4, <2>6, <2>l
      <4>2. inbox'[c][j - k] = inbox[c][j]
        BY <4>1, <2>4, <2>6
      <4> QED BY <4>1, <4>2, <2>6, <2>7 DEF LastQuote
    <3>6. LastQuote(inbox[c], i + k)
      BY <3>1, <3>4, <3>5 DEF LastQuote
    <3> QED BY <3>1, <3>4, <3>6 DEF Quotes
  <2>8. ASSUME CaughtUp(c)' PROVE CaughtUp(c)
    <3>1. missed[c] \subseteq missed'[c]
      BY <1>2, BroadcastLosesNothing
    <3>2. \A i \in DOMAIN inbox[c] :
            inbox[c][i] \in missed'[c] \/ \E j \in DOMAIN inbox'[c] : inbox'[c][j] = inbox[c][i]
      BY <1>2, BroadcastLosesNothing
    <3> QED BY <2>8, <3>1, <3>2 DEF CaughtUp
  <2> QED BY <2>7, <2>8 DEF Quotes, LastQuote, Quoted
<1> QED BY <1>1, <1>2

\* A broadcast that ends in the quote of the new top.
LEMMA QuoteIsCurrent ==
  ASSUME Gates, Queues, NEW c \in Session, NEW N, NEW msgs \in Seq(N), Broadcast(msgs),
         NEW l \in Nat, l = Len(msgs), l > 0, msgs[l].kind = "Bbo", msgs[l].top = top', subs' = subs
  PROVE  Quotes(c)'
<1>1. CASE phase[c] = "off"
  <2>1. inbox'[c] = <<>> /\ subs'[c] = {}
    BY <1>1, BroadcastOffline DEF Queues, Gates, Guarded
  <2>2. DOMAIN <<>> = {}
    OBVIOUS
  <2> QED BY <2>1, <2>2 DEF Quotes, CaughtUp
<1>2. CASE phase[c] # "off"
  <2>1. PICK q : q = inbox[c] \o msgs
    OBVIOUS
  <2>2. PICK L : L = Len(inbox[c])
    OBVIOUS
  <2>4. /\ \E k : Passed(c, q, k)
        /\ L \in Nat /\ Len(q) = L + l
        /\ \A i \in 1..l : q[L + i] = msgs[i]
    BY <1>2, <2>1, <2>2, BroadcastPasses
  <2>5. PICK k : Passed(c, q, k)
    BY <2>4
  <2>6. PICK m \in Nat : /\ m = Len(q) - k /\ DOMAIN inbox'[c] = 1..m /\ k \in Nat
                         /\ \A j \in 1..m : inbox'[c][j] = q[j + k]
    BY <2>5, PassedLength
  <2>7. m + k = L + l /\ m > 0
    <3>1. Len(q) > 0
      BY <2>4
    <3>2. q # <<>>
      BY <3>1
    <3> QED BY <3>2, <2>4, <2>5, <2>6 DEF Passed
  <2>8. m \in DOMAIN inbox'[c] /\ inbox'[c][m] = msgs[l]
    <3>1. m \in 1..m /\ l \in 1..l
      BY <2>6, <2>7
    <3> QED BY <3>1, <2>4, <2>6, <2>7
  <2>9. ASSUME NEW i \in DOMAIN inbox'[c], LastQuote(inbox'[c], i)
        PROVE  inbox'[c][i].top = top'
    <3>1. ~(m > i)
      BY <2>8, <2>9 DEF LastQuote
    <3>2. i = m
      BY <3>1, <2>6
    <3> QED BY <3>2, <2>8
  <2> QED BY <2>8, <2>9 DEF Quotes, CaughtUp, LastQuote
<1> QED BY <1>1, <1>2

LEMMA EventKeepsQuoting ==
  ASSUME Gates, Queues, Quoting, NEW f \in Event, NEW t,
         ApplyFails(f, t) \/ \E changed \in BOOLEAN : ApplyEvent(f, t, changed)
  PROVE  Quoting'
<1>0. top' = t /\ UNCHANGED <<last_bbo, shows, heard, subs>>
  BY DEF ApplyFails, ApplyEvent, clientVars
<1>e. PICK m : m = EventMsg(f)
  OBVIOUS
<1>f. /\ m.kind # "Bbo" /\ EventMsgs(f) \in Seq({m})
      /\ \A i \in DOMAIN EventMsgs(f) : EventMsgs(f)[i].kind # "Bbo"
  <2>1. m.kind # "Bbo"
    BY <1>e DEF EventMsg, Event
  <2>2. EventMsgs(f) \in Seq({m})
    BY <1>e, EventBatchMsgs
  <2>3. \A i \in DOMAIN EventMsgs(f) : EventMsgs(f)[i] = m
    BY <2>2
  <2> QED BY <2>1, <2>2, <2>3
<1>1. ASSUME Broadcast(EventMsgs(f)), untold' \in BOOLEAN, ~untold' => ~untold /\ t = top
      PROVE  Quoting'
  <2>1. ASSUME ~untold', NEW c \in Session PROVE Quotes(c)'
    <3>1. Quotes(c) /\ top' = top
      BY <1>0, <1>1, <2>1 DEF Quoting
    <3> QED BY <3>1, <1>0, <1>1, <1>f, OtherKeepsQuotes
  <2>2. Remembered'
    BY <1>0, <1>1 DEF Quoting, Remembered
  <2> QED BY <2>1, <2>2 DEF Quoting
<1>2. CASE ApplyFails(f, t)
  <2>1. Broadcast(EventMsgs(f)) /\ untold' = (untold \/ t # top)
    BY <1>2 DEF ApplyFails
  <2> QED BY <2>1, <1>1 DEF Quoting, Remembered
<1>3. CASE ApplyEvent(f, t, FALSE)
  <2>1. Broadcast(EventMsgs(f) \o <<>>) /\ untold' = untold /\ t = top
    BY <1>3 DEF ApplyEvent
  <2>2. EventMsgs(f) \o <<>> = EventMsgs(f)
    BY <1>f
  <2> QED BY <2>1, <2>2, <1>1 DEF Quoting, Remembered
<1>4. CASE ApplyEvent(f, t, TRUE) /\ ~Wants("Bbo")
  <2>1. untold' = TRUE
    BY <1>4 DEF ApplyEvent
  <2> QED BY <2>1, <1>0 DEF Quoting, Remembered
<1>5. CASE ApplyEvent(f, t, TRUE) /\ Wants("Bbo")
  <2>1. PICK b : b = BboMsg(t)
    OBVIOUS
  <2>2. Broadcast(EventMsgs(f) \o <<b>>) /\ untold' = FALSE
    BY <1>5, <2>1 DEF ApplyEvent, BboMsgs
  <2>3. b.kind = "Bbo" /\ b.top = t
    BY <2>1 DEF BboMsg
  <2>4. PICK msgs : msgs = EventMsgs(f) \o <<b>>
    OBVIOUS
  <2>5. PICK E : E = EventMsgs(f)
    OBVIOUS
  <2>6. E \in Seq({m, b}) /\ <<b>> \in Seq({m, b})
    BY <2>5, <1>f
  <2>7. /\ msgs \in Seq({m, b}) /\ Len(msgs) = Len(E) + 1 /\ Len(E) \in Nat
        /\ msgs[Len(E) + 1] = b
    BY <2>4, <2>5, <2>6
  <2>8. PICK l \in Nat : l = Len(msgs) /\ l > 0 /\ msgs[l] = b
    BY <2>7
  <2>9. \A c \in Session : Quotes(c)'
    BY <2>2, <2>3, <2>4, <2>7, <2>8, <1>0, QuoteIsCurrent
  <2>10. Remembered'
    BY <2>2, <1>0 DEF Quoting, Remembered
  <2> QED BY <2>9, <2>10 DEF Quoting
<1> QED BY <1>2, <1>3, <1>4, <1>5

LEMMA RecvKeepsQuoting ==
  ASSUME Queues, Quoting, NEW c \in Session, Recv(c)
  PROVE  Quoting'
<1>h. PICK m : m = Head(inbox[c])
  OBVIOUS
<1>g. PICK bbo \in BOOLEAN : bbo = (m.kind = "Bbo" /\ "bbo" \in subs[c])
  OBVIOUS
<1>0. /\ inbox[c] # <<>> /\ inbox' = [inbox EXCEPT ![c] = Tail(@)]
      /\ last_bbo' = IF bbo /\ SendsBbo(c, m) THEN [last_bbo EXCEPT ![c] = {Quoted(m.top)}] ELSE last_bbo
      /\ shows' = IF bbo /\ SendsBbo(c, m) THEN [shows EXCEPT ![c] = {Quoted(m.top)}] ELSE shows
      /\ heard' = IF bbo THEN [heard EXCEPT ![c] = TRUE] ELSE heard
      /\ missed' = IF bbo THEN [missed EXCEPT ![c] = {x \in @ : x.kind # "Bbo"}] ELSE missed
      /\ subs' = subs /\ top' = top /\ untold' = untold
  BY <1>h, <1>g DEF Recv, bookVars
<1>t. /\ DOMAIN inbox = Session /\ DOMAIN missed = Session /\ shows = [e \in Session |-> shows[e]]
      /\ last_bbo = shows /\ heard \in [Session -> BOOLEAN]
  BY DEF Queues, Quoting, Remembered
<1>1. Remembered'
  <2>1. last_bbo' = shows' /\ shows' = [e \in Session |-> shows'[e]] /\ heard' \in [Session -> BOOLEAN]
    BY <1>0, <1>t
  <2>2. \A e \in Session : heard'[e] => "bbo" \in subs[e]
    BY <1>0, <1>g, <1>t DEF Quoting, Remembered
  <2> QED BY <2>1, <2>2, <1>0 DEF Quoting, Remembered
<1>2. PICK L \in Nat : /\ DOMAIN inbox[c] = 1..L /\ L > 0
                       /\ DOMAIN inbox'[c] = 1..(L - 1)
                       /\ \A i \in 1..(L - 1) : inbox'[c][i] = inbox[c][i + 1]
                       /\ m = inbox[c][1]
  <2>1. PICK M : inbox[c] \in Seq(M)
    BY DEF Queues, IsSeq
  <2>2. inbox'[c] = Tail(inbox[c])
    BY <1>0, <1>t
  <2>3. Len(inbox[c]) \in Nat /\ Len(inbox[c]) > 0
    BY <2>1, <1>0
  <2> QED BY <2>1, <2>2, <2>3, <1>0, <1>h
<1>3. ASSUME ~untold, NEW e \in Session, e # c
      PROVE  Quotes(e)'
  <2>1. inbox'[e] = inbox[e] /\ missed'[e] = missed[e] /\ shows'[e] = shows[e] /\ heard'[e] = heard[e]
    BY <1>0, <1>3, <1>t
  <2> QED BY <2>1, <1>0, <1>3 DEF Quoting, Quotes, LastQuote, CaughtUp, Quoted
<1>4. ASSUME ~untold
      PROVE  Quotes(c)'
  <2>q. Quotes(c)
    BY <1>4 DEF Quoting
  <2>1. ASSUME NEW i \in DOMAIN inbox'[c], LastQuote(inbox'[c], i)
        PROVE  inbox'[c][i].top = top
    <3>1. i + 1 \in DOMAIN inbox[c] /\ inbox'[c][i] = inbox[c][i + 1]
      BY <1>2
    <3>2. ASSUME NEW j \in DOMAIN inbox[c], j > i + 1
          PROVE  inbox[c][j].kind # "Bbo"
      <4>1. j - 1 \in DOMAIN inbox'[c] /\ j - 1 > i /\ (j - 1) + 1 = j
        BY <3>2, <1>2
      <4>2. inbox'[c][j - 1] = inbox[c][j]
        BY <4>1, <1>2
      <4> QED BY <4>1, <4>2, <2>1 DEF LastQuote
    <3>3. LastQuote(inbox[c], i + 1)
      BY <3>1, <3>2, <2>1 DEF LastQuote
    <3> QED BY <3>1, <3>3, <2>q DEF Quotes
  <2>2. ASSUME CaughtUp(c)' PROVE shows'[c] = {Quoted(top)}
    <3>1. \A i \in 1..(L - 1) : inbox[c][i + 1].kind # "Bbo"
      BY <2>2, <1>2 DEF CaughtUp
    <3>2. ASSUME NEW j \in DOMAIN inbox[c], j > 1
          PROVE  inbox[c][j].kind # "Bbo"
      <4>1. j - 1 \in 1..(L - 1) /\ (j - 1) + 1 = j
        BY <3>2, <1>2
      <4> QED BY <4>1, <3>1
    <3>3. "bbo" \in subs[c]
      BY <2>2, <1>0 DEF CaughtUp
    <3>4. CASE m.kind = "Bbo"
      <4>0. bbo
        BY <3>3, <3>4, <1>g, Zenon
      <4>1. bbo /\ 1 \in DOMAIN inbox[c]
        BY <4>0, <1>2
      <4>2. LastQuote(inbox[c], 1)
        BY <3>2, <3>4, <1>2 DEF LastQuote
      <4>3. m.top = top
        BY <4>1, <4>2, <1>2, <2>q DEF Quotes
      <4>4. CASE SendsBbo(c, m)
        BY <4>1, <4>3, <4>4, <1>0, <1>t
      <4>5. CASE ~SendsBbo(c, m)
        <5>1. last_bbo[c] = {Quoted(m.top)}
          BY <4>5 DEF SendsBbo
        <5> QED BY <5>1, <4>3, <4>5, <1>0, <1>t
      <4> QED BY <4>4, <4>5
    <3>5. CASE m.kind # "Bbo"
      <4>1. ~bbo
        BY <3>5, <1>g
      <4>2. \A j \in DOMAIN inbox[c] : inbox[c][j].kind # "Bbo"
        <5>1. \A j \in DOMAIN inbox[c] : j = 1 \/ j > 1
          BY <1>2
        <5> QED BY <5>1, <3>2, <3>5, <1>2
      <4>3. CaughtUp(c)
        BY <4>1, <4>2, <2>2, <1>0 DEF CaughtUp
      <4> QED BY <4>1, <4>3, <1>0, <2>q DEF Quotes
    <3> QED BY <3>4, <3>5
  <2> QED BY <2>1, <2>2, <1>0 DEF Quotes, LastQuote, Quoted
<1> QED BY <1>0, <1>1, <1>3, <1>4 DEF Quoting

LEMMA QuotingNext == Gates /\ Queues /\ Quoting /\ [Next]_vars => Quoting'
<1> SUFFICES ASSUME Gates, Queues, Quoting, [Next]_vars PROVE Quoting'
  OBVIOUS
<1>t. /\ last_bbo = shows /\ shows = [e \in Session |-> shows[e]]
      /\ heard \in [Session -> BOOLEAN] /\ untold \in BOOLEAN
      /\ \A c \in Session : heard[c] => "bbo" \in subs[c]
  BY DEF Quoting, Remembered
<1>s. subs \in [Session -> SUBSET Channel] /\ DOMAIN inbox = Session /\ DOMAIN missed = Session
  BY DEF Gates, Control, Queues
<1>1. ASSUME NEW f \in Event, NEW t, ApplyFails(f, t) \/ \E changed \in BOOLEAN : ApplyEvent(f, t, changed)
      PROVE  Quoting'
  BY <1>1, EventKeepsQuoting
<1>2. CASE TakeFill /\ Wants("Trades")
  <2>0. UNCHANGED <<top, untold, last_bbo, shows, heard, subs>>
    BY <1>2 DEF TakeFill, bookVars, clientVars
  <2>1. PICK m : m = TradeMsg(tid(fills + 1))
    OBVIOUS
  <2>2. PICK msgs \in Seq({m}) : Broadcast(msgs)
    BY <1>2, <2>1, FillBroadcasts
  <2>3. m.kind = "Trades"
    BY <2>1 DEF TradeMsg
  <2>4. \A i \in DOMAIN msgs : msgs[i].kind # "Bbo"
    <3>1. \A i \in DOMAIN msgs : msgs[i] = m
      OBVIOUS
    <3> QED BY <3>1, <2>3
  <2>5. ASSUME ~untold, NEW c \in Session PROVE Quotes(c)'
    <3>1. Quotes(c)
      BY <2>5 DEF Quoting
    <3> QED BY <3>1, <2>0, <2>2, <2>4, OtherKeepsQuotes
  <2> QED BY <2>0, <2>5 DEF Quoting, Remembered
<1>3. ASSUME UNCHANGED <<top, untold, inbox, missed, last_bbo, shows, heard>>,
             \A c \in Session : "bbo" \in subs'[c] <=> "bbo" \in subs[c]
      PROVE  Quoting'
  <2>1. Remembered'
    BY <1>3 DEF Quoting, Remembered
  <2>2. ASSUME ~untold, NEW c \in Session PROVE Quotes(c)'
    <3>1. Quotes(c)
      BY <2>2 DEF Quoting
    <3> QED BY <3>1, <1>3 DEF Quotes, LastQuote, CaughtUp, Quoted
  <2> QED BY <2>1, <2>2, <1>3 DEF Quoting
<1>4. CASE (TakeFill /\ ~Wants("Trades")) \/ FillLost \/ (\E c \in Session : Connect(c)) \/ UNCHANGED vars
  <2>1. UNCHANGED <<top, untold, inbox, missed, last_bbo, shows, heard, subs>>
    BY <1>4 DEF TakeFill, FillLost, Connect, vars, bookVars, sessionVars, clientVars, historyVars
  <2> QED BY <2>1, <1>3
<1>5. ASSUME NEW t, Install(t)
      PROVE  Quoting'
  <2>1. untold' = TRUE /\ UNCHANGED <<last_bbo, shows, heard, subs>>
    BY <1>5 DEF Install, sessionVars, clientVars
  <2> QED BY <2>1 DEF Quoting, Remembered
<1>6. CASE BuildStep
  <2>1. UNCHANGED <<top, untold, inbox, missed, last_bbo, shows, heard>>
    BY <1>6, BuildFrame
  <2>2. \A c \in Session : "bbo" \in subs'[c] <=> "bbo" \in subs[c]
    BY <1>6, BuildFrame
  <2> QED BY <2>1, <2>2, <1>3
<1>7. ASSUME NEW c \in Session, NEW ch \in Channel, Subscribe(c, ch)
      PROVE  Quoting'
  <2>0. /\ subs' = [subs EXCEPT ![c] = @ \cup {ch}] /\ ch \notin subs[c]
        /\ UNCHANGED <<top, untold, inbox, missed, last_bbo, shows, heard>>
    BY <1>7 DEF Subscribe, bookVars
  <2>1. CASE ch # "bbo"
    BY <2>0, <2>1, <1>3, <1>s
  <2>2. CASE ch = "bbo"
    <3>1. ~heard[c]
      BY <2>0, <2>2, <1>t
    <3>2. \A e \in Session : e # c => subs'[e] = subs[e]
      BY <2>0, <1>s
    <3>3. Remembered'
      BY <2>0, <3>1, <3>2, <1>t DEF Remembered
    <3>4. ASSUME ~untold, NEW e \in Session PROVE Quotes(e)'
      <4>1. Quotes(e)
        BY <3>4 DEF Quoting
      <4> QED BY <4>1, <3>1, <3>2, <2>0 DEF Quotes, LastQuote, CaughtUp, Quoted
    <3> QED BY <3>3, <3>4, <2>0 DEF Quoting
  <2> QED BY <2>1, <2>2
<1>8. ASSUME NEW c \in Session, NEW ch \in Channel, Unsubscribe(c, ch)
      PROVE  Quoting'
  <2>0. /\ subs' = [subs EXCEPT ![c] = @ \ {ch}]
        /\ UNCHANGED <<top, untold, inbox, missed>>
        /\ last_bbo' = [last_bbo EXCEPT ![c] = ForgetBbo(c, ch)]
        /\ shows' = IF ch = "bbo" THEN [shows EXCEPT ![c] = {}] ELSE shows
        /\ heard' = IF ch = "bbo" THEN [heard EXCEPT ![c] = FALSE] ELSE heard
    BY <1>8 DEF Unsubscribe, bookVars
  <2>1. CASE ch # "bbo"
    <3>1. last_bbo' = last_bbo
      BY <2>0, <2>1, <1>t DEF ForgetBbo
    <3> QED BY <3>1, <2>0, <2>1, <1>3, <1>s
  <2>2. CASE ch = "bbo"
    <3>1. /\ last_bbo' = shows' /\ shows' = [e \in Session |-> shows'[e]] /\ heard' \in [Session -> BOOLEAN]
          /\ ~heard'[c]
      <4>1. ForgetBbo(c, ch) = {}
        BY <2>2 DEF ForgetBbo
      <4>2. last_bbo' = [shows EXCEPT ![c] = {}] /\ shows' = [shows EXCEPT ![c] = {}]
        BY <4>1, <2>0, <2>2, <1>t, Zenon
      <4> QED BY <4>2, <2>0, <2>2, <1>t
    <3>2. \A e \in Session : e # c => subs'[e] = subs[e] /\ shows'[e] = shows[e] /\ heard'[e] = heard[e]
      BY <2>0, <1>s, <1>t
    <3>3. Remembered'
      BY <2>0, <3>1, <3>2, <1>t DEF Remembered
    <3>4. ASSUME ~untold, NEW e \in Session PROVE Quotes(e)'
      <4>1. Quotes(e)
        BY <3>4 DEF Quoting
      <4> QED BY <4>1, <3>1, <3>2, <2>0 DEF Quotes, LastQuote, CaughtUp, Quoted
    <3> QED BY <3>3, <3>4, <2>0 DEF Quoting
  <2> QED BY <2>1, <2>2
<1>9. ASSUME NEW c \in Session, Recv(c)
      PROVE  Quoting'
  BY <1>9, RecvKeepsQuoting
<1>10. ASSUME NEW c \in Session, Disconnect(c)
       PROVE  Quoting'
  <2>0. /\ subs' = [subs EXCEPT ![c] = {}] /\ inbox' = [inbox EXCEPT ![c] = <<>>]
        /\ last_bbo' = [last_bbo EXCEPT ![c] = {}] /\ shows' = [shows EXCEPT ![c] = {}]
        /\ missed' = [missed EXCEPT ![c] = {}] /\ heard' = [heard EXCEPT ![c] = FALSE]
        /\ top' = top /\ untold' = untold
    BY <1>10 DEF Disconnect, bookVars
  <2>1. /\ last_bbo' = shows' /\ shows' = [e \in Session |-> shows'[e]] /\ heard' \in [Session -> BOOLEAN]
        /\ ~heard'[c] /\ inbox'[c] = <<>>
    BY <2>0, <1>s, <1>t
  <2>2. \A e \in Session : e # c => /\ subs'[e] = subs[e] /\ shows'[e] = shows[e] /\ heard'[e] = heard[e]
                                    /\ inbox'[e] = inbox[e] /\ missed'[e] = missed[e]
    BY <2>0, <1>s, <1>t
  <2>3. Remembered'
    BY <2>0, <2>1, <2>2, <1>t DEF Remembered
  <2>4. Quotes(c)'
    <3>1. DOMAIN <<>> = {}
      OBVIOUS
    <3> QED BY <3>1, <2>1 DEF Quotes, CaughtUp
  <2>5. ASSUME ~untold, NEW e \in Session, e # c PROVE Quotes(e)'
    <3>1. Quotes(e)
      BY <2>5 DEF Quoting
    <3> QED BY <3>1, <2>0, <2>2, <2>5 DEF Quotes, LastQuote, CaughtUp, Quoted
  <2> QED BY <2>0, <2>3, <2>4, <2>5 DEF Quoting
<1> QED BY <1>1, <1>2, <1>4, <1>5, <1>6, <1>7, <1>8, <1>9, <1>10 DEF Next, BuildStep, Event

THEOREM QuotingInvariance == Spec => []Quoting
BY QuotingInit, QuotingNext, GatesInvariance, QueuesInvariance, PTL DEF Spec

\* A bbo client that has heard a quote and is not behind shows the top of the book
\* (send_ws_data_from_bbo and its dedup key), unless the top last changed with a failed
\* batch, with an install or with nobody subscribed.
THEOREM BboIsCurrentThm == Spec => []BboIsCurrent
<1>1. Quoting => BboIsCurrent
  BY DEF Quoting, Quotes, CaughtUp, BboIsCurrent
<1> QED BY <1>1, QuotingInvariance, PTL
=============================================================================
