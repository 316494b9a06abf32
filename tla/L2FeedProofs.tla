---------------------------- MODULE L2FeedProofs ----------------------------
(***************************************************************************)
(* The l2Book and l2Diff channels, for any coins, books, subscriptions and *)
(* connections and any depth of the broadcast channel: what is cached is   *)
(* fresh, what a session that has caught up shows is what was broadcast,   *)
(* no coin that is built is refused, and the registry of shapes is exact.  *)
(***************************************************************************)
EXTENDS L2Feed, TLAPS, FiniteSetTheorems

-----------------------------------------------------------------------------
(* The inductive invariants.                                               *)

Clients ==
  /\ subs \in [Session -> SUBSET Subscription]
  /\ guards \in [Session -> SUBSET Shape]
  /\ refs \in [Shape -> Nat]

\* The connections that hold a guard for a shape.
Holders(shape) == {s \in Session : shape \in guards[s]}

\* A guard is held for each shape that a subscription needs, and counted.
Registry ==
  /\ Clients
  /\ \A s \in Session : guards[s] = {sub.shape : sub \in subs[s]}
  /\ \A shape \in Shape : refs[shape] = Cardinality(Holders(shape))

Listener ==
  /\ book \in [Coin -> UNION {Books[c] : c \in Coin}]
  /\ DOMAIN cache \subseteq Coin /\ pending \subseteq Coin
  /\ needs_resync \in BOOLEAN
  /\ \A c \in DOMAIN cache : DOMAIN cache[c] = lastActive \cup {Base}

Fresh == Listener /\ CacheIsFresh

\* A function whose domain is an initial segment.
IsSeq(q) == \E M : q \in Seq(M)

Channels ==
  /\ status \in [Session -> {"off", "joining", "on"}]
  /\ DOMAIN inbox = Session /\ \A s \in Session : IsSeq(inbox[s])
  /\ lagged \in [Session -> BOOLEAN] /\ missed \in [Session -> BOOLEAN]
  /\ force_full \in [Session -> BOOLEAN]
  /\ DOMAIN universe = Session /\ DOMAIN shows = Session
  /\ DOMAIN last_l2 = Session /\ DOMAIN last_l2_diff = Session
  /\ \A s \in Session : status[s] = "off" => inbox[s] = <<>>

\* Does message i tell of the coin set, and no later one?
LastToTell(q, i) ==
  /\ q[i].universe # {}
  /\ \A j \in DOMAIN q : j > i => q[j].universe = {}

NoneTells(q) == \A i \in DOMAIN q : q[i].universe = {}

\* The last broadcast coin set has every cached coin, and so does the session's own
\* when none is on its way.
Told ==
  \A s \in Session :
    /\ \A i \in DOMAIN inbox[s] : LastToTell(inbox[s], i) => DOMAIN cache \subseteq UNION inbox[s][i].universe
    /\ status[s] = "on" /\ ~missed[s] /\ NoneTells(inbox[s]) => DOMAIN cache \subseteq universe[s]

\* What the broadcast m says of the snapshots before it.
Follows(snapshots, m) ==
  /\ \A c \in DOMAIN m.l2_snapshots \ m.dirty :
        c \in DOMAIN snapshots /\ m.l2_snapshots[c] = snapshots[c]
  /\ \A c \in DOMAIN m.previous :
        c \in DOMAIN snapshots /\ m.previous[c] = snapshots[c]

\* What it says of itself.
Coherent(m) ==
  /\ DOMAIN m.previous \subseteq m.dirty
  /\ \A c \in DOMAIN m.previous \cap DOMAIN m.l2_snapshots :
        DOMAIN m.l2_snapshots[c] = DOMAIN m.previous[c]

\* Each broadcast follows the one before, and the last one is what these snapshots are,
\* unless an install has dropped them.
Linked(q, snapshots) ==
  /\ \A i \in DOMAIN q : Coherent(q[i])
  /\ \A i \in DOMAIN q : i > 1 => Follows(q[i - 1].l2_snapshots, q[i])
  /\ q # <<>> => snapshots = q[Len(q)].l2_snapshots \/ snapshots = EmptyBook

\* Every channel ends in the cache.
Chain == \A s \in Session : Linked(inbox[s], cache)

\* A client shows what these snapshots have, for what they have.
Agrees(shown, snapshots) ==
  \A sub \in DOMAIN shown :
    sub.coin \in DOMAIN snapshots /\ sub.shape \in DOMAIN snapshots[sub.coin]
      => shown[sub] = Export(snapshots, sub)

\* A client shows what m leaves alone and what m is the change of.
AgreesBefore(shown, m) ==
  \A sub \in DOMAIN shown :
    /\ sub.coin \in DOMAIN m.l2_snapshots \ m.dirty /\ sub.shape \in DOMAIN m.l2_snapshots[sub.coin]
         => shown[sub] = Export(m.l2_snapshots, sub)
    /\ sub.coin \in DOMAIN m.previous /\ sub.shape \in DOMAIN m.previous[sub.coin]
         => shown[sub] = Export(m.previous, sub)

\* A session's books are those its client shows, one channel at a time.
Served(s) ==
  /\ DOMAIN shows[s] \subseteq subs[s]
  /\ status[s] # "on" => DOMAIN shows[s] = {}
  /\ DOMAIN last_l2[s] = {sub \in DOMAIN shows[s] : sub.kind = "l2Book"}
  /\ \A sub \in DOMAIN last_l2[s] : last_l2[s][sub] = shows[s][sub]
  /\ last_l2_diff[s] = {sub \in DOMAIN shows[s] : sub.kind = "l2Diff"}

AllServed == \A s \in Session : Served(s)

\* A session that has lost nothing, or has made up for it, is ready for what comes next.
InStep(s) ==
  ~lagged[s] /\ ~force_full[s] =>
    IF inbox[s] = <<>> THEN Agrees(shows[s], cache) ELSE AgreesBefore(shows[s], inbox[s][1])

Showing == \A s \in Session : InStep(s)

-----------------------------------------------------------------------------
(* The registry of shapes.                                                 *)

\* A subscription has a shape, a coin and a channel.
LEMMA SubscriptionType ==
  ASSUME NEW sub \in Subscription
  PROVE  sub.shape \in Shape /\ sub.coin \in Coin /\ sub.kind \in Kind
BY FeedAssumption DEF Shape

\* What a client asks for is a subscription.
LEMMA WantedType ==
  ASSUME NEW s \in Session, NEW sub \in Wanted[s]
  PROVE  sub \in Subscription
BY DEF Subscription

LEMMA HoldersFinite ==
  ASSUME NEW shape
  PROVE  IsFiniteSet(Holders(shape))
BY FeedAssumption, FS_Subset DEF Holders

\* A shape that one more connection holds has one holder more; likewise one less.
LEMMA HolderJoins ==
  ASSUME NEW H, IsFiniteSet(H), NEW s, s \notin H
  PROVE  Cardinality(H \cup {s}) = Cardinality(H) + 1
BY FS_AddElement

LEMMA HolderLeaves ==
  ASSUME NEW H, IsFiniteSet(H), NEW s \in H
  PROVE  Cardinality(H \ {s}) = Cardinality(H) - 1 /\ Cardinality(H) - 1 \in Nat
<1>1. IsFiniteSet(H \ {s}) /\ Cardinality(H \ {s}) = Cardinality(H) - 1
  BY FS_RemoveElement
<1>2. Cardinality(H \ {s}) \in Nat
  BY <1>1, FS_CardinalityType
<1> QED BY <1>1, <1>2

LEMMA RegistryInit == Init => Registry
<1> SUFFICES ASSUME Init PROVE Registry
  OBVIOUS
<1>1. Clients
  BY DEF Init, Clients
<1>2. \A shape : Holders(shape) = {}
  BY DEF Init, Holders
<1> QED BY <1>1, <1>2, FS_EmptySet DEF Init, Registry

LEMMA SubscribeKeepsRegistry ==
  ASSUME Registry, NEW s \in Session, NEW sub \in Wanted[s], Subscribe(s, sub)
  PROVE  Registry'
<1>0. /\ subs' = [subs EXCEPT ![s] = @ \cup {sub}]
      /\ guards' = [guards EXCEPT ![s] = @ \cup {sub.shape}]
      /\ refs' = IF sub.shape \in guards[s] THEN refs ELSE [refs EXCEPT ![sub.shape] = @ + 1]
  BY DEF Subscribe
<1>t. /\ subs \in [Session -> SUBSET Subscription]
      /\ guards \in [Session -> SUBSET Shape]
      /\ refs \in [Shape -> Nat]
  BY DEF Registry, Clients
<1>s. sub \in Subscription /\ sub.shape \in Shape
  BY WantedType, SubscriptionType
<1>1. Clients'
  BY <1>0, <1>t, <1>s DEF Clients
<1>2. \A t \in Session : guards'[t] = {other.shape : other \in subs'[t]}
  BY <1>0, <1>t, <1>s DEF Registry
<1>3. ASSUME NEW shape \in Shape
      PROVE  refs'[shape] = Cardinality(Holders(shape)')
  <2>1. refs[shape] = Cardinality(Holders(shape)) /\ IsFiniteSet(Holders(shape))
    BY HoldersFinite DEF Registry
  <2>2. CASE shape = sub.shape /\ sub.shape \notin guards[s]
    <3>1. s \notin Holders(shape) /\ Holders(shape)' = Holders(shape) \cup {s}
      BY <2>2, <1>0, <1>t DEF Holders
    <3>2. Cardinality(Holders(shape)') = Cardinality(Holders(shape)) + 1
      BY <3>1, <2>1, HolderJoins
    <3> QED BY <3>2, <2>1, <2>2, <1>0, <1>t
  <2>3. CASE ~(shape = sub.shape /\ sub.shape \notin guards[s])
    <3>1. Holders(shape)' = Holders(shape)
      BY <2>3, <1>0, <1>t DEF Holders
    <3> QED BY <3>1, <2>1, <2>3, <1>0, <1>t
  <2> QED BY <2>2, <2>3
<1> QED BY <1>1, <1>2, <1>3 DEF Registry

LEMMA UnsubscribeKeepsRegistry ==
  ASSUME Registry, NEW s \in Session, NEW sub \in Wanted[s], Unsubscribe(s, sub)
  PROVE  Registry'
<1>0. /\ sub \in subs[s]
      /\ subs' = [subs EXCEPT ![s] = @ \ {sub}]
      /\ StillUsed(s, sub) => guards' = guards /\ refs' = refs
      /\ ~StillUsed(s, sub) => /\ guards' = [guards EXCEPT ![s] = @ \ {sub.shape}]
                               /\ refs' = [refs EXCEPT ![sub.shape] = @ - 1]
  BY DEF Unsubscribe
<1>t. /\ subs \in [Session -> SUBSET Subscription]
      /\ guards \in [Session -> SUBSET Shape]
      /\ refs \in [Shape -> Nat]
      /\ \A t \in Session : guards[t] = {other.shape : other \in subs[t]}
  BY DEF Registry, Clients
<1>s. sub \in Subscription /\ sub.shape \in Shape
  BY WantedType, SubscriptionType
<1>1. CASE StillUsed(s, sub)
  <2>1. \A t \in Session : guards'[t] = {other.shape : other \in subs'[t]}
    BY <1>0, <1>1, <1>t DEF StillUsed
  <2>2. Clients'
    BY <1>0, <1>1, <1>t DEF Clients
  <2>3. \A shape \in Shape : Holders(shape)' = Holders(shape)
    BY <1>0, <1>1 DEF Holders
  <2> QED BY <2>1, <2>2, <2>3, <1>0, <1>1 DEF Registry
<1>2. CASE ~StillUsed(s, sub)
  <2>1. \A t \in Session : guards'[t] = {other.shape : other \in subs'[t]}
    BY <1>0, <1>2, <1>t DEF StillUsed
  <2>2. s \in Holders(sub.shape) /\ Holders(sub.shape)' = Holders(sub.shape) \ {s}
    BY <1>0, <1>2, <1>t DEF Holders
  <2>3. /\ Cardinality(Holders(sub.shape)') = Cardinality(Holders(sub.shape)) - 1
        /\ Cardinality(Holders(sub.shape)) - 1 \in Nat
    BY <2>2, HoldersFinite, HolderLeaves
  <2>4. refs[sub.shape] = Cardinality(Holders(sub.shape))
    BY <1>s DEF Registry
  <2>5. Clients'
    BY <1>0, <1>2, <1>t, <1>s, <2>3, <2>4 DEF Clients
  <2>6. ASSUME NEW shape \in Shape
        PROVE  refs'[shape] = Cardinality(Holders(shape)')
    <3>1. CASE shape = sub.shape
      BY <3>1, <2>3, <2>4, <1>0, <1>2, <1>t
    <3>2. CASE shape # sub.shape
      <4>1. Holders(shape)' = Holders(shape)
        BY <3>2, <1>0, <1>2, <1>t DEF Holders
      <4> QED BY <4>1, <3>2, <1>0, <1>2, <1>t DEF Registry
    <3> QED BY <3>1, <3>2
  <2> QED BY <2>1, <2>5, <2>6 DEF Registry
<1> QED BY <1>1, <1>2

LEMMA DisconnectKeepsRegistry ==
  ASSUME Registry, NEW s \in Session, Disconnect(s)
  PROVE  Registry'
<1>0. /\ subs' = [subs EXCEPT ![s] = {}]
      /\ guards' = [guards EXCEPT ![s] = {}]
      /\ refs' = [shape \in Shape |-> IF shape \in guards[s] THEN refs[shape] - 1 ELSE refs[shape]]
  BY DEF Disconnect
<1>t. /\ subs \in [Session -> SUBSET Subscription]
      /\ guards \in [Session -> SUBSET Shape]
      /\ refs \in [Shape -> Nat]
  BY DEF Registry, Clients
<1>1. \A t \in Session : guards'[t] = {other.shape : other \in subs'[t]}
  BY <1>0, <1>t DEF Registry
<1>2. ASSUME NEW shape \in Shape
      PROVE  refs'[shape] = Cardinality(Holders(shape)') /\ refs'[shape] \in Nat
  <2>1. refs[shape] = Cardinality(Holders(shape)) /\ IsFiniteSet(Holders(shape))
    BY HoldersFinite DEF Registry
  <2>2. CASE shape \in guards[s]
    <3>1. s \in Holders(shape) /\ Holders(shape)' = Holders(shape) \ {s}
      BY <2>2, <1>0, <1>t DEF Holders
    <3>2. /\ Cardinality(Holders(shape)') = Cardinality(Holders(shape)) - 1
          /\ Cardinality(Holders(shape)) - 1 \in Nat
      BY <3>1, <2>1, HolderLeaves
    <3> QED BY <3>2, <2>1, <2>2, <1>0
  <2>3. CASE shape \notin guards[s]
    <3>1. Holders(shape)' = Holders(shape)
      BY <2>3, <1>0, <1>t DEF Holders
    <3> QED BY <3>1, <2>1, <2>3, <1>0, <1>t
  <2> QED BY <2>2, <2>3
<1>3. Clients'
  <2>1. refs' \in [Shape -> Nat]
    BY <1>0, <1>2
  <2> QED BY <2>1, <1>0, <1>t DEF Clients
<1> QED BY <1>1, <1>2, <1>3 DEF Registry

\* The steps that change neither subscriptions nor guards.
LEMMA RegistryUntouched ==
  ASSUME Registry, UNCHANGED <<subs, guards, refs>>
  PROVE  Registry'
<1>1. \A shape : Holders(shape)' = Holders(shape)
  BY DEF Holders
<1> QED BY <1>1 DEF Registry, Clients

LEMMA RegistryNext == Registry /\ [Next]_vars => Registry'
<1> SUFFICES ASSUME Registry, [Next]_vars PROVE Registry'
  OBVIOUS
<1>1. CASE BookChanges \/ BatchFails \/ finish_install \/ flush_l2_if_due
  <2>1. UNCHANGED <<subs, guards, refs>>
    BY <1>1 DEF BookChanges, BatchFails, finish_install, flush_l2_if_due, sessionVars
  <2> QED BY <2>1, RegistryUntouched
<1>2. ASSUME NEW s \in Session, SessionStep(s)
      PROVE  Registry'
  <2>1. CASE Connect(s) \/ ReadUniverse(s) \/ RecvLagged(s) \/ RecvSnapshot(s)
    <3>1. UNCHANGED <<subs, guards, refs>>
      BY <2>1 DEF Connect, ReadUniverse, RecvLagged, RecvSnapshot
    <3> QED BY <3>1, RegistryUntouched
  <2>2. CASE Disconnect(s)
    BY <2>2, DisconnectKeepsRegistry
  <2>3. CASE Client(s)
    BY <2>3, SubscribeKeepsRegistry, UnsubscribeKeepsRegistry DEF Client
  <2> QED BY <1>2, <2>1, <2>2, <2>3 DEF SessionStep
<1>3. CASE UNCHANGED vars
  BY <1>3, RegistryUntouched DEF vars, sessionVars
<1> QED BY <1>1, <1>2, <1>3 DEF Next

THEOREM RegistryInvariance == Spec => []Registry
BY RegistryInit, RegistryNext, PTL DEF Spec

\* A shape is counted once for each connection with a subscription that needs it, on
\* either channel (receive_client_message, L2ParamGuard): it is built while someone
\* needs it, and no longer.
THEOREM RegistryExactThm == Spec => []RegistryExact
<1>1. Registry => RegistryExact
  <2> SUFFICES ASSUME Registry, NEW shape \in Shape
               PROVE  refs[shape] = Cardinality({s \in Session : \E sub \in subs[s] : sub.shape = shape})
    BY DEF RegistryExact
  <2>1. Holders(shape) = {s \in Session : \E sub \in subs[s] : sub.shape = shape}
    BY DEF Registry, Holders
  <2> QED BY <2>1 DEF Registry
<1> QED BY <1>1, RegistryInvariance, PTL

-----------------------------------------------------------------------------
(* What is cached is fresh.                                                *)

\* The book of no coin has no entry.
LEMMA EmptyIsEmpty == DOMAIN EmptyBook = {}
BY DEF EmptyBook

\* What a flush starts from is the cache, where it is not empty.
LEMMA KeptIsCached ==
  /\ DOMAIN KeptCache \subseteq DOMAIN cache
  /\ \A c \in DOMAIN KeptCache : KeptCache[c] = cache[c] /\ Active = lastActive
BY EmptyIsEmpty DEF KeptCache

\* A coin is rebuilt only if its book is there, and always if it is dirty as well.
LEMMA ComputedIsPresent ==
  ToCompute \subseteq Present /\ pending \cap Present \subseteq ToCompute
BY DEF ToCompute, First

\* The views of a coin are those of the shapes wanted, and of the raw book.
LEMMA ViewsOfShapes ==
  ASSUME NEW b, NEW active
  PROVE  /\ DOMAIN compute_l2_variants_for_coin(b, active) = active \cup {Base}
         /\ compute_l2_variants_for_coin(b, active) = compute_l2_variants_for_coin(b, active \cup {Base})
BY DEF compute_l2_variants_for_coin

\* What a flush leaves in the cache, coin by coin.
LEMMA RebuiltViews ==
  /\ DOMAIN Rebuilt \subseteq Present /\ DOMAIN Rebuilt \subseteq DOMAIN KeptCache \cup ToCompute
  /\ \A c \in DOMAIN Rebuilt :
       IF c \in ToCompute
       THEN Rebuilt[c] = compute_l2_variants_for_coin(book[c], Active)
       ELSE c \in DOMAIN KeptCache /\ c \notin pending /\ Rebuilt[c] = KeptCache[c]
BY ComputedIsPresent DEF Rebuilt

\* A book replaced by one the coin may have.
LEMMA ChangedBookType ==
  ASSUME NEW f \in [Coin -> UNION {Books[d] : d \in Coin}], NEW c \in Coin, NEW b \in Books[c]
  PROVE  [f EXCEPT ![c] = b] \in [Coin -> UNION {Books[d] : d \in Coin}]
<1>1. b \in UNION {Books[d] : d \in Coin}
  OBVIOUS
<1>2. ASSUME NEW S, f \in [Coin -> S], b \in S
      PROVE  [f EXCEPT ![c] = b] \in [Coin -> S]
  BY <1>2
<1> QED BY <1>1, <1>2

LEMMA FreshInit == Init => Fresh
BY FeedAssumption, EmptyIsEmpty DEF Init, Fresh, Listener, CacheIsFresh

LEMMA FlushIsFresh ==
  ASSUME Fresh, flush_l2_if_due
  PROVE  Fresh'
<1>0. /\ cache' = Rebuilt /\ lastActive' = Active /\ pending' = {}
      /\ book' = book /\ needs_resync' = needs_resync
  BY DEF flush_l2_if_due
<1>1. ASSUME NEW c \in DOMAIN Rebuilt
      PROVE  DOMAIN Rebuilt[c] = Active \cup {Base}
  <2>1. CASE c \in ToCompute
    BY <2>1, RebuiltViews, ViewsOfShapes
  <2>2. CASE c \notin ToCompute
    <3>1. c \in DOMAIN KeptCache /\ Rebuilt[c] = KeptCache[c]
      BY <2>2, RebuiltViews
    <3>2. c \in DOMAIN cache /\ KeptCache[c] = cache[c] /\ Active = lastActive
      BY <3>1, KeptIsCached
    <3> QED BY <3>1, <3>2 DEF Fresh, Listener
  <2> QED BY <2>1, <2>2
<1>2. Listener'
  <2>1. DOMAIN Rebuilt \subseteq Coin
    BY RebuiltViews DEF Present
  <2> QED BY <1>0, <1>1, <2>1 DEF Fresh, Listener
<1>3. ASSUME ~needs_resync, NEW c \in DOMAIN Rebuilt
      PROVE  Rebuilt[c] = compute_l2_variants_for_coin(book[c], DOMAIN Rebuilt[c])
  <2>1. CASE c \in ToCompute
    BY <2>1, <1>1, RebuiltViews, ViewsOfShapes
  <2>2. CASE c \notin ToCompute
    <3>1. c \in DOMAIN cache \ pending /\ Rebuilt[c] = cache[c]
      BY <2>2, RebuiltViews, KeptIsCached
    <3> QED BY <3>1, <1>3 DEF Fresh, CacheIsFresh
  <2> QED BY <2>1, <2>2
<1>4. CacheIsFresh'
  <2>1. ~needs_resync => \A c \in DOMAIN cache' \ pending' :
            cache'[c] = compute_l2_variants_for_coin(book[c], DOMAIN cache'[c])
    BY <1>0, <1>3
  <2> QED BY <2>1, <1>0 DEF CacheIsFresh
<1> QED BY <1>2, <1>4 DEF Fresh

LEMMA FreshNext == Fresh /\ [Next]_vars => Fresh'
<1> SUFFICES ASSUME Fresh, [Next]_vars PROVE Fresh'
  OBVIOUS
<1>t. Listener /\ CacheIsFresh
  BY DEF Fresh
<1>1. CASE BookChanges
  <2>1. PICK c \in Coin : \E b \in Books[c] :
           book' = [book EXCEPT ![c] = b] /\ pending' = pending \cup {c}
    BY <1>1 DEF BookChanges, Conflate
  <2>2. UNCHANGED <<cache, lastActive, needs_resync>>
    BY <1>1 DEF BookChanges
  <2>b. book' \in [Coin -> UNION {Books[d] : d \in Coin}]
    BY <2>1, <1>t, ChangedBookType DEF Listener
  <2>3. Listener'
    BY <2>1, <2>2, <2>b, <1>t DEF Listener
  <2>4. CacheIsFresh'
    BY <2>1, <2>2, <1>t DEF CacheIsFresh, Listener
  <2> QED BY <2>3, <2>4 DEF Fresh
<1>2. CASE BatchFails
  <2>1. PICK c \in Coin : \E b \in Books[c] : book' = [book EXCEPT ![c] = b]
    BY <1>2 DEF BatchFails
  <2>2. needs_resync' = TRUE /\ UNCHANGED <<pending, cache, lastActive>>
    BY <1>2 DEF BatchFails
  <2>b. book' \in [Coin -> UNION {Books[d] : d \in Coin}]
    BY <2>1, <1>t, ChangedBookType DEF Listener
  <2> QED BY <2>b, <2>2, <1>t DEF Fresh, Listener, CacheIsFresh
<1>3. CASE finish_install
  <2>1. book' \in [Coin -> UNION {Books[c] : c \in Coin}]
    BY <1>3 DEF finish_install
  <2>2. needs_resync' = FALSE /\ pending' = {} /\ cache' = EmptyBook
    BY <1>3 DEF finish_install
  <2> QED BY <2>1, <2>2, EmptyIsEmpty DEF Fresh, Listener, CacheIsFresh
<1>4. CASE flush_l2_if_due
  BY <1>4, FlushIsFresh
<1>5. CASE (\E s \in Session : SessionStep(s)) \/ UNCHANGED vars
  <2>1. UNCHANGED listenerVars
    BY <1>5 DEF SessionStep, Connect, ReadUniverse, Disconnect, Client, Subscribe, Unsubscribe,
                RecvLagged, RecvSnapshot, vars
  <2> QED BY <2>1, <1>t DEF listenerVars, Fresh, Listener, CacheIsFresh
<1> QED BY <1>1, <1>2, <1>3, <1>4, <1>5 DEF Next

THEOREM FreshInvariance == Spec => []Fresh
BY FreshInit, FreshNext, PTL DEF Spec

\* In a book that is not marked, a coin's cached views are those of its book unless the
\* coin waits to be rebuilt: no batch between two flushes, failed batch, install, change of
\* the shapes wanted or backfill leaves a stale view behind (flush_l2_if_due,
\* compute_l2_snapshots_incremental).
THEOREM CacheIsFreshThm == Spec => []CacheIsFresh
<1>1. Fresh => CacheIsFresh
  BY DEF Fresh
<1> QED BY <1>1, FreshInvariance, PTL

-----------------------------------------------------------------------------
(* The channels.                                                           *)

\* A channel with one broadcast more: the oldest is dropped when it is full.
Pushed(q, m) == Append(IF Len(q) = ChannelDepth THEN Tail(q) ELSE q, m)

\* How many are dropped.
Dropped(q) == IF Len(q) = ChannelDepth THEN 1 ELSE 0

LEMMA EmptyIsSeq == IsSeq(<<>>) /\ DOMAIN <<>> = {}
<1>1. <<>> \in Seq({})
  OBVIOUS
<1> QED BY <1>1 DEF IsSeq

LEMMA SeqShape ==
  ASSUME NEW q, IsSeq(q)
  PROVE  Len(q) \in Nat /\ DOMAIN q = 1..Len(q) /\ (q = <<>> <=> Len(q) = 0)
<1>1. PICK M : q \in Seq(M)
  BY DEF IsSeq
<1> QED BY <1>1

LEMMA TailShape ==
  ASSUME NEW q, IsSeq(q), q # <<>>
  PROVE  /\ IsSeq(Tail(q)) /\ Len(Tail(q)) = Len(q) - 1 /\ Len(q) > 0
         /\ Head(q) = q[1] /\ 1 \in DOMAIN q
         /\ \A i \in 1..(Len(q) - 1) : Tail(q)[i] = q[i + 1]
<1>1. PICK M : q \in Seq(M)
  BY DEF IsSeq
<1>2. Tail(q) \in Seq(M)
  BY <1>1
<1>3. IsSeq(Tail(q))
  BY <1>2 DEF IsSeq
<1> QED BY <1>1, <1>3

LEMMA AppendShape ==
  ASSUME NEW q, IsSeq(q), NEW m
  PROVE  /\ IsSeq(Append(q, m)) /\ Len(Append(q, m)) = Len(q) + 1
         /\ Append(q, m)[Len(q) + 1] = m
         /\ \A i \in 1..Len(q) : Append(q, m)[i] = q[i]
<1>1. PICK M : q \in Seq(M)
  BY DEF IsSeq
<1>2. q \in Seq(M \cup {m}) /\ m \in M \cup {m}
  <2>1. DOMAIN q = 1..Len(q) /\ Len(q) \in Nat /\ \A i \in 1..Len(q) : q[i] \in M
    BY <1>1
  <2>2. q \in [1..Len(q) -> M \cup {m}]
    BY <1>1, <2>1
  <2> QED BY <2>1, <2>2
<1>3. Append(q, m) \in Seq(M \cup {m})
  BY <1>2
<1>4. IsSeq(Append(q, m))
  BY <1>3 DEF IsSeq
<1> QED BY <1>2, <1>4

\* A push keeps what it does not drop, in place, and puts the broadcast last.
LEMMA PushShape ==
  ASSUME NEW q, IsSeq(q), NEW m
  PROVE  /\ IsSeq(Pushed(q, m)) /\ Len(Pushed(q, m)) = Len(q) - Dropped(q) + 1
         /\ Dropped(q) \in {0, 1} /\ Dropped(q) <= Len(q)
         /\ Pushed(q, m)[Len(q) - Dropped(q) + 1] = m
         /\ \A i \in 1..(Len(q) - Dropped(q)) : Pushed(q, m)[i] = q[i + Dropped(q)]
<1>1. CASE Len(q) = ChannelDepth
  <2>1. q # <<>>
    BY <1>1, SeqShape, FeedAssumption
  <2>2. PICK t : t = Tail(q)
    OBVIOUS
  <2>3. IsSeq(t) /\ Len(t) = Len(q) - 1 /\ \A i \in 1..(Len(q) - 1) : t[i] = q[i + 1]
    BY <2>1, <2>2, TailShape
  <2>4. Pushed(q, m) = Append(t, m) /\ Dropped(q) = 1
    BY <1>1, <2>2 DEF Pushed, Dropped
  <2>5. /\ IsSeq(Append(t, m)) /\ Len(Append(t, m)) = Len(t) + 1
        /\ Append(t, m)[Len(t) + 1] = m
        /\ \A i \in 1..Len(t) : Append(t, m)[i] = t[i]
    BY <2>3, AppendShape
  <2>6. Len(q) \in Nat /\ Len(q) > 0
    BY <2>1, TailShape, SeqShape
  <2> QED BY <2>3, <2>4, <2>5, <2>6
<1>2. CASE Len(q) # ChannelDepth
  <2>1. Pushed(q, m) = Append(q, m) /\ Dropped(q) = 0
    BY <1>2 DEF Pushed, Dropped
  <2>2. /\ IsSeq(Append(q, m)) /\ Len(Append(q, m)) = Len(q) + 1
        /\ Append(q, m)[Len(q) + 1] = m
        /\ \A i \in 1..Len(q) : Append(q, m)[i] = q[i]
    BY AppendShape
  <2>3. Len(q) \in Nat
    BY SeqShape
  <2> QED BY <2>1, <2>2, <2>3
<1> QED BY <1>1, <1>2

\* The message of a flush.
Message ==
  [l2_snapshots |-> Rebuilt,
   previous |-> Restrict(KeptCache, pending \cap DOMAIN KeptCache),
   dirty |-> Recomputed,
   universe |-> IF CoinSetChanged THEN {Present} ELSE {}]

\* What a flush does to a session's channel.
LEMMA FlushPushes ==
  ASSUME flush_l2_if_due, NEW s \in Session, s \in Connected
  PROVE  /\ inbox'[s] = Pushed(inbox[s], Message)
         /\ lagged'[s] = (lagged[s] \/ Dropped(inbox[s]) = 1)
         /\ missed'[s] = (missed[s] \/ (Dropped(inbox[s]) = 1 /\ Head(inbox[s]).universe # {}))
<1>1. Broadcast(Message)
  BY DEF flush_l2_if_due, Message
<1> QED BY <1>1 DEF Broadcast, Pushed, Dropped

\* A connection that is not there is sent nothing.
LEMMA FlushSpares ==
  ASSUME flush_l2_if_due, NEW s \in Session, s \notin Connected
  PROVE  /\ inbox'[s] = inbox[s]
         /\ lagged'[s] = (lagged[s] \/ FALSE) /\ missed'[s] = (missed[s] \/ FALSE)
<1>1. Broadcast(Message)
  BY DEF flush_l2_if_due, Message
<1> QED BY <1>1 DEF Broadcast

LEMMA FlushTypes ==
  ASSUME flush_l2_if_due
  PROVE  DOMAIN inbox' = Session /\ lagged' \in [Session -> BOOLEAN] /\ missed' \in [Session -> BOOLEAN]
<1>1. Broadcast(Message)
  BY DEF flush_l2_if_due, Message
<1> QED BY <1>1 DEF Broadcast

LEMMA ChannelsInit == Init => Channels
BY EmptyIsSeq DEF Init, Channels

LEMMA FlushKeepsChannels ==
  ASSUME Channels, flush_l2_if_due
  PROVE  Channels'
<1>0. UNCHANGED <<status, force_full, universe, shows, last_l2, last_l2_diff>>
  BY DEF flush_l2_if_due
<1>1. ASSUME NEW s \in Session
      PROVE  IsSeq(inbox'[s]) /\ (status'[s] = "off" => inbox'[s] = <<>>)
  <2>1. CASE s \in Connected
    <3>1. inbox'[s] = Pushed(inbox[s], Message) /\ IsSeq(inbox[s])
      BY <2>1, FlushPushes DEF Channels
    <3>2. IsSeq(Pushed(inbox[s], Message))
      BY <3>1, PushShape
    <3> QED BY <3>1, <3>2, <2>1, <1>0 DEF Connected
  <2>2. CASE s \notin Connected
    BY <2>2, <1>0, FlushSpares DEF Channels
  <2> QED BY <2>1, <2>2
<1> QED BY <1>0, <1>1, FlushTypes DEF Channels

LEMMA ReceiveKeepsChannels ==
  ASSUME Channels, NEW s \in Session, RecvSnapshot(s)
  PROVE  Channels'
<1>0. /\ inbox[s] # <<>> /\ status[s] = "on"
      /\ inbox' = [inbox EXCEPT ![s] = Tail(@)]
      /\ missed' = [missed EXCEPT ![s] = @ /\ Head(inbox[s]).universe = {}]
      /\ force_full' = [force_full EXCEPT ![s] = FALSE]
      /\ UNCHANGED <<status, lagged>>
      /\ DOMAIN universe' = DOMAIN universe /\ DOMAIN shows' = DOMAIN shows
      /\ DOMAIN last_l2' = DOMAIN last_l2 /\ DOMAIN last_l2_diff' = DOMAIN last_l2_diff
  BY DEF RecvSnapshot
<1>1. IsSeq(inbox[s]) /\ DOMAIN inbox = Session
  BY DEF Channels
<1>2. IsSeq(Tail(inbox[s]))
  BY <1>0, <1>1, TailShape
<1>3. ASSUME NEW t \in Session
      PROVE  IsSeq(inbox'[t]) /\ (status'[t] = "off" => inbox'[t] = <<>>)
  BY <1>0, <1>1, <1>2 DEF Channels
<1>4. missed' \in [Session -> BOOLEAN]
  BY <1>0 DEF Channels
<1> QED BY <1>0, <1>1, <1>3, <1>4 DEF Channels

\* The other steps of a session leave the channel as it is, or end it.
LEMMA SessionKeepsChannels ==
  ASSUME Channels, NEW s \in Session,
         Connect(s) \/ ReadUniverse(s) \/ Disconnect(s) \/ Client(s) \/ RecvLagged(s)
  PROVE  Channels'
<1>1. CASE Connect(s)
  BY <1>1 DEF Connect, Channels
<1>2. CASE ReadUniverse(s)
  <2>1. missed' \in [Session -> BOOLEAN]
    BY <1>2 DEF ReadUniverse, Channels
  <2>2. \A t \in Session : status'[t] = "off" => inbox'[t] = <<>>
    BY <1>2 DEF ReadUniverse, Channels
  <2> QED BY <1>2, <2>1, <2>2 DEF ReadUniverse, Channels
<1>3. CASE Disconnect(s)
  <2>1. \A t \in Session : IsSeq(inbox'[t]) /\ (status'[t] = "off" => inbox'[t] = <<>>)
    BY <1>3, EmptyIsSeq DEF Disconnect, Channels
  <2> QED BY <1>3, <2>1 DEF Disconnect, Channels
<1>4. CASE Client(s)
  <2>1. /\ UNCHANGED <<status, inbox, lagged, missed, force_full, universe>>
        /\ DOMAIN shows' = DOMAIN shows /\ DOMAIN last_l2' = DOMAIN last_l2
        /\ DOMAIN last_l2_diff' = DOMAIN last_l2_diff
    BY <1>4 DEF Client, Subscribe, Unsubscribe, Forget
  <2> QED BY <2>1 DEF Channels
<1>5. CASE RecvLagged(s)
  BY <1>5 DEF RecvLagged, Channels
<1> QED BY <1>1, <1>2, <1>3, <1>4, <1>5

LEMMA ChannelsNext == Channels /\ [Next]_vars => Channels'
<1> SUFFICES ASSUME Channels, [Next]_vars PROVE Channels'
  OBVIOUS
<1>1. CASE BookChanges \/ BatchFails \/ finish_install \/ UNCHANGED vars
  <2>1. UNCHANGED sessionVars
    BY <1>1 DEF BookChanges, BatchFails, finish_install, vars
  <2> QED BY <2>1 DEF sessionVars, Channels
<1>2. CASE flush_l2_if_due
  BY <1>2, FlushKeepsChannels
<1>3. ASSUME NEW s \in Session, SessionStep(s)
      PROVE  Channels'
  BY <1>3, ReceiveKeepsChannels, SessionKeepsChannels DEF SessionStep
<1> QED BY <1>1, <1>2, <1>3 DEF Next

THEOREM ChannelsInvariance == Spec => []Channels
BY ChannelsInit, ChannelsNext, PTL DEF Spec

-----------------------------------------------------------------------------
(* The coin set a session knows.                                           *)

\* If the broadcast does not tell, what told last still does.
LEMMA PushedTells ==
  ASSUME NEW q, IsSeq(q), NEW m, m.universe = {},
         NEW i \in DOMAIN Pushed(q, m), LastToTell(Pushed(q, m), i)
  PROVE  \E k \in DOMAIN q : LastToTell(q, k) /\ q[k] = Pushed(q, m)[i]
<1>1. PICK p, d : p = Pushed(q, m) /\ d = Dropped(q)
  OBVIOUS
<1>2. /\ Len(p) = Len(q) - d + 1 /\ d \in {0, 1} /\ d <= Len(q) /\ p[Len(q) - d + 1] = m
      /\ \A j \in 1..(Len(q) - d) : p[j] = q[j + d]
      /\ DOMAIN p = 1..Len(p) /\ DOMAIN q = 1..Len(q) /\ Len(q) \in Nat
  BY <1>1, PushShape, SeqShape
<1>3. p[i].universe # {} /\ i \in 1..Len(p) /\ \A j \in 1..Len(p) : j > i => p[j].universe = {}
  BY <1>1, <1>2 DEF LastToTell
<1>4. i # Len(q) - d + 1
  BY <1>2, <1>3
<1>5. i \in 1..(Len(q) - d)
  BY <1>2, <1>3, <1>4
<1>6. i + d \in DOMAIN q /\ q[i + d] = p[i]
  <2>1. i + d \in 1..Len(q)
    <3>1. d \in Nat /\ i \in Nat /\ i >= 1 /\ i <= Len(q) - d
      BY <1>2, <1>5
    <3> QED BY <3>1, <1>2
  <2>2. q[i + d] = p[i]
    BY <1>2, <1>5
  <2> QED BY <2>1, <2>2, <1>2
<1>7. ASSUME NEW j \in DOMAIN q, j > i + d
      PROVE  q[j].universe = {}
  <2>1. j - d \in 1..(Len(q) - d) /\ j - d > i /\ (j - d) + d = j
    BY <1>2, <1>5, <1>7
  <2>2. p[j - d] = q[j]
    BY <2>1, <1>2
  <2>3. p[j - d].universe = {}
    BY <2>1, <1>2, <1>3
  <2> QED BY <2>2, <2>3
<1>8. LastToTell(q, i + d)
  BY <1>3, <1>6, <1>7 DEF LastToTell
<1> QED BY <1>1, <1>6, <1>8

\* If none tells and the one dropped did not, none did before.
LEMMA PushedSilent ==
  ASSUME NEW q, IsSeq(q), NEW m, NoneTells(Pushed(q, m)),
         Dropped(q) = 1 => Head(q).universe = {}
  PROVE  NoneTells(q) /\ m.universe = {}
<1>1. PICK p, d : p = Pushed(q, m) /\ d = Dropped(q)
  OBVIOUS
<1>2. /\ Len(p) = Len(q) - d + 1 /\ d \in {0, 1} /\ d <= Len(q) /\ p[Len(q) - d + 1] = m
      /\ \A j \in 1..(Len(q) - d) : p[j] = q[j + d]
      /\ DOMAIN p = 1..Len(p) /\ DOMAIN q = 1..Len(q) /\ Len(q) \in Nat
  BY <1>1, PushShape, SeqShape
<1>3. \A j \in 1..Len(p) : p[j].universe = {}
  BY <1>1, <1>2 DEF NoneTells
<1>4. m.universe = {}
  <2>1. Len(q) - d + 1 \in 1..Len(p)
    BY <1>2
  <2> QED BY <2>1, <1>2, <1>3
<1>5. ASSUME NEW j \in DOMAIN q
      PROVE  q[j].universe = {}
  <2>1. CASE j > d
    <3>1. j - d \in 1..(Len(q) - d) /\ (j - d) + d = j /\ j - d \in 1..Len(p)
      BY <2>1, <1>2
    <3> QED BY <3>1, <1>2, <1>3
  <2>2. CASE ~(j > d)
    <3>1. d = 1 /\ j = 1
      BY <2>2, <1>2
    <3>2. q # <<>>
      BY <1>2, SeqShape
    <3>3. Head(q) = q[1]
      BY <3>2, TailShape
    <3> QED BY <3>1, <3>3, <1>1
  <2> QED BY <2>1, <2>2
<1> QED BY <1>4, <1>5 DEF NoneTells

\* When the head is taken, what told last still does, or the head did.
LEMMA TakenTells ==
  ASSUME NEW q, IsSeq(q), q # <<>>
  PROVE  /\ \A i \in DOMAIN Tail(q) : LastToTell(Tail(q), i) =>
              \E k \in DOMAIN q : LastToTell(q, k) /\ q[k] = Tail(q)[i]
         /\ NoneTells(Tail(q)) /\ Head(q).universe # {} => LastToTell(q, 1)
         /\ NoneTells(Tail(q)) /\ Head(q).universe = {} => NoneTells(q)
<1>1. PICK t : t = Tail(q)
  OBVIOUS
<1>2. /\ Len(t) = Len(q) - 1 /\ Len(q) > 0 /\ Head(q) = q[1] /\ Len(q) \in Nat
      /\ DOMAIN t = 1..(Len(q) - 1) /\ DOMAIN q = 1..Len(q)
      /\ \A i \in 1..(Len(q) - 1) : t[i] = q[i + 1]
  BY <1>1, TailShape, SeqShape
<1>3. ASSUME NEW j \in 2..Len(q)
      PROVE  j - 1 \in DOMAIN t /\ t[j - 1] = q[j]
  BY <1>2
<1>4. ASSUME NEW i \in DOMAIN t, LastToTell(t, i)
      PROVE  \E k \in DOMAIN q : LastToTell(q, k) /\ q[k] = t[i]
  <2>1. i + 1 \in DOMAIN q /\ q[i + 1] = t[i]
    BY <1>2
  <2>2. ASSUME NEW j \in DOMAIN q, j > i + 1
        PROVE  q[j].universe = {}
    <3>1. j \in 2..Len(q) /\ j - 1 > i
      BY <2>2, <1>2
    <3>2. j - 1 \in DOMAIN t /\ t[j - 1] = q[j]
      BY <3>1, <1>3
    <3> QED BY <3>1, <3>2, <1>4 DEF LastToTell
  <2>3. LastToTell(q, i + 1)
    BY <2>1, <2>2, <1>4 DEF LastToTell
  <2> QED BY <2>1, <2>3
<1>5. ASSUME NoneTells(t)
      PROVE  \A j \in DOMAIN q : j > 1 => q[j].universe = {}
  <2> SUFFICES ASSUME NEW j \in DOMAIN q, j > 1
               PROVE  q[j].universe = {}
    OBVIOUS
  <2>1. j \in 2..Len(q)
    BY <1>2
  <2>2. j - 1 \in DOMAIN t /\ t[j - 1] = q[j]
    BY <2>1, <1>3
  <2> QED BY <2>2, <1>5 DEF NoneTells
<1>6. NoneTells(t) /\ Head(q).universe # {} => LastToTell(q, 1)
  BY <1>2, <1>5 DEF LastToTell
<1>7. ASSUME NoneTells(t), Head(q).universe = {}
      PROVE  NoneTells(q)
  <2> SUFFICES ASSUME NEW j \in DOMAIN q
               PROVE  q[j].universe = {}
    BY DEF NoneTells
  <2>1. j = 1 \/ j > 1
    BY <1>2
  <2> QED BY <2>1, <1>2, <1>5, <1>7
<1> QED BY <1>1, <1>4, <1>6, <1>7

LEMMA ToldInit == Init => Told
BY EmptyIsEmpty DEF Init, Told

\* A flush that says nothing of the coin set has added no coin; one that does says all.
LEMMA MessageTells ==
  /\ DOMAIN Rebuilt \subseteq Present
  /\ Message.universe = {} => DOMAIN Rebuilt \subseteq DOMAIN cache
  /\ Message.universe # {} => Message.universe = {Present}
<1>1. CASE CoinSetChanged
  BY <1>1, RebuiltViews DEF Message
<1>2. CASE ~CoinSetChanged
  <2>1. ToCompute \subseteq DOMAIN KeptCache
    BY <1>2 DEF CoinSetChanged
  <2>2. DOMAIN Rebuilt \subseteq DOMAIN cache
    BY <2>1, RebuiltViews, KeptIsCached
  <2> QED BY <1>2, <2>2, RebuiltViews DEF Message
<1> QED BY <1>1, <1>2

LEMMA FlushTells ==
  ASSUME Channels, Told, flush_l2_if_due
  PROVE  Told'
<1>0. cache' = Rebuilt /\ UNCHANGED <<status, universe>>
  BY DEF flush_l2_if_due
<1> SUFFICES ASSUME NEW s \in Session
             PROVE  /\ \A i \in DOMAIN inbox'[s] : LastToTell(inbox'[s], i) =>
                         DOMAIN Rebuilt \subseteq UNION inbox'[s][i].universe
                    /\ status[s] = "on" /\ ~missed'[s] /\ NoneTells(inbox'[s]) => DOMAIN Rebuilt \subseteq universe[s]
  BY <1>0 DEF Told
<1>1. CASE s \notin Connected
  <2>1. inbox'[s] = <<>> /\ status[s] # "on"
    BY <1>1, FlushSpares DEF Channels, Connected
  <2> QED BY <2>1, EmptyIsSeq
<1>2. CASE s \in Connected
  <2> DEFINE q == inbox[s]
             p == Pushed(inbox[s], Message)
             n == Len(q) - Dropped(q) + 1
  <2>1. inbox'[s] = p /\ missed'[s] = (missed[s] \/ (Dropped(q) = 1 /\ Head(q).universe # {}))
    BY <1>2, FlushPushes
  <2>2. IsSeq(q)
    BY DEF Channels
  <2>3. ASSUME NEW i \in DOMAIN p, LastToTell(p, i)
        PROVE  DOMAIN Rebuilt \subseteq UNION p[i].universe
    <3>1. CASE Message.universe = {}
      <4>1. PICK k \in DOMAIN q : LastToTell(q, k) /\ q[k] = p[i]
        BY <3>1, <2>2, <2>3, PushedTells
      <4>2. DOMAIN cache \subseteq UNION q[k].universe
        BY <4>1 DEF Told
      <4> QED BY <4>1, <4>2, <3>1, MessageTells
    <3>2. CASE Message.universe # {}
      <4>1. IsSeq(p) /\ Len(p) = n /\ p[n] = Message
        BY <2>2, PushShape
      <4>2. DOMAIN p = 1..n /\ n \in Nat
        BY <4>1, SeqShape
      <4>3. n \in DOMAIN p /\ ~(n > i)
        <5>1. i \in 1..n
          BY <4>2
        <5>2. n \in 1..n /\ (n > i => p[n].universe = {})
          BY <5>1, <4>2, <2>3 DEF LastToTell
        <5> QED BY <5>2, <4>1, <4>2, <3>2
      <4>4. i = n
        <5> HIDE DEF n
        <5> QED BY <4>2, <4>3
      <4> QED BY <4>1, <4>4, <3>2, MessageTells
    <3> QED BY <3>1, <3>2
  <2>4. ASSUME status[s] = "on", ~missed'[s], NoneTells(p)
        PROVE  DOMAIN Rebuilt \subseteq universe[s]
    <3>1. missed[s] \in BOOLEAN
      BY DEF Channels
    <3>2. ~missed[s] /\ (Dropped(q) = 1 => Head(q).universe = {})
      BY <2>1, <2>4, <3>1
    <3>3. NoneTells(q) /\ Message.universe = {}
      BY <2>2, <2>4, <3>2, PushedSilent
    <3>4. DOMAIN cache \subseteq universe[s]
      BY <3>2, <3>3, <2>4 DEF Told
    <3> QED BY <3>3, <3>4, MessageTells
  <2> QED BY <2>1, <2>3, <2>4
<1> QED BY <1>1, <1>2

LEMMA ReceiveTells ==
  ASSUME Channels, Told, NEW r \in Session, RecvSnapshot(r)
  PROVE  Told'
<1>0. /\ inbox[r] # <<>> /\ status[r] = "on"
      /\ inbox' = [inbox EXCEPT ![r] = Tail(@)]
      /\ universe' = [universe EXCEPT ![r] =
                        IF Head(inbox[r]).universe = {} THEN @ ELSE UNION Head(inbox[r]).universe]
      /\ missed' = [missed EXCEPT ![r] = @ /\ Head(inbox[r]).universe = {}]
      /\ UNCHANGED <<status, cache>>
  BY DEF RecvSnapshot, listenerVars
<1> SUFFICES ASSUME NEW s \in Session
             PROVE  /\ \A i \in DOMAIN inbox'[s] : LastToTell(inbox'[s], i) =>
                         DOMAIN cache \subseteq UNION inbox'[s][i].universe
                    /\ status[s] = "on" /\ ~missed'[s] /\ NoneTells(inbox'[s]) => DOMAIN cache \subseteq universe'[s]
  BY <1>0 DEF Told
<1>t. /\ DOMAIN inbox = Session /\ DOMAIN universe = Session /\ missed \in [Session -> BOOLEAN]
      /\ IsSeq(inbox[r])
  BY DEF Channels
<1>1. CASE s # r
  BY <1>0, <1>1, <1>t DEF Told
<1>2. CASE s = r
  <2> DEFINE q == inbox[r]
  <2>1. inbox'[s] = Tail(q)
    BY <1>0, <1>2, <1>t
  <2>2. /\ \A i \in DOMAIN Tail(q) : LastToTell(Tail(q), i) =>
             \E k \in DOMAIN q : LastToTell(q, k) /\ q[k] = Tail(q)[i]
        /\ NoneTells(Tail(q)) /\ Head(q).universe # {} => LastToTell(q, 1)
        /\ NoneTells(Tail(q)) /\ Head(q).universe = {} => NoneTells(q)
    BY <1>0, <1>t, TakenTells
  <2>3. Head(q) = q[1] /\ 1 \in DOMAIN q
    BY <1>0, <1>t, TailShape
  <2>4. \A k \in DOMAIN q : LastToTell(q, k) => DOMAIN cache \subseteq UNION q[k].universe
    BY DEF Told
  <2>5. status[r] = "on" /\ ~missed[r] /\ NoneTells(q) => DOMAIN cache \subseteq universe[r]
    BY DEF Told
  <2>6. ASSUME ~missed'[s], NoneTells(Tail(q))
        PROVE  DOMAIN cache \subseteq universe'[s]
    <3>1. CASE Head(q).universe = {}
      <4>1. missed'[s] = (missed[s] /\ TRUE) /\ universe'[s] = universe[r]
        BY <3>1, <1>0, <1>2, <1>t
      <4> QED BY <4>1, <3>1, <2>2, <2>5, <2>6, <1>0, <1>2, <1>t
    <3>2. CASE Head(q).universe # {}
      <4>1. universe'[s] = UNION Head(q).universe
        BY <3>2, <1>0, <1>2, <1>t
      <4> QED BY <4>1, <3>2, <2>2, <2>3, <2>4, <2>6
    <3> QED BY <3>1, <3>2
  <2>7. ASSUME NEW i \in DOMAIN Tail(q), LastToTell(Tail(q), i)
        PROVE  DOMAIN cache \subseteq UNION Tail(q)[i].universe
    BY <2>2, <2>4, <2>7
  <2> QED BY <2>1, <2>6, <2>7
<1> QED BY <1>1, <1>2

LEMMA ToldNext == Channels /\ Told /\ [Next]_vars => Told'
<1> SUFFICES ASSUME Channels, Told, [Next]_vars PROVE Told'
  OBVIOUS
<1>1. CASE BookChanges \/ BatchFails \/ UNCHANGED vars
  <2>1. UNCHANGED <<sessionVars, cache>>
    BY <1>1 DEF BookChanges, BatchFails, vars, listenerVars
  <2> QED BY <2>1 DEF sessionVars, Told
<1>2. CASE finish_install
  <2>1. UNCHANGED sessionVars /\ cache' = EmptyBook
    BY <1>2 DEF finish_install
  <2> QED BY <2>1, EmptyIsEmpty DEF sessionVars, Told
<1>3. CASE flush_l2_if_due
  BY <1>3, FlushTells
<1>4. ASSUME NEW s \in Session, Connect(s) \/ Client(s) \/ RecvLagged(s)
      PROVE  Told'
  <2>1. /\ UNCHANGED <<inbox, missed, universe, cache>>
        /\ \A t \in Session : status'[t] = "on" => status[t] = "on"
    BY <1>4 DEF Connect, Client, Subscribe, Unsubscribe, RecvLagged, listenerVars, Channels
  <2> QED BY <2>1 DEF Told
<1>5. ASSUME NEW s \in Session, ReadUniverse(s)
      PROVE  Told'
  <2>1. UNCHANGED <<inbox, cache>>
    BY <1>5 DEF ReadUniverse, listenerVars
  <2>2. ASSUME NEW t \in Session, status'[t] = "on", ~missed'[t], NoneTells(inbox[t])
        PROVE  DOMAIN cache \subseteq universe'[t]
    <3>1. CASE t # s
      BY <3>1, <2>2, <1>5 DEF ReadUniverse, Channels, Told
    <3>2. CASE t = s
      <4>1. ~(DOMAIN cache \ Present # {}) /\ universe'[t] = Present
        BY <3>2, <2>2, <1>5 DEF ReadUniverse, Channels
      <4> QED BY <4>1
    <3> QED BY <3>1, <3>2
  <2> QED BY <2>1, <2>2 DEF Told
<1>6. ASSUME NEW s \in Session, Disconnect(s)
      PROVE  Told'
  <2>1. /\ UNCHANGED cache
        /\ \A t \in Session : t # s => inbox'[t] = inbox[t] /\ missed'[t] = missed[t]
                                       /\ universe'[t] = universe[t] /\ status'[t] = status[t]
        /\ inbox'[s] = <<>> /\ status'[s] = "off"
    BY <1>6 DEF Disconnect, listenerVars, Channels
  <2>2. ASSUME NEW t \in Session
        PROVE  /\ \A i \in DOMAIN inbox'[t] : LastToTell(inbox'[t], i) =>
                    DOMAIN cache \subseteq UNION inbox'[t][i].universe
               /\ status'[t] = "on" /\ ~missed'[t] /\ NoneTells(inbox'[t]) => DOMAIN cache \subseteq universe'[t]
    BY <2>1, EmptyIsSeq DEF Told
  <2> QED BY <2>1, <2>2 DEF Told
<1>7. ASSUME NEW s \in Session, RecvSnapshot(s)
      PROVE  Told'
  BY <1>7, ReceiveTells
<1> QED BY <1>1, <1>2, <1>3, <1>4, <1>5, <1>6, <1>7 DEF Next, SessionStep

THEOREM ToldInvariance == Spec => []Told
BY ToldInit, ToldNext, ChannelsInvariance, PTL DEF Spec

\* A session that has read every broadcast, and has not lost one that told of the coins,
\* accepts subscriptions on every coin the listener has built, whatever happened between
\* the making of its receiver and its reading of the coins (handle_socket,
\* InternalMessage::Snapshot).
THEOREM UniverseFollowsThm == Spec => []UniverseFollows
<1>1. Told => UniverseFollows
  <2> SUFFICES ASSUME Told, NEW s \in Session, CaughtUp(s), ~missed[s]
               PROVE  DOMAIN cache \cap Present \subseteq universe[s]
    BY DEF UniverseFollows
  <2>1. NoneTells(inbox[s])
    BY EmptyIsSeq DEF CaughtUp, NoneTells
  <2> QED BY <2>1 DEF Told, CaughtUp
<1> QED BY <1>1, ToldInvariance, PTL

-----------------------------------------------------------------------------
(* Each broadcast follows the one before.                                  *)

LEMMA MessageFields ==
  /\ Message.l2_snapshots = Rebuilt /\ Message.dirty = Recomputed
  /\ DOMAIN Message.previous = pending \cap DOMAIN KeptCache
  /\ \A c \in pending \cap DOMAIN KeptCache : Message.previous[c] = KeptCache[c]
BY DEF Message, Restrict

\* What a flush broadcasts is what it makes of the cache.
LEMMA MessageFollows == Follows(cache, Message)
<1>1. ASSUME NEW c \in DOMAIN Rebuilt \ Recomputed
      PROVE  c \in DOMAIN cache /\ Rebuilt[c] = cache[c]
  <2>1. c \notin ToCompute
    BY DEF Recomputed
  <2>2. c \in DOMAIN KeptCache /\ Rebuilt[c] = KeptCache[c]
    BY <2>1, RebuiltViews
  <2> QED BY <2>2, KeptIsCached
<1>2. ASSUME NEW c \in DOMAIN Message.previous
      PROVE  c \in DOMAIN cache /\ Message.previous[c] = cache[c]
  BY MessageFields, KeptIsCached
<1> QED BY <1>1, <1>2, MessageFields DEF Follows

LEMMA MessageCoherent == ASSUME Fresh PROVE Coherent(Message)
<1>1. DOMAIN Message.previous \subseteq Recomputed
  BY MessageFields, ComputedIsPresent DEF Recomputed
<1>2. ASSUME NEW c \in DOMAIN Message.previous \cap DOMAIN Rebuilt
      PROVE  DOMAIN Rebuilt[c] = DOMAIN Message.previous[c]
  <2>1. c \in pending /\ c \in DOMAIN KeptCache /\ Message.previous[c] = KeptCache[c]
    BY MessageFields
  <2>2. c \in ToCompute
    BY <2>1, RebuiltViews
  <2>3. DOMAIN Rebuilt[c] = Active \cup {Base}
    BY <2>2, RebuiltViews, ViewsOfShapes
  <2>4. c \in DOMAIN cache /\ KeptCache[c] = cache[c] /\ Active = lastActive
    BY <2>1, KeptIsCached
  <2>5. DOMAIN cache[c] = lastActive \cup {Base}
    BY <2>4 DEF Fresh, Listener
  <2> QED BY <2>1, <2>3, <2>4, <2>5
<1> QED BY <1>1, <1>2, MessageFields DEF Coherent

\* What follows an empty cache follows anything.
LEMMA FollowsDropped ==
  ASSUME NEW m, Follows(EmptyBook, m), NEW snapshots
  PROVE  Follows(snapshots, m)
BY EmptyIsEmpty DEF Follows

LEMMA PushedLinked ==
  ASSUME NEW q, IsSeq(q), NEW snapshots, Linked(q, snapshots),
         NEW m, Coherent(m), Follows(snapshots, m)
  PROVE  Linked(Pushed(q, m), m.l2_snapshots)
<1>1. PICK p, d : p = Pushed(q, m) /\ d = Dropped(q)
  OBVIOUS
<1>2. /\ Len(p) = Len(q) - d + 1 /\ d \in {0, 1} /\ d <= Len(q) /\ p[Len(q) - d + 1] = m
      /\ \A j \in 1..(Len(q) - d) : p[j] = q[j + d]
      /\ DOMAIN p = 1..Len(p) /\ DOMAIN q = 1..Len(q) /\ Len(q) \in Nat
  BY <1>1, PushShape, SeqShape
<1>3. ASSUME NEW i \in 1..(Len(q) - d)
      PROVE  i + d \in DOMAIN q /\ p[i] = q[i + d]
  <2>1. i + d \in 1..Len(q)
    BY <1>2
  <2> QED BY <2>1, <1>2
<1>4. ASSUME NEW i \in DOMAIN p
      PROVE  i = Len(q) - d + 1 \/ i \in 1..(Len(q) - d)
  BY <1>2
<1>5. ASSUME NEW i \in DOMAIN p
      PROVE  Coherent(p[i])
  <2>1. CASE i = Len(q) - d + 1
    BY <2>1, <1>2
  <2>2. CASE i \in 1..(Len(q) - d)
    BY <2>2, <1>3 DEF Linked
  <2> QED BY <2>1, <2>2, <1>4
<1>6. ASSUME NEW i \in DOMAIN p, i > 1
      PROVE  Follows(p[i - 1].l2_snapshots, p[i])
  <2>1. CASE i = Len(q) - d + 1
    <3>1. i - 1 \in 1..(Len(q) - d) /\ (i - 1) + d = Len(q)
      BY <2>1, <1>2, <1>6
    <3>2. p[i - 1] = q[Len(q)]
      BY <3>1, <1>3
    <3>3. q # <<>>
      BY <3>1, <1>2, SeqShape
    <3>4. snapshots = p[i - 1].l2_snapshots \/ snapshots = EmptyBook
      BY <3>2, <3>3 DEF Linked
    <3>5. p[i] = m
      BY <2>1, <1>2
    <3> QED BY <3>4, <3>5, FollowsDropped
  <2>2. CASE i \in 1..(Len(q) - d)
    <3>1. i - 1 \in 1..(Len(q) - d) /\ (i - 1) + d = (i + d) - 1 /\ i + d > 1
      BY <2>2, <1>2, <1>6
    <3>2. i + d \in DOMAIN q /\ p[i] = q[i + d] /\ p[i - 1] = q[(i + d) - 1]
      BY <3>1, <2>2, <1>3
    <3> QED BY <3>1, <3>2 DEF Linked
  <2> QED BY <2>1, <2>2, <1>4
<1>7. m.l2_snapshots = p[Len(p)].l2_snapshots
  BY <1>2
<1> QED BY <1>1, <1>5, <1>6, <1>7 DEF Linked

LEMMA TakenLinked ==
  ASSUME NEW q, IsSeq(q), q # <<>>, NEW snapshots, Linked(q, snapshots)
  PROVE  /\ Linked(Tail(q), snapshots)
         /\ Tail(q) = <<>> => snapshots = Head(q).l2_snapshots \/ snapshots = EmptyBook
         /\ Tail(q) # <<>> => Follows(Head(q).l2_snapshots, Tail(q)[1])
<1>1. PICK t : t = Tail(q)
  OBVIOUS
<1>2. /\ Len(t) = Len(q) - 1 /\ Len(q) > 0 /\ Head(q) = q[1] /\ Len(q) \in Nat
      /\ DOMAIN t = 1..(Len(q) - 1) /\ DOMAIN q = 1..Len(q)
      /\ \A i \in 1..(Len(q) - 1) : t[i] = q[i + 1]
      /\ (t = <<>> <=> Len(t) = 0)
  BY <1>1, TailShape, SeqShape
<1>3. ASSUME NEW i \in DOMAIN t
      PROVE  i + 1 \in DOMAIN q /\ t[i] = q[i + 1] /\ i + 1 > 1 /\ (i + 1) - 1 = i
  BY <1>2
<1>4. \A i \in DOMAIN t : Coherent(t[i])
  BY <1>3 DEF Linked
<1>5. ASSUME NEW i \in DOMAIN t, i > 1
      PROVE  Follows(t[i - 1].l2_snapshots, t[i])
  <2>1. i - 1 \in DOMAIN t /\ (i - 1) + 1 = i
    BY <1>2, <1>5
  <2>2. t[i - 1] = q[i]
    BY <2>1, <1>3
  <2>3. Follows(q[(i + 1) - 1].l2_snapshots, q[i + 1])
    BY <1>3 DEF Linked
  <2> QED BY <2>2, <2>3, <1>3
<1>6. ASSUME t # <<>>
      PROVE  t[Len(t)] = q[Len(q)] /\ 1 \in DOMAIN t
  BY <1>2, <1>6
<1>7. snapshots = q[Len(q)].l2_snapshots \/ snapshots = EmptyBook
  BY DEF Linked
<1>8. Linked(t, snapshots)
  BY <1>4, <1>5, <1>6, <1>7 DEF Linked
<1>9. t = <<>> => Head(q) = q[Len(q)]
  BY <1>2
<1>10. ASSUME t # <<>>
       PROVE  Follows(Head(q).l2_snapshots, t[1])
  <2>1. 1 \in DOMAIN t
    BY <1>6, <1>10
  <2>2. t[1] = q[1 + 1] /\ 1 + 1 \in DOMAIN q /\ 1 + 1 > 1 /\ (1 + 1) - 1 = 1
    BY <2>1, <1>3
  <2>3. Follows(q[(1 + 1) - 1].l2_snapshots, q[1 + 1])
    BY <2>2 DEF Linked
  <2> QED BY <2>2, <2>3, <1>2
<1> QED BY <1>1, <1>7, <1>8, <1>9, <1>10

LEMMA EmptyLinked == ASSUME NEW snapshots PROVE Linked(<<>>, snapshots)
BY EmptyIsSeq DEF Linked

LEMMA DroppedLinked ==
  ASSUME NEW q, NEW snapshots, Linked(q, snapshots)
  PROVE  Linked(q, EmptyBook)
BY DEF Linked

LEMMA ChainInit == Init => Chain
BY EmptyLinked DEF Init, Chain

LEMMA ChainNext == Fresh /\ Channels /\ Chain /\ [Next]_vars => Chain'
<1> SUFFICES ASSUME Fresh, Channels, Chain, [Next]_vars PROVE Chain'
  OBVIOUS
<1>1. CASE BookChanges \/ BatchFails \/ UNCHANGED vars
  <2>1. UNCHANGED <<inbox, cache>>
    BY <1>1 DEF BookChanges, BatchFails, vars, listenerVars, sessionVars
  <2> QED BY <2>1 DEF Chain
<1>2. CASE finish_install
  <2>1. inbox' = inbox /\ cache' = EmptyBook
    BY <1>2 DEF finish_install, sessionVars
  <2> QED BY <2>1, DroppedLinked DEF Chain
<1>3. CASE flush_l2_if_due
  <2>1. cache' = Message.l2_snapshots
    BY <1>3, MessageFields DEF flush_l2_if_due
  <2>2. ASSUME NEW s \in Session
        PROVE  Linked(inbox'[s], Message.l2_snapshots)
    <3>1. CASE s \in Connected
      <4>1. inbox'[s] = Pushed(inbox[s], Message)
        BY <1>3, <3>1, FlushPushes
      <4>2. IsSeq(inbox[s]) /\ Linked(inbox[s], cache)
        BY DEF Channels, Chain
      <4> QED BY <4>1, <4>2, PushedLinked, MessageFollows, MessageCoherent
    <3>2. CASE s \notin Connected
      <4>1. inbox'[s] = <<>>
        BY <1>3, <3>2, FlushSpares DEF Channels, Connected
      <4> QED BY <4>1, EmptyLinked
    <3> QED BY <3>1, <3>2
  <2> QED BY <2>1, <2>2 DEF Chain
<1>4. ASSUME NEW s \in Session, Connect(s) \/ ReadUniverse(s) \/ Client(s) \/ RecvLagged(s)
      PROVE  Chain'
  <2>1. UNCHANGED <<inbox, cache>>
    BY <1>4 DEF Connect, ReadUniverse, Client, Subscribe, Unsubscribe, RecvLagged, listenerVars
  <2> QED BY <2>1 DEF Chain
<1>5. ASSUME NEW s \in Session, Disconnect(s)
      PROVE  Chain'
  <2>1. inbox' = [inbox EXCEPT ![s] = <<>>] /\ cache' = cache
    BY <1>5 DEF Disconnect, listenerVars
  <2>2. \A t \in Session : Linked(inbox'[t], cache)
    BY <2>1, EmptyLinked DEF Chain, Channels
  <2> QED BY <2>1, <2>2 DEF Chain
<1>6. ASSUME NEW s \in Session, RecvSnapshot(s)
      PROVE  Chain'
  <2>1. inbox[s] # <<>> /\ inbox' = [inbox EXCEPT ![s] = Tail(@)] /\ cache' = cache
    BY <1>6 DEF RecvSnapshot, listenerVars
  <2>2. Linked(Tail(inbox[s]), cache)
    BY <2>1, TakenLinked DEF Chain, Channels
  <2>3. \A t \in Session : Linked(inbox'[t], cache)
    BY <2>1, <2>2 DEF Chain, Channels
  <2> QED BY <2>1, <2>3 DEF Chain
<1> QED BY <1>1, <1>2, <1>3, <1>4, <1>5, <1>6 DEF Next, SessionStep

THEOREM ChainInvariance == Spec => []Chain
BY ChainInit, ChainNext, FreshInvariance, ChannelsInvariance, PTL DEF Spec

-----------------------------------------------------------------------------
(* What a client shows.                                                    *)

LEMMA ExportIsMap ==
  ASSUME NEW snapshots, NEW sub
  PROVE  LET f == Export(snapshots, sub) IN f = [p \in DOMAIN f |-> f[p]]
BY DEF Export, Truncate, Restrict, EmptyBook

\* A client that applies the changes to the old side has the new one.
LEMMA AppliedIsNew ==
  ASSUME NEW old, NEW new, new = [p \in DOMAIN new |-> new[p]]
  PROVE  apply_side(old, Between(old, new)) = new
<1> DEFINE D == {p \in DOMAIN new : p \notin DOMAIN old \/ old[p] # new[p]}
           gone == DOMAIN old \ DOMAIN new
           kept == [p \in DOMAIN old \cup D |-> IF p \in D THEN new[p] ELSE old[p]]
<1>1. apply_side(old, Between(old, new)) = [p \in (DOMAIN old \cup D) \ gone |-> kept[p]]
  BY DEF apply_side, Between, Without, Restrict
<1>2. (DOMAIN old \cup D) \ gone = DOMAIN new
  OBVIOUS
<1>3. \A p \in DOMAIN new : kept[p] = new[p]
  OBVIOUS
<1> QED BY <1>1, <1>2, <1>3

\* Nothing to send means nothing has changed.
LEMMA NothingChanged ==
  ASSUME NEW old, old = [p \in DOMAIN old |-> old[p]],
         NEW new, new = [p \in DOMAIN new |-> new[p]],
         Between(old, new) = Between(EmptyBook, EmptyBook)
  PROVE  old = new
<1>1. /\ Between(old, new).del = {} /\ DOMAIN Between(old, new).upd = {}
  BY EmptyIsEmpty DEF Between, Restrict
<1>2. /\ DOMAIN old \ DOMAIN new = {}
      /\ {p \in DOMAIN new : p \notin DOMAIN old \/ old[p] # new[p]} = {}
  BY <1>1 DEF Between, Restrict
<1> QED BY <1>2

\* What is exported depends on the coin's views alone.
LEMMA SameExport ==
  ASSUME NEW f, NEW g, NEW sub, sub.coin \in DOMAIN f, sub.coin \in DOMAIN g,
         f[sub.coin] = g[sub.coin]
  PROVE  Export(f, sub) = Export(g, sub)
BY DEF Export

\* What a receipt sends: books, whole books on l2Diff, and changes.
BooksSent(s) == {sub \in subs[s] : SendsBook(s, sub, Head(inbox[s]))}
WholeSent(s) == {sub \in subs[s] : SendsWhole(s, sub, Head(inbox[s]))}
DiffsSent(s) == {sub \in subs[s] : SendsDiff(s, sub, Head(inbox[s]))}

\* What it leaves the client with.
LEMMA ReceiptShows ==
  ASSUME Channels, NEW s \in Session, RecvSnapshot(s)
  PROVE  /\ DOMAIN shows'[s] = DOMAIN shows[s] \cup BooksSent(s) \cup WholeSent(s) \cup DiffsSent(s)
         /\ \A sub \in DOMAIN shows'[s] :
              shows'[s][sub] = IF sub \in BooksSent(s) \cup WholeSent(s)
                               THEN Export(Head(inbox[s]).l2_snapshots, sub)
                               ELSE IF sub \in DiffsSent(s)
                                    THEN apply_side(shows[s][sub], DiffOf(sub, Head(inbox[s])))
                                    ELSE shows[s][sub]
         /\ DOMAIN last_l2'[s] = DOMAIN last_l2[s] \cup BooksSent(s)
         /\ \A sub \in DOMAIN last_l2'[s] :
              last_l2'[s][sub] = IF sub \in BooksSent(s) THEN Export(Head(inbox[s]).l2_snapshots, sub)
                                 ELSE last_l2[s][sub]
         /\ last_l2_diff'[s] = last_l2_diff[s] \cup WholeSent(s) \cup DiffsSent(s)
         /\ \A t \in Session \ {s} : shows'[t] = shows[t] /\ last_l2'[t] = last_l2[t]
                                     /\ last_l2_diff'[t] = last_l2_diff[t]
<1>1. /\ last_l2' = [last_l2 EXCEPT ![s] =
                       [sub \in DOMAIN last_l2[s] \cup BooksSent(s) |->
                          IF sub \in BooksSent(s) THEN Export(Head(inbox[s]).l2_snapshots, sub)
                          ELSE last_l2[s][sub]]]
      /\ last_l2_diff' = [last_l2_diff EXCEPT ![s] = @ \cup WholeSent(s) \cup DiffsSent(s)]
      /\ shows' = [shows EXCEPT ![s] =
                     [sub \in DOMAIN shows[s] \cup BooksSent(s) \cup WholeSent(s) \cup DiffsSent(s) |->
                        IF sub \in BooksSent(s) \cup WholeSent(s) THEN Export(Head(inbox[s]).l2_snapshots, sub)
                        ELSE IF sub \in DiffsSent(s)
                             THEN apply_side(shows[s][sub], DiffOf(sub, Head(inbox[s])))
                             ELSE shows[s][sub]]]
  BY DEF RecvSnapshot, BooksSent, WholeSent, DiffsSent
<1>2. DOMAIN shows = Session /\ DOMAIN last_l2 = Session /\ DOMAIN last_l2_diff = Session
  BY DEF Channels
<1> QED BY <1>1, <1>2

LEMMA ServedInit == Init => AllServed
BY EmptyIsEmpty DEF Init, AllServed, Served

LEMMA ReceiptIsServed ==
  ASSUME Registry, Channels, AllServed, NEW s \in Session, RecvSnapshot(s)
  PROVE  AllServed'
<1>0. status[s] = "on" /\ UNCHANGED <<status, subs>>
  BY DEF RecvSnapshot
<1>1. ASSUME NEW t \in Session, t # s
      PROVE  Served(t)'
  <2>1. shows'[t] = shows[t] /\ last_l2'[t] = last_l2[t] /\ last_l2_diff'[t] = last_l2_diff[t]
    BY <1>1, ReceiptShows
  <2>2. Served(t)
    BY DEF AllServed
  <2> QED BY <2>1, <2>2, <1>0 DEF Served
<1>2. Served(s)'
  <2>1. /\ \A sub \in BooksSent(s) : sub \in subs[s] /\ sub.kind = "l2Book"
        /\ \A sub \in WholeSent(s) \cup DiffsSent(s) : sub \in subs[s] /\ sub.kind = "l2Diff"
    BY DEF BooksSent, WholeSent, DiffsSent, SendsBook, SendsWhole, SendsDiff
  <2>2. Served(s)
    BY DEF AllServed
  <2>3. DOMAIN shows'[s] = DOMAIN shows[s] \cup BooksSent(s) \cup WholeSent(s) \cup DiffsSent(s)
    BY ReceiptShows
  <2>4. DOMAIN shows'[s] \subseteq subs[s]
    BY <2>1, <2>2, <2>3 DEF Served
  <2>5. DOMAIN last_l2'[s] = {sub \in DOMAIN shows'[s] : sub.kind = "l2Book"}
    <3>1. DOMAIN last_l2'[s] = DOMAIN last_l2[s] \cup BooksSent(s)
      BY ReceiptShows
    <3> QED BY <3>1, <2>1, <2>2, <2>3 DEF Served
  <2>6. last_l2_diff'[s] = {sub \in DOMAIN shows'[s] : sub.kind = "l2Diff"}
    <3>1. last_l2_diff'[s] = last_l2_diff[s] \cup WholeSent(s) \cup DiffsSent(s)
      BY ReceiptShows
    <3> QED BY <3>1, <2>1, <2>2, <2>3 DEF Served
  <2>7. ASSUME NEW sub \in DOMAIN last_l2'[s]
        PROVE  last_l2'[s][sub] = shows'[s][sub]
    <3>1. sub \in DOMAIN shows'[s] /\ sub.kind = "l2Book"
      BY <2>5
    <3>2. sub \notin WholeSent(s) \cup DiffsSent(s)
      BY <2>1, <3>1
    <3>3. CASE sub \in BooksSent(s)
      BY <3>1, <3>3, ReceiptShows
    <3>4. CASE sub \notin BooksSent(s)
      <4>1. sub \in DOMAIN last_l2[s] /\ last_l2'[s][sub] = last_l2[s][sub]
        BY <3>4, ReceiptShows
      <4>2. shows'[s][sub] = shows[s][sub]
        BY <3>1, <3>2, <3>4, ReceiptShows
      <4> QED BY <4>1, <4>2, <2>2 DEF Served
    <3> QED BY <3>3, <3>4
  <2> QED BY <1>0, <2>4, <2>5, <2>6, <2>7 DEF Served
<1> QED BY <1>1, <1>2 DEF AllServed

LEMMA ServedNext == Registry /\ Channels /\ AllServed /\ [Next]_vars => AllServed'
<1> SUFFICES ASSUME Registry, Channels, AllServed, [Next]_vars PROVE AllServed'
  OBVIOUS
<1>1. CASE BookChanges \/ BatchFails \/ finish_install \/ flush_l2_if_due \/ UNCHANGED vars
  <2>1. UNCHANGED <<status, subs, shows, last_l2, last_l2_diff>>
    BY <1>1 DEF BookChanges, BatchFails, finish_install, flush_l2_if_due, vars, sessionVars
  <2> QED BY <2>1 DEF AllServed, Served
<1>2. ASSUME NEW s \in Session, Connect(s) \/ ReadUniverse(s) \/ RecvLagged(s)
      PROVE  AllServed'
  <2>1. /\ UNCHANGED <<subs, shows, last_l2, last_l2_diff>>
        /\ \A t \in Session : status'[t] # "on" => status[t] # "on"
    BY <1>2 DEF Connect, ReadUniverse, RecvLagged, Channels
  <2> QED BY <2>1 DEF AllServed, Served
<1>3. ASSUME NEW s \in Session, Disconnect(s)
      PROVE  AllServed'
  <2>1. /\ shows'[s] = EmptyBook /\ last_l2'[s] = EmptyBook /\ last_l2_diff'[s] = {} /\ subs'[s] = {}
        /\ \A t \in Session \ {s} :
             /\ shows'[t] = shows[t] /\ last_l2'[t] = last_l2[t] /\ last_l2_diff'[t] = last_l2_diff[t]
             /\ subs'[t] = subs[t] /\ status'[t] = status[t]
    BY <1>3 DEF Disconnect, Channels, Registry, Clients
  <2>2. Served(s)'
    BY <2>1, EmptyIsEmpty DEF Served
  <2>3. \A t \in Session \ {s} : Served(t)'
    BY <2>1 DEF AllServed, Served
  <2> QED BY <2>2, <2>3 DEF AllServed
<1>4. ASSUME NEW s \in Session, NEW sub \in Wanted[s], Subscribe(s, sub)
      PROVE  AllServed'
  <2>1. /\ UNCHANGED <<status, shows, last_l2, last_l2_diff>>
        /\ \A t \in Session : subs[t] \subseteq subs'[t]
    BY <1>4 DEF Subscribe, Registry, Clients
  <2> QED BY <2>1 DEF AllServed, Served
<1>5. ASSUME NEW s \in Session, NEW sub \in Wanted[s], Unsubscribe(s, sub)
      PROVE  AllServed'
  <2>1. /\ status' = status
        /\ shows'[s] = Without(shows[s], {sub}) /\ last_l2'[s] = Without(last_l2[s], {sub})
        /\ last_l2_diff'[s] = last_l2_diff[s] \ {sub} /\ subs'[s] = subs[s] \ {sub}
        /\ \A t \in Session \ {s} :
             /\ shows'[t] = shows[t] /\ last_l2'[t] = last_l2[t] /\ last_l2_diff'[t] = last_l2_diff[t]
             /\ subs'[t] = subs[t]
    BY <1>5 DEF Unsubscribe, Forget, Channels, Registry, Clients
  <2>2. /\ DOMAIN shows'[s] = DOMAIN shows[s] \ {sub} /\ DOMAIN last_l2'[s] = DOMAIN last_l2[s] \ {sub}
        /\ \A other \in DOMAIN shows[s] \ {sub} : shows'[s][other] = shows[s][other]
        /\ \A other \in DOMAIN last_l2[s] \ {sub} : last_l2'[s][other] = last_l2[s][other]
    BY <2>1 DEF Without, Restrict
  <2>3. Served(s)'
    <3>1. Served(s)
      BY DEF AllServed
    <3>2. \A other \in DOMAIN last_l2'[s] : last_l2'[s][other] = shows'[s][other]
      BY <3>1, <2>2 DEF Served
    <3> QED BY <3>1, <3>2, <2>1, <2>2 DEF Served
  <2>4. \A t \in Session \ {s} : Served(t)'
    BY <2>1 DEF AllServed, Served
  <2> QED BY <2>3, <2>4 DEF AllServed
<1>6. ASSUME NEW s \in Session, RecvSnapshot(s)
      PROVE  AllServed'
  BY <1>6, ReceiptIsServed
<1> QED BY <1>1, <1>2, <1>3, <1>4, <1>5, <1>6 DEF Next, SessionStep, Client

THEOREM ServedInvariance == Spec => []AllServed
BY ServedInit, ServedNext, RegistryInvariance, ChannelsInvariance, PTL DEF Spec

\* A client that shows the snapshots is ready for what follows them.
LEMMA ReadyForNext ==
  ASSUME NEW shown, NEW snapshots, Agrees(shown, snapshots), NEW m, Follows(snapshots, m)
  PROVE  AgreesBefore(shown, m)
<1> SUFFICES ASSUME NEW sub \in DOMAIN shown
             PROVE  /\ sub.coin \in DOMAIN m.l2_snapshots \ m.dirty /\ sub.shape \in DOMAIN m.l2_snapshots[sub.coin]
                         => shown[sub] = Export(m.l2_snapshots, sub)
                    /\ sub.coin \in DOMAIN m.previous /\ sub.shape \in DOMAIN m.previous[sub.coin]
                         => shown[sub] = Export(m.previous, sub)
  BY DEF AgreesBefore
<1>1. ASSUME sub.coin \in DOMAIN m.l2_snapshots \ m.dirty, sub.shape \in DOMAIN m.l2_snapshots[sub.coin]
      PROVE  shown[sub] = Export(m.l2_snapshots, sub)
  <2>1. sub.coin \in DOMAIN snapshots /\ m.l2_snapshots[sub.coin] = snapshots[sub.coin]
    BY <1>1 DEF Follows
  <2> QED BY <1>1, <2>1, SameExport DEF Agrees
<1>2. ASSUME sub.coin \in DOMAIN m.previous, sub.shape \in DOMAIN m.previous[sub.coin]
      PROVE  shown[sub] = Export(m.previous, sub)
  <2>1. sub.coin \in DOMAIN snapshots /\ m.previous[sub.coin] = snapshots[sub.coin]
    BY <1>2 DEF Follows
  <2> QED BY <1>2, <2>1, SameExport DEF Agrees
<1> QED BY <1>1, <1>2

\* A change applied by the client gives what it is the change to.
LEMMA DiffGivesNew ==
  ASSUME NEW m, NEW sub
  PROVE  apply_side(Export(m.previous, sub), DiffOf(sub, m)) = Export(m.l2_snapshots, sub)
<1>1. PICK old, new : old = Export(m.previous, sub) /\ new = Export(m.l2_snapshots, sub)
  OBVIOUS
<1>2. new = [p \in DOMAIN new |-> new[p]]
  BY <1>1, ExportIsMap
<1>3. apply_side(old, Between(old, new)) = new
  BY <1>2, AppliedIsNew
<1> QED BY <1>1, <1>3 DEF DiffOf

\* No change to send: the client has what there is.
LEMMA NoDiffIsSame ==
  ASSUME NEW m, NEW sub, DiffOf(sub, m) = Between(EmptyBook, EmptyBook)
  PROVE  Export(m.previous, sub) = Export(m.l2_snapshots, sub)
<1>1. PICK old, new : old = Export(m.previous, sub) /\ new = Export(m.l2_snapshots, sub)
  OBVIOUS
<1>2. new = [p \in DOMAIN new |-> new[p]] /\ old = [p \in DOMAIN old |-> old[p]]
  BY <1>1, ExportIsMap
<1>3. Between(old, new) = Between(EmptyBook, EmptyBook)
  BY <1>1 DEF DiffOf
<1>4. old = new
  BY <1>2, <1>3, NothingChanged
<1> QED BY <1>1, <1>4

\* After a broadcast the client shows its snapshots: it was ready for them, or a lag makes
\* the session send everything.
LEMMA ReceiptAgrees ==
  ASSUME Registry, Channels, AllServed, NEW s \in Session, RecvSnapshot(s),
         NEW m, m = Head(inbox[s]), Coherent(m),
         ~force_full[s] => AgreesBefore(shows[s], m)
  PROVE  Agrees(shows'[s], m.l2_snapshots)
<1> SUFFICES ASSUME NEW sub \in DOMAIN shows'[s], sub.coin \in DOMAIN m.l2_snapshots,
                    sub.shape \in DOMAIN m.l2_snapshots[sub.coin]
             PROVE  shows'[s][sub] = Export(m.l2_snapshots, sub)
  BY DEF Agrees
<1>v. Served(s) /\ force_full[s] \in BOOLEAN
  BY DEF AllServed, Channels
<1>1. CASE sub \in BooksSent(s) \cup WholeSent(s)
  BY <1>1, ReceiptShows
<1>2. CASE sub \in DiffsSent(s) \ (BooksSent(s) \cup WholeSent(s))
  <2>1. SendsDiff(s, sub, m)
    BY <1>2 DEF DiffsSent
  <2>2. sub \in last_l2_diff[s] /\ ~force_full[s] /\ sub.coin \in DOMAIN m.previous
        /\ sub.shape \in DOMAIN m.previous[sub.coin]
    BY <2>1 DEF SendsDiff, NeedsWhole
  <2>3. sub \in DOMAIN shows[s]
    BY <2>2, <1>v DEF Served
  <2>4. shows[s][sub] = Export(m.previous, sub)
    BY <2>2, <2>3 DEF AgreesBefore
  <2>5. shows'[s][sub] = apply_side(shows[s][sub], DiffOf(sub, m))
    BY <1>2, ReceiptShows
  <2> QED BY <2>4, <2>5, DiffGivesNew
<1>3. CASE sub \notin BooksSent(s) \cup WholeSent(s) \cup DiffsSent(s)
  <2>1. sub \in DOMAIN shows[s] /\ shows'[s][sub] = shows[s][sub]
    BY <1>3, ReceiptShows
  <2>2. sub \in subs[s] /\ sub \in Subscription
    BY <2>1, <1>v DEF Served, Registry, Clients
  <2>3. sub.kind = "l2Book" \/ sub.kind = "l2Diff"
    BY <2>2, SubscriptionType DEF Kind
  <2>4. ~SendsBook(s, sub, m) /\ ~SendsWhole(s, sub, m) /\ ~SendsDiff(s, sub, m)
    BY <2>2, <1>3 DEF BooksSent, WholeSent, DiffsSent
  <2>5. ASSUME ~force_full[s], sub.coin \notin m.dirty
        PROVE  shows[s][sub] = Export(m.l2_snapshots, sub)
    BY <2>1, <2>5 DEF AgreesBefore
  <2>6. CASE sub.kind = "l2Book"
    <3>1. sub \in DOMAIN last_l2[s] /\ last_l2[s][sub] = shows[s][sub]
      BY <2>1, <2>6, <1>v DEF Served
    <3>2. (~force_full[s] /\ sub.coin \notin m.dirty) \/ last_l2[s][sub] = Export(m.l2_snapshots, sub)
      BY <2>4, <2>6, <3>1 DEF SendsBook
    <3> QED BY <3>1, <3>2, <2>1, <2>5
  <2>7. CASE sub.kind = "l2Diff"
    <3>1. sub \in last_l2_diff[s]
      BY <2>1, <2>7, <1>v DEF Served
    <3>2. ~force_full[s]
      BY <2>4, <2>7 DEF SendsWhole, NeedsWhole
    <3>3. CASE sub.coin \notin m.dirty
      BY <3>2, <3>3, <2>1, <2>5
    <3>4. CASE sub.coin \in m.dirty
      <4>1. ~NeedsWhole(s, sub, m)
        BY <3>4, <2>4, <2>7 DEF SendsWhole
      <4>2. sub.coin \in DOMAIN m.previous
        BY <4>1 DEF NeedsWhole
      <4>3. sub.shape \in DOMAIN m.previous[sub.coin]
        BY <4>2 DEF Coherent
      <4>4. DiffOf(sub, m) = Between(EmptyBook, EmptyBook)
        BY <4>1, <4>3, <3>4, <2>4, <2>7 DEF SendsDiff
      <4>5. shows[s][sub] = Export(m.previous, sub)
        BY <4>2, <4>3, <3>2, <2>1 DEF AgreesBefore
      <4> QED BY <4>4, <4>5, <2>1, NoDiffIsSame
    <3> QED BY <3>3, <3>4
  <2> QED BY <2>3, <2>6, <2>7
<1> QED BY <1>1, <1>2, <1>3

LEMMA ShowingInit == Init => Showing
BY EmptyIsEmpty DEF Init, Showing, InStep, Agrees

LEMMA FlushKeepsStep ==
  ASSUME Channels, AllServed, Showing, flush_l2_if_due, NEW s \in Session
  PROVE  InStep(s)'
<1>0. cache' = Rebuilt /\ UNCHANGED <<shows, force_full, status>>
  BY DEF flush_l2_if_due
<1> SUFFICES ASSUME ~lagged'[s], ~force_full[s]
             PROVE  IF inbox'[s] = <<>> THEN Agrees(shows[s], Rebuilt)
                    ELSE AgreesBefore(shows[s], inbox'[s][1])
  BY <1>0 DEF InStep
<1>1. CASE s \in Connected
  <2> DEFINE q == inbox[s]
             p == Pushed(q, Message)
  <2>1. inbox'[s] = p /\ lagged'[s] = (lagged[s] \/ Dropped(q) = 1) /\ lagged[s] \in BOOLEAN
    BY <1>1, FlushPushes DEF Channels
  <2>2. IsSeq(q) /\ InStep(s)
    BY DEF Channels, Showing
  <2>3. Dropped(q) = 0 /\ ~lagged[s]
    BY <2>1 DEF Dropped
  <2>4. /\ IsSeq(p) /\ Len(p) = Len(q) + 1 /\ p[Len(q) + 1] = Message /\ Len(q) \in Nat
        /\ \A i \in 1..Len(q) : p[i] = q[i]
    <3>1. /\ IsSeq(p) /\ Len(p) = Len(q) - Dropped(q) + 1 /\ Len(q) \in Nat
          /\ p[Len(q) - Dropped(q) + 1] = Message
          /\ \A i \in 1..(Len(q) - Dropped(q)) : p[i] = q[i + Dropped(q)]
      BY <2>2, PushShape, SeqShape
    <3>2. Len(q) - Dropped(q) = Len(q) /\ \A i \in 1..Len(q) : i + Dropped(q) = i
      BY <3>1, <2>3
    <3> QED BY <3>1, <3>2
  <2>5. p # <<>>
    BY <2>4, SeqShape
  <2>6. AgreesBefore(shows[s], p[1])
    <3>1. CASE q = <<>>
      <4>1. p[1] = Message
        BY <3>1, <2>2, <2>4, SeqShape
      <4>2. Agrees(shows[s], cache)
        BY <3>1, <2>2, <2>3 DEF InStep
      <4> QED BY <4>1, <4>2, MessageFollows, ReadyForNext
    <3>2. CASE q # <<>>
      <4>1. p[1] = q[1]
        BY <3>2, <2>2, <2>4, SeqShape
      <4>2. AgreesBefore(shows[s], q[1])
        BY <3>2, <2>2, <2>3 DEF InStep
      <4> QED BY <4>1, <4>2
    <3> QED BY <3>1, <3>2
  <2> QED BY <2>1, <2>5, <2>6
<1>2. CASE s \notin Connected
  <2>1. inbox'[s] = <<>> /\ inbox[s] = <<>>
    BY <1>2, FlushSpares DEF Channels, Connected
  <2>2. DOMAIN shows[s] = {}
    BY <1>2 DEF AllServed, Served, Connected
  <2> QED BY <2>1, <2>2 DEF Agrees
<1> QED BY <1>1, <1>2

LEMMA ReceiptKeepsStep ==
  ASSUME Registry, Channels, Chain, AllServed, Showing,
         NEW r \in Session, RecvSnapshot(r), NEW s \in Session
  PROVE  InStep(s)'
<1>0. /\ inbox[r] # <<>> /\ ~lagged[r]
      /\ inbox' = [inbox EXCEPT ![r] = Tail(@)]
      /\ force_full' = [force_full EXCEPT ![r] = FALSE]
      /\ UNCHANGED <<lagged, cache>>
  BY DEF RecvSnapshot, listenerVars
<1>t. DOMAIN inbox = Session /\ DOMAIN force_full = Session /\ IsSeq(inbox[r])
  BY DEF Channels
<1>1. CASE s # r
  <2>1. inbox'[s] = inbox[s] /\ force_full'[s] = force_full[s] /\ shows'[s] = shows[s]
    BY <1>0, <1>1, <1>t, ReceiptShows
  <2> QED BY <2>1, <1>0 DEF Showing, InStep
<1>2. CASE s = r
  <2>1. PICK q, m, t : q = inbox[r] /\ m = Head(q) /\ t = Tail(q)
    OBVIOUS
  <2>2. IsSeq(q) /\ q # <<>> /\ Linked(q, cache)
    BY <2>1, <1>0, <1>t DEF Chain
  <2>3. m = q[1] /\ 1 \in DOMAIN q
    BY <2>1, <2>2, TailShape
  <2>4. Coherent(m)
    BY <2>2, <2>3 DEF Linked
  <2>5. ~force_full[r] => AgreesBefore(shows[r], m)
    BY <2>1, <2>2, <2>3, <1>0 DEF Showing, InStep
  <2>6. Agrees(shows'[r], m.l2_snapshots)
    BY <2>1, <2>4, <2>5, ReceiptAgrees
  <2>7. inbox'[s] = t
    BY <1>0, <1>2, <1>t, <2>1
  <2>8. CASE t = <<>>
    <3>1. cache = m.l2_snapshots \/ cache = EmptyBook
      BY <2>1, <2>2, <2>8, TakenLinked
    <3>2. Agrees(shows'[r], EmptyBook)
      BY EmptyIsEmpty DEF Agrees
    <3>3. Agrees(shows'[r], cache)
      BY <3>1, <3>2, <2>6
    <3> QED BY <3>3, <2>7, <2>8, <1>0, <1>2 DEF InStep
  <2>9. CASE t # <<>>
    <3>1. Follows(m.l2_snapshots, t[1])
      BY <2>1, <2>2, <2>9, TakenLinked
    <3>2. AgreesBefore(shows'[r], t[1])
      BY <3>1, <2>6, ReadyForNext
    <3> QED BY <3>2, <2>7, <2>9, <1>0, <1>2 DEF InStep
  <2> QED BY <2>8, <2>9
<1> QED BY <1>1, <1>2

LEMMA FewerShownAgree ==
  ASSUME NEW shown, NEW fewer, DOMAIN fewer \subseteq DOMAIN shown,
         \A sub \in DOMAIN fewer : fewer[sub] = shown[sub]
  PROVE  /\ \A snapshots : Agrees(shown, snapshots) => Agrees(fewer, snapshots)
         /\ \A m : AgreesBefore(shown, m) => AgreesBefore(fewer, m)
BY DEF Agrees, AgreesBefore

LEMMA ShowingNext ==
  Registry /\ Channels /\ Chain /\ AllServed /\ Showing /\ [Next]_vars => Showing'
<1> SUFFICES ASSUME Registry, Channels, Chain, AllServed, Showing, [Next]_vars,
                    NEW s \in Session
             PROVE  InStep(s)'
  BY DEF Showing
<1>0. InStep(s)
  BY DEF Showing
<1>1. CASE BookChanges \/ BatchFails \/ UNCHANGED vars
  <2>1. UNCHANGED <<inbox, lagged, force_full, shows, cache>>
    BY <1>1 DEF BookChanges, BatchFails, vars, listenerVars, sessionVars
  <2> QED BY <2>1, <1>0 DEF InStep
<1>2. CASE finish_install
  <2>1. UNCHANGED <<inbox, lagged, force_full, shows>> /\ cache' = EmptyBook
    BY <1>2 DEF finish_install, sessionVars
  <2>2. Agrees(shows[s], EmptyBook)
    BY EmptyIsEmpty DEF Agrees
  <2> QED BY <2>1, <2>2, <1>0 DEF InStep
<1>3. CASE flush_l2_if_due
  BY <1>3, FlushKeepsStep
<1>4. ASSUME NEW r \in Session, Connect(r) \/ ReadUniverse(r)
      PROVE  InStep(s)'
  <2>1. UNCHANGED <<inbox, lagged, force_full, shows, cache>>
    BY <1>4 DEF Connect, ReadUniverse, listenerVars
  <2> QED BY <2>1, <1>0 DEF InStep
<1>5. ASSUME NEW r \in Session, Disconnect(r)
      PROVE  InStep(s)'
  <2>1. CASE s = r
    <3>1. inbox'[s] = <<>> /\ shows'[s] = EmptyBook
      BY <1>5, <2>1 DEF Disconnect, Channels
    <3>2. Agrees(shows'[s], cache')
      BY <3>1, EmptyIsEmpty DEF Agrees
    <3> QED BY <3>1, <3>2 DEF InStep
  <2>2. CASE s # r
    <3>1. inbox'[s] = inbox[s] /\ lagged'[s] = lagged[s] /\ force_full'[s] = force_full[s]
          /\ shows'[s] = shows[s] /\ cache' = cache
      BY <1>5, <2>2 DEF Disconnect, listenerVars, Channels
    <3> QED BY <3>1, <1>0 DEF InStep
  <2> QED BY <2>1, <2>2
<1>6. ASSUME NEW r \in Session, NEW sub \in Wanted[r], Subscribe(r, sub)
      PROVE  InStep(s)'
  <2>1. UNCHANGED <<inbox, lagged, force_full, shows, cache>>
    BY <1>6 DEF Subscribe, listenerVars
  <2> QED BY <2>1, <1>0 DEF InStep
<1>7. ASSUME NEW r \in Session, NEW sub \in Wanted[r], Unsubscribe(r, sub)
      PROVE  InStep(s)'
  <2>1. /\ UNCHANGED <<inbox, lagged, force_full, cache>>
        /\ shows' = [shows EXCEPT ![r] = Without(@, {sub})] /\ DOMAIN shows = Session
    BY <1>7 DEF Unsubscribe, listenerVars, Channels
  <2>2. /\ DOMAIN shows'[s] \subseteq DOMAIN shows[s]
        /\ \A other \in DOMAIN shows'[s] : shows'[s][other] = shows[s][other]
    <3>1. CASE s = r
      <4>1. shows'[s] = Restrict(shows[s], DOMAIN shows[s] \ {sub})
        BY <2>1, <3>1 DEF Without
      <4> QED BY <4>1 DEF Restrict
    <3>2. CASE s # r
      BY <2>1, <3>2
    <3> QED BY <3>1, <3>2
  <2>3. /\ Agrees(shows[s], cache) => Agrees(shows'[s], cache)
        /\ AgreesBefore(shows[s], inbox[s][1]) => AgreesBefore(shows'[s], inbox[s][1])
    BY <2>2, FewerShownAgree
  <2> QED BY <2>1, <2>3, <1>0 DEF InStep
<1>8. ASSUME NEW r \in Session, RecvLagged(r)
      PROVE  InStep(s)'
  <2>1. CASE s = r
    <3>1. force_full'[s] = TRUE
      BY <1>8, <2>1 DEF RecvLagged, Channels
    <3> QED BY <3>1 DEF InStep
  <2>2. CASE s # r
    <3>1. lagged'[s] = lagged[s] /\ force_full'[s] = force_full[s] /\ UNCHANGED <<inbox, shows, cache>>
      BY <1>8, <2>2 DEF RecvLagged, listenerVars, Channels
    <3> QED BY <3>1, <1>0 DEF InStep
  <2> QED BY <2>1, <2>2
<1>9. ASSUME NEW r \in Session, RecvSnapshot(r)
      PROVE  InStep(s)'
  BY <1>9, ReceiptKeepsStep
<1> QED BY <1>1, <1>2, <1>3, <1>4, <1>5, <1>6, <1>7, <1>8, <1>9 DEF Next, SessionStep, Client

THEOREM ShowingInvariance == Spec => []Showing
BY ShowingInit, ShowingNext, RegistryInvariance, ChannelsInvariance, ChainInvariance,
   ServedInvariance, PTL DEF Spec

\* A session that has read every broadcast shows its clients what the listener last sent,
\* on both channels: through lags, unsubscribing and coming back, changes of the shape
\* set, installs, evictions and diffs at a depth (send_ws_data_from_snapshot,
\* send_ws_data_from_l2_diff).
THEOREM FollowsBroadcastThm == Spec => []FollowsBroadcast
<1>1. Showing => FollowsBroadcast
  <2> SUFFICES ASSUME Showing, NEW s \in Session, CaughtUp(s), NEW sub \in DOMAIN shows[s],
                      sub.coin \in DOMAIN cache /\ sub.shape \in DOMAIN cache[sub.coin]
               PROVE  shows[s][sub] = Export(cache, sub)
    BY DEF FollowsBroadcast
  <2> QED BY DEF Showing, InStep, CaughtUp, Agrees
<1> QED BY <1>1, ShowingInvariance, PTL

\* The two together: what a session that has read every broadcast shows of a coin is its
\* book, unless the book is marked, or the coin changed since the last flush or is not
\* built.  From the book through the cache, the channel and the diffs to the client.
ShowsTheBook ==
  \A s \in Session : CaughtUp(s) /\ ~needs_resync =>
    \A sub \in DOMAIN shows[s] :
       sub.coin \in DOMAIN cache \ pending /\ sub.shape \in DOMAIN cache[sub.coin] => Shown(s, sub)

\* No step of the market, the listener, the channel or a client makes a session that has
\* caught up show anything but the book (flush_l2_if_due to send_ws_data_from_l2_diff).
THEOREM ShowsTheBookThm == Spec => []ShowsTheBook
<1>1. CacheIsFresh /\ FollowsBroadcast => ShowsTheBook
  <2> SUFFICES ASSUME CacheIsFresh, FollowsBroadcast,
                      NEW s \in Session, CaughtUp(s), ~needs_resync, NEW sub \in DOMAIN shows[s],
                      sub.coin \in DOMAIN cache \ pending, sub.shape \in DOMAIN cache[sub.coin]
               PROVE  Shown(s, sub)
    BY DEF ShowsTheBook
  <2>1. shows[s][sub] = Export(cache, sub)
    BY DEF FollowsBroadcast
  <2>2. cache[sub.coin] = compute_l2_variants_for_coin(book[sub.coin], DOMAIN cache[sub.coin])
    BY DEF CacheIsFresh
  <2>3. cache[sub.coin][sub.shape] = to_l2_snapshot(book[sub.coin], sub.shape)
    BY <2>2 DEF compute_l2_variants_for_coin
  <2>4. Export(cache, sub) = Current(sub)
    BY <2>3 DEF Export, Current
  <2> QED BY <2>1, <2>4 DEF Shown
<1> QED BY <1>1, CacheIsFreshThm, FollowsBroadcastThm, PTL
=============================================================================
