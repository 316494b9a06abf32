------------------------------- MODULE L2Feed -------------------------------
(***************************************************************************)
(* The l2Book and l2Diff channels.  The listener                           *)
(* (listeners/order_book/mod.rs) collects the coins that changed and, at   *)
(* each flush, rebuilds their aggregated views, for the shapes some        *)
(* connection wants, into a cache it broadcasts.  A session                *)
(* (servers/websocket_server.rs) takes the broadcasts from a bounded       *)
(* channel that drops the oldest when it is full, and sends its client     *)
(* whole books (l2Book) or changes (l2Diff).                               *)
(*                                                                         *)
(* A shape (nSigFigs, mantissa) is the width of its price buckets; 1 is    *)
(* the raw book.  One side of the book is kept: the other is treated the   *)
(* same, independently.  Left out: the throttle's clock (a flush happens   *)
(* at any time), block heights (last_l2_diff is the set of subscriptions   *)
(* served), the frame caches (each holds what its key determines), the     *)
(* hash (the levels stand for it), heartbeats (they repeat the last        *)
(* payload) and the outbound queue (in order, until the session ends).     *)
(***************************************************************************)
EXTENDS Integers, Sequences, FiniteSets, FiniteSetsExt, Functions

CONSTANTS
  Coin,          \* coins, in the order of the multi-book's map
  Books,         \* Coin -> the books it may have, each a map from price to size
  Start,         \* Coin -> its book at first
  Session,       \* connections
  Wanted,        \* Session -> the subscriptions its client may ask for
  MAX_LEVELS,
  L2_BACKFILL_COINS_PER_FLUSH,
  ChannelDepth,  \* capacity of the broadcast channel
  InstallEvicts, \* may an install lose a coin's book before any flush has told of it?
  Ticking,       \* coins whose events may leave the book as it was
  MaxEvents      \* bound: book changes, installs, connections and subscriptions

EmptyBook == [p \in {} |-> 0]
Kind == {"l2Book", "l2Diff"}
Base == 1
Subscription == UNION {Wanted[s] : s \in Session}
Shape == {sub.shape : sub \in Subscription} \cup {Base}

ASSUME FeedAssumption ==
  /\ Coin \subseteq Nat /\ IsFiniteSet(Coin) /\ IsFiniteSet(Session)
  /\ Start \in [Coin -> UNION {Books[c] : c \in Coin}] /\ \A c \in Coin : Start[c] \in Books[c]
  /\ \A sub \in Subscription : sub \in [kind : Kind, coin : Coin, shape : Nat \ {0}, depth : 1..MAX_LEVELS]
  /\ L2_BACKFILL_COINS_PER_FLUSH \in Nat \ {0}
  /\ ChannelDepth \in Nat \ {0}
  /\ InstallEvicts \in BOOLEAN
  /\ MaxEvents \in Nat

VARIABLES
  book,         \* Coin -> price -> size; empty when the coin is evicted
  pending,      \* pending_dirty_l2_coins
  cache,        \* l2_snapshot_cache: Coin -> Shape -> levels, where built
  lastActive,   \* last_active_l2_params
  needs_resync, \* has a batch failed since the last install?
  refs,         \* active_l2_params: Shape -> how many guards are held
  status,       \* Session -> "off", "joining" (receiver made, lock awaited) or "on"
  inbox,        \* Session -> broadcasts not yet received
  lagged,       \* Session -> did the channel drop some?
  force_full,   \* Session -> force_full_l2
  universe,     \* Session -> the coins it accepts subscriptions on
  missed,       \* Session -> has it missed a change of the coin set? (history)
  subs,         \* Session -> its subscriptions
  guards,       \* Session -> the shapes it holds a guard for
  last_l2,      \* Session -> l2Book subscription -> levels last sent
  last_l2_diff, \* Session -> the l2Diff subscriptions served
  shows,        \* Session -> subscription -> the client's levels
  events        \* how much of MaxEvents is used

listenerVars == <<book, pending, cache, lastActive, needs_resync>>
sessionVars == <<status, inbox, lagged, force_full, universe, missed, subs, guards, last_l2, last_l2_diff, shows>>
vars == <<listenerVars, refs, sessionVars, events>>

-----------------------------------------------------------------------------
\* A map without some keys.
Without(f, S) == Restrict(f, DOMAIN f \ S)

\* The first n members of a set of coins, in map order.
First(S, n) == {c \in S : Cardinality({d \in S : d < c}) < n}

\* The best n levels of the side.
Truncate(levels, n) ==
  Restrict(levels, {p \in DOMAIN levels : Cardinality({q \in DOMAIN levels : q > p}) < n})

\* Aggregate the whole side, then keep the best MAX_LEVELS buckets.
bucket(p, shape) == (p \div shape) * shape

to_l2_snapshot(b, shape) ==
  LET Merged(q) == {p \in DOMAIN b : bucket(p, shape) = q}
  IN  Truncate([q \in {bucket(p, shape) : p \in DOMAIN b} |->
                  FoldSet(LAMBDA p, sum : b[p] + sum, 0, Merged(q))], MAX_LEVELS)

compute_l2_variants_for_coin(b, active) ==
  [shape \in active \cup {Base} |-> to_l2_snapshot(b, shape)]

Present == {c \in Coin : book[c] # EmptyBook}
Connected == {s \in Session : status[s] # "off"}
Live == {s \in Session : status[s] = "on"}
Active == {shape \in DOMAIN refs : refs[shape] > 0}

\* A coin missing from the broadcast stands for an empty book.
Export(snapshots, sub) ==
  IF sub.coin \in DOMAIN snapshots /\ sub.shape \in DOMAIN snapshots[sub.coin]
  THEN Truncate(snapshots[sub.coin][sub.shape], sub.depth)
  ELSE EmptyBook

\* What changed from one state of a side to the next, by price.
Between(old, new) ==
  [upd |-> Restrict(new, {p \in DOMAIN new : p \notin DOMAIN old \/ old[p] # new[p]}),
   del |-> DOMAIN old \ DOMAIN new]

\* The client's part: tools/l2diff-verify.py.
apply_side(levels, diff) ==
  LET kept == [p \in DOMAIN levels \cup DOMAIN diff.upd |->
                 IF p \in DOMAIN diff.upd THEN diff.upd[p] ELSE levels[p]]
  IN  Without(kept, diff.del)

-----------------------------------------------------------------------------
\* The listener.

Spend == events < MaxEvents /\ events' = events + 1

\* Mutant: only the coins of the last batch are marked.
ConflateLast(c) == pending' = {c}

\* The coins of every batch since the last flush are marked for rebuild.
Conflate(c) == pending' = pending \cup {c}

\* A batch of events changes a coin's book, or touches it and leaves it as it was.
BookChanges ==
  /\ \E c \in Coin : \E b \in Books[c] :
        /\ IF b = book[c] THEN c \in Present \cap Ticking /\ UNCHANGED events ELSE Spend
        /\ book' = [book EXCEPT ![c] = b]
        /\ Conflate(c)
  /\ UNCHANGED <<cache, lastActive, needs_resync, refs, sessionVars>>

\* A batch fails after part of it was applied: the book is marked, the coin is not.
BatchFails ==
  /\ Spend
  /\ \E c \in Coin : \E b \in Books[c] \ {book[c]} :
        /\ ~InstallEvicts => b # EmptyBook
        /\ book' = [book EXCEPT ![c] = b]
  /\ needs_resync' = TRUE
  /\ UNCHANGED <<pending, cache, lastActive, refs, sessionVars>>

\* A snapshot is installed, in answer to a failed batch or to a loss seen elsewhere: the
\* books are the node's, the cache and the conflation buffer are dropped.
finish_install ==
  /\ IF needs_resync THEN UNCHANGED events ELSE Spend
  /\ \E b \in [Coin -> UNION {Books[c] : c \in Coin}] :
        /\ \A c \in Coin : b[c] \in Books[c]
        /\ ~InstallEvicts => \A c \in Present \cup pending : b[c] # EmptyBook
        /\ book' = b
  /\ needs_resync' = FALSE
  /\ pending' = {}
  /\ cache' = EmptyBook
  /\ lastActive' = {}
  /\ UNCHANGED <<refs, sessionVars>>

\* The cache a flush starts from: none of it when the shapes wanted have changed.
KeptCache == IF Active = lastActive THEN cache ELSE EmptyBook

\* A dirty coin is rebuilt, and some of those the cache lacks; an evicted one leaves it.
ToCompute ==
  (pending \cap Present)
    \cup First((Present \ DOMAIN KeptCache) \ pending, L2_BACKFILL_COINS_PER_FLUSH)

Rebuilt ==
  [c \in (DOMAIN KeptCache \cap Present) \cup ToCompute |->
     IF c \in ToCompute THEN compute_l2_variants_for_coin(book[c], Active) ELSE KeptCache[c]]

\* Mutant: a coin whose book is gone is not mentioned.
RecomputedPresent == ToCompute

\* A coin whose book is gone counts as recomputed too: its subscribers must be told.
Recomputed == ToCompute \cup (pending \ Present)

\* Mutant: only an evicted coin counts.
CoinEvicted == DOMAIN KeptCache \ Present # {}

CoinSetChanged == DOMAIN KeptCache \ Present # {} \/ ToCompute \ DOMAIN KeptCache # {}

Broadcast(m) ==
  LET Full(s) == Len(inbox[s]) = ChannelDepth
  IN  /\ inbox' = [s \in Session |->
                     IF s \notin Connected THEN inbox[s]
                     ELSE Append(IF Full(s) THEN Tail(inbox[s]) ELSE inbox[s], m)]
      /\ lagged' = [s \in Session |-> lagged[s] \/ (s \in Connected /\ Full(s))]
      /\ missed' = [s \in Session |->
                      missed[s] \/ (s \in Connected /\ Full(s) /\ Head(inbox[s]).universe # {})]

flush_l2_if_due ==
  /\ pending # {}
  /\ Connected # {}
  /\ Active # {}
  /\ cache' = Rebuilt
  /\ lastActive' = Active
  /\ pending' = {}
  /\ Broadcast([l2_snapshots |-> Rebuilt,
                previous |-> Restrict(KeptCache, pending \cap DOMAIN KeptCache),
                dirty |-> Recomputed,
                universe |-> IF CoinSetChanged THEN {Present} ELSE {}])
  /\ UNCHANGED <<book, needs_resync, refs, status, force_full, universe, subs, guards, last_l2, last_l2_diff, shows, events>>

-----------------------------------------------------------------------------
\* The sessions.

\* handle_socket makes its receiver before it waits for the listener's lock.
Connect(s) ==
  /\ status[s] = "off"
  /\ Spend
  /\ status' = [status EXCEPT ![s] = "joining"]
  /\ UNCHANGED <<listenerVars, refs, inbox, lagged, force_full, universe, missed, subs, guards, last_l2, last_l2_diff, shows>>

ReadUniverse(s) ==
  /\ status[s] = "joining"
  /\ status' = [status EXCEPT ![s] = "on"]
  /\ universe' = [universe EXCEPT ![s] = Present]
  /\ missed' = [missed EXCEPT ![s] = @ \/ DOMAIN cache \ Present # {}]
  /\ UNCHANGED <<listenerVars, refs, inbox, lagged, force_full, subs, guards, last_l2, last_l2_diff, shows, events>>

\* The connection ends, for whatever reason: dropping its guards releases them.
Disconnect(s) ==
  /\ status[s] = "on"
  /\ status' = [status EXCEPT ![s] = "off"]
  /\ inbox' = [inbox EXCEPT ![s] = <<>>]
  /\ lagged' = [lagged EXCEPT ![s] = FALSE]
  /\ force_full' = [force_full EXCEPT ![s] = FALSE]
  /\ universe' = [universe EXCEPT ![s] = {}]
  /\ missed' = [missed EXCEPT ![s] = FALSE]
  /\ subs' = [subs EXCEPT ![s] = {}]
  /\ guards' = [guards EXCEPT ![s] = {}]
  /\ last_l2' = [last_l2 EXCEPT ![s] = EmptyBook]
  /\ last_l2_diff' = [last_l2_diff EXCEPT ![s] = {}]
  /\ shows' = [shows EXCEPT ![s] = EmptyBook]
  /\ refs' = [shape \in Shape |-> IF shape \in guards[s] THEN refs[shape] - 1 ELSE refs[shape]]
  /\ UNCHANGED <<listenerVars, events>>

\* The coin is known to the session; the other parameters are those of Wanted.
validate(s, sub) == sub.coin \in universe[s]

Subscribe(s, sub) ==
  /\ status[s] = "on"
  /\ validate(s, sub)
  /\ sub \notin subs[s]
  /\ Spend
  /\ subs' = [subs EXCEPT ![s] = @ \cup {sub}]
  /\ guards' = [guards EXCEPT ![s] = @ \cup {sub.shape}]
  /\ refs' = IF sub.shape \in guards[s] THEN refs ELSE [refs EXCEPT ![sub.shape] = @ + 1]
  /\ UNCHANGED <<listenerVars, status, inbox, lagged, force_full, universe, missed, last_l2, last_l2_diff, shows>>

\* Mutant: only the subscriptions of the same channel are consulted.
StillUsedByKind(s, sub) ==
  \E other \in subs[s] \ {sub} : other.shape = sub.shape /\ other.kind = sub.kind

\* Does another subscription of the connection, on either channel, need the shape?
StillUsed(s, sub) == \E other \in subs[s] \ {sub} : other.shape = sub.shape

\* What was sent on a subscription is forgotten when it ends.
Forget(s, sub) ==
  /\ last_l2' = [last_l2 EXCEPT ![s] = Without(@, {sub})]
  /\ last_l2_diff' = [last_l2_diff EXCEPT ![s] = @ \ {sub}]

\* The request is validated like a subscription: not for a coin the universe lacks.
Unsubscribe(s, sub) ==
  /\ status[s] = "on"
  /\ validate(s, sub)
  /\ sub \in subs[s]
  /\ subs' = [subs EXCEPT ![s] = @ \ {sub}]
  /\ Forget(s, sub)
  /\ shows' = [shows EXCEPT ![s] = Without(@, {sub})]
  /\ IF StillUsed(s, sub)
     THEN UNCHANGED <<guards, refs>>
     ELSE /\ guards' = [guards EXCEPT ![s] = @ \ {sub.shape}]
          /\ refs' = [refs EXCEPT ![sub.shape] = @ - 1]
  /\ UNCHANGED <<listenerVars, status, inbox, lagged, force_full, universe, missed, events>>

\* The receiver finds that messages were dropped.
RecvLagged(s) ==
  /\ status[s] = "on"
  /\ lagged[s]
  /\ lagged' = [lagged EXCEPT ![s] = FALSE]
  /\ force_full' = [force_full EXCEPT ![s] = TRUE]
  /\ UNCHANGED <<listenerVars, refs, status, inbox, universe, missed, subs, guards, last_l2, last_l2_diff, shows, events>>

\* An l2Book subscription is sent the whole book when it differs from the last one sent.
\* A shape that has not been built yet for the coin is left to the next flush.
SendsBook(s, sub, m) ==
  /\ sub.kind = "l2Book"
  /\ force_full[s] \/ sub.coin \in m.dirty \/ sub \notin DOMAIN last_l2[s]
  /\ sub.coin \in DOMAIN m.l2_snapshots => sub.shape \in DOMAIN m.l2_snapshots[sub.coin]
  /\ sub \in DOMAIN last_l2[s] => last_l2[s][sub] # Export(m.l2_snapshots, sub)

\* Mutant: a lag is no reason to send the whole book.
NeedsWholeUnforced(s, sub, m) ==
  sub \notin last_l2_diff[s] \/ sub.coin \notin DOMAIN m.previous

\* An l2Diff subscription needs the whole book when it was never served, after a lag, and
\* when there is nothing to compare with.
NeedsWhole(s, sub, m) ==
  sub \notin last_l2_diff[s] \/ force_full[s] \/ sub.coin \notin DOMAIN m.previous

SendsWhole(s, sub, m) ==
  /\ sub.kind = "l2Diff"
  /\ NeedsWhole(s, sub, m)
  /\ sub \notin last_l2_diff[s] \/ force_full[s] \/ sub.coin \in m.dirty

DiffOf(sub, m) == Between(Export(m.previous, sub), Export(m.l2_snapshots, sub))

SendsDiff(s, sub, m) ==
  /\ sub.kind = "l2Diff"
  /\ ~NeedsWhole(s, sub, m)
  /\ sub.coin \in m.dirty
  /\ sub.shape \in DOMAIN m.previous[sub.coin]
  /\ DiffOf(sub, m) # Between(EmptyBook, EmptyBook)

\* One broadcast, for every subscription of the session.
RecvSnapshot(s) ==
  /\ status[s] = "on"
  /\ ~lagged[s]
  /\ inbox[s] # <<>>
  /\ LET m     == Head(inbox[s])
         books == {sub \in subs[s] : SendsBook(s, sub, m)}
         whole == {sub \in subs[s] : SendsWhole(s, sub, m)}
         diffs == {sub \in subs[s] : SendsDiff(s, sub, m)}
     IN  /\ universe' = [universe EXCEPT ![s] = IF m.universe = {} THEN @ ELSE UNION m.universe]
         /\ missed' = [missed EXCEPT ![s] = @ /\ m.universe = {}]
         /\ last_l2' = [last_l2 EXCEPT ![s] =
                          [sub \in DOMAIN @ \cup books |->
                             IF sub \in books THEN Export(m.l2_snapshots, sub) ELSE @[sub]]]
         /\ last_l2_diff' = [last_l2_diff EXCEPT ![s] = @ \cup whole \cup diffs]
         /\ shows' = [shows EXCEPT ![s] =
                        [sub \in DOMAIN @ \cup books \cup whole \cup diffs |->
                           IF sub \in books \cup whole THEN Export(m.l2_snapshots, sub)
                           ELSE IF sub \in diffs THEN apply_side(@[sub], DiffOf(sub, m)) ELSE @[sub]]]
  /\ inbox' = [inbox EXCEPT ![s] = Tail(@)]
  /\ force_full' = [force_full EXCEPT ![s] = FALSE]
  /\ UNCHANGED <<listenerVars, refs, status, lagged, subs, guards, events>>

-----------------------------------------------------------------------------
\* Ready: the first snapshot has been installed.
Init ==
  /\ book = Start
  /\ pending = {}
  /\ cache = EmptyBook
  /\ lastActive = {}
  /\ needs_resync = FALSE
  /\ refs = [shape \in Shape |-> 0]
  /\ status = [s \in Session |-> "off"]
  /\ inbox = [s \in Session |-> <<>>]
  /\ lagged = [s \in Session |-> FALSE]
  /\ force_full = [s \in Session |-> FALSE]
  /\ universe = [s \in Session |-> {}]
  /\ missed = [s \in Session |-> FALSE]
  /\ subs = [s \in Session |-> {}]
  /\ guards = [s \in Session |-> {}]
  /\ last_l2 = [s \in Session |-> EmptyBook]
  /\ last_l2_diff = [s \in Session |-> {}]
  /\ shows = [s \in Session |-> EmptyBook]
  /\ events = 0

Client(s) == \E sub \in Wanted[s] : Subscribe(s, sub) \/ Unsubscribe(s, sub)

SessionStep(s) ==
  Connect(s) \/ ReadUniverse(s) \/ Disconnect(s) \/ Client(s) \/ RecvLagged(s) \/ RecvSnapshot(s)

Next ==
  \/ BookChanges
  \/ BatchFails
  \/ finish_install
  \/ flush_l2_if_due
  \/ \E s \in Session : SessionStep(s)

\* The market never falls silent, a marked book is replaced, the flush ticker keeps
\* ticking and a session
\* keeps reading; SF, since another lap of the channel may come before it has read.
Fairness ==
  /\ WF_vars(BookChanges)
  /\ WF_vars(needs_resync /\ finish_install)
  /\ WF_vars(flush_l2_if_due)
  /\ \A s \in Session : WF_vars(ReadUniverse(s)) /\ WF_vars(RecvLagged(s)) /\ SF_vars(RecvSnapshot(s))

Spec == Init /\ [][Next]_vars /\ Fairness
-----------------------------------------------------------------------------
TypeOK ==
  /\ \A c \in Coin : book[c] \in Books[c]
  /\ pending \subseteq Coin
  /\ DOMAIN cache \subseteq Coin /\ \A c \in DOMAIN cache : DOMAIN cache[c] \subseteq Shape
  /\ lastActive \subseteq Shape
  /\ needs_resync \in BOOLEAN
  /\ refs \in [Shape -> 0..Cardinality(Session)]
  /\ status \in [Session -> {"off", "joining", "on"}]
  /\ \A s \in Session :
       /\ Len(inbox[s]) <= ChannelDepth
       /\ lagged[s] \in BOOLEAN /\ force_full[s] \in BOOLEAN
       /\ universe[s] \subseteq Coin /\ missed[s] \in BOOLEAN
       /\ subs[s] \subseteq Wanted[s]
       /\ guards[s] \subseteq Shape
       /\ DOMAIN last_l2[s] \subseteq subs[s]
       /\ last_l2_diff[s] \subseteq subs[s]
       /\ DOMAIN shows[s] \subseteq subs[s]
  /\ events \in 0..MaxEvents

\* In a book that is not marked, a coin's cached views are those of its book unless the
\* coin waits to be rebuilt: the conflation buffer is drained only by a flush that rebuilds (flush_l2_if_due,
\* "draining anywhere else would clear the coins without refreshing the cache").
CacheIsFresh ==
  ~needs_resync => \A c \in DOMAIN cache \ pending : cache[c] = compute_l2_variants_for_coin(book[c], DOMAIN cache[c])

\* A session that has read every broadcast shows its clients what the listener last sent,
\* on both channels: through lags, unsubscribing and coming back, changes of the shape
\* set, installs, evictions and diffs at a depth (send_ws_data_from_snapshot,
\* send_ws_data_from_l2_diff).
CaughtUp(s) == status[s] = "on" /\ inbox[s] = <<>> /\ ~lagged[s] /\ ~force_full[s]

FollowsBroadcast ==
  \A s \in Session : CaughtUp(s) =>
    \A sub \in DOMAIN shows[s] :
       sub.coin \in DOMAIN cache /\ sub.shape \in DOMAIN cache[sub.coin]
         => shows[s][sub] = Export(cache, sub)

\* A session that has read every broadcast accepts subscriptions on every coin the
\* listener has built: also when the set changed between the making of its receiver and
\* its reading of the coins, and when an install dropped the cache (handle_socket,
\* InternalMessage::Snapshot).  Two ways to miss a coin are excepted: a lag that drops
\* the broadcast with the new coin set, and coins read while an evicted one is still
\* cached, which may be back before the flush that would tell.
UniverseFollows ==
  \A s \in Session : CaughtUp(s) /\ ~missed[s] => DOMAIN cache \cap Present \subseteq universe[s]

\* A shape is counted once for each connection with a subscription that needs it, on
\* either channel (receive_client_message, L2ParamGuard): it is built while someone
\* needs it, and no longer.
RegistryExact ==
  \A shape \in Shape :
     refs[shape] = Cardinality({s \in Session : \E sub \in subs[s] : sub.shape = shape})

\* A subscriber is eventually shown the book as it is, if the market lets it rest: no
\* flush starves a coin (pending_dirty_l2_coins), and the backfill after a cleared cache
\* reaches every coin (L2_BACKFILL_COINS_PER_FLUSH).
Current(sub) == Truncate(to_l2_snapshot(book[sub.coin], sub.shape), sub.depth)

Shown(s, sub) == sub \in DOMAIN shows[s] /\ shows[s][sub] = Current(sub)

SubscriberCatchesUp ==
  \A s \in Session : \A sub \in Wanted[s] :
     sub \in subs[s] ~> sub \notin subs[s] \/ Shown(s, sub)

\* A subscriber of a coin whose book is gone is told so.  The comment in
\* compute_l2_snapshots_incremental: "connections must be told the book is now empty, or
\* they keep the last snapshot forever".
GoneIsTold ==
  \A s \in Session : \A sub \in Wanted[s] :
     sub \in subs[s] /\ sub.coin \notin Present
       ~> sub \notin subs[s] \/ sub.coin \in Present \/ Shown(s, sub)
=============================================================================
