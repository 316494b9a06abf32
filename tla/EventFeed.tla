----------------------------- MODULE EventFeed -----------------------------
(***************************************************************************)
(* The channels that follow the event streams: l4Book, bookDiffs and       *)
(* orderUpdates (raw events), trades (paired fills) and bbo.  The listener *)
(* (listeners/order_book/mod.rs) groups and broadcasts a family of events  *)
(* only while some subscription holds a guard on it; a session             *)
(* (servers/websocket_server.rs) takes the broadcasts from a bounded       *)
(* channel that drops the oldest.  An l4Book subscription begins with a    *)
(* dump of the book, from a cache shared with GET /l4Book or built under   *)
(* the listener's lock.                                                    *)
(*                                                                         *)
(* One coin.  Its status and diff batches are numbered in the order they   *)
(* are applied; a dump is the number of the last one in it.  The cache's   *)
(* lifetime is any time; its size limit, the gzip copy, heartbeats and the *)
(* wire frames are left out.                                               *)
(***************************************************************************)
EXTENDS Naturals, Sequences, FiniteSets

CONSTANTS
  Session,       \* connections
  Mixes,         \* Session -> the channels its client may ask for, one per scenario
  Http,          \* a GET /l4Book request
  BUILD_PERMITS, \* L4_SNAPSHOT_BUILD_PERMITS
  ChannelDepth,  \* capacity of the broadcast channel
  Quote,         \* prices and sizes at the top of the book
  MaxEvents,     \* bound: status and diff batches
  MaxFills       \* bound: fill batches, two for each trade

Channel == {"l4Book", "bookDiffs", "orderUpdates", "trades", "bbo"}
Family == {"L4Statuses", "L4Diffs", "Trades", "Bbo"}

ASSUME EventFeedAssumption ==
  /\ IsFiniteSet(Session) /\ Quote # {}
  /\ \A w \in Mixes : w \in [Session -> SUBSET Channel]
  /\ Http \notin Session
  /\ BUILD_PERMITS \in Nat \ {0} /\ ChannelDepth \in Nat \ {0}
  /\ MaxEvents \in Nat /\ MaxFills \in Nat

VARIABLES
  wanted,      \* the scenario
  applied,     \* number of the last status or diff batch applied to the book
  top,         \* best bid and offer: {} without a book, else {[q, n]}: px and sz, and orders
  fills,       \* fill batches taken
  prev,        \* TradePairer: the legs waiting, at most one
  active_subs, \* Family -> guards held
  cache,       \* L4SnapshotCache: {} or {the dump}
  phase,       \* Session or Http -> "off", "open", then "wait" (for a permit), "clone"
               \* (permit held, lock awaited) and "insert" (body made) while it builds a dump
  body,        \* Session or Http -> {} or {the dump being made}
  subs,        \* Session -> SubscriptionManager
  sub_guards,  \* Session -> the subscriptions it holds guards for
  inbox,       \* Session -> broadcasts not yet received
  last_bbo,    \* Session -> {} or {the quote last sent}
  \* what the clients have been sent
  dump,        \* Session -> {} or {the dump its l4Book began with}
  got,         \* Session -> the batches it got on l4Book since
  shows,       \* Session -> {} or {the quote it shows}
  printed,     \* Session -> the trades it got
  \* history
  grouped,     \* fills that reached the pairer
  traded,      \* trades broadcast
  untold,      \* has the top not been broadcast since it last changed?
  missed,      \* Session -> broadcasts the channel dropped: batches, "Bbo"
  since,       \* Session -> batches applied when it asked for l4Book
  cached,      \* Session -> was its dump taken from the cache?
  heard        \* Session -> has a quote reached it since it asked for bbo?

bookVars == <<applied, top>>
tradeVars == <<fills, prev>>
buildVars == <<cache, phase, body>>
sessionVars == <<subs, sub_guards, inbox, last_bbo>>
clientVars == <<dump, got, shows, printed>>
historyVars == <<grouped, traded, untold, missed, since, cached, heard>>
vars == <<wanted, bookVars, tradeVars, active_subs, buildVars, sessionVars, clientVars, historyVars>>

-----------------------------------------------------------------------------
(* Guards: which families are worth broadcasting.                          *)

DiffsOnly(ch) ==   \* mutant: an l4Book subscription does not count for the statuses
  CASE ch \in {"l4Book", "bookDiffs"} -> {"L4Diffs"}
    [] ch = "orderUpdates" -> {"L4Statuses"}
    [] ch = "trades" -> {"Trades"}
    [] ch = "bbo" -> {"Bbo"}

acquire_for(ch) ==
  CASE ch = "l4Book" -> {"L4Statuses", "L4Diffs"}
    [] ch = "bookDiffs" -> {"L4Diffs"}
    [] ch = "orderUpdates" -> {"L4Statuses"}
    [] ch = "trades" -> {"Trades"}
    [] ch = "bbo" -> {"Bbo"}

Wants(f) == active_subs[f] > 0

Acquire(ch) ==
  active_subs' = [f \in Family |-> active_subs[f] + (IF f \in acquire_for(ch) THEN 1 ELSE 0)]

\* Dropping the guards of a set of subscriptions.
Release(S) ==
  active_subs' = [f \in Family |-> active_subs[f] - Cardinality({ch \in S : f \in acquire_for(ch)})]

-----------------------------------------------------------------------------
(* The broadcast channel.  A receiver that finds messages dropped only     *)
(* sets force_full_l2, which these channels do not look at.                *)

Online == {c \in Session : phase[c] # "off"}

\* What stays of a queue that may be over its capacity.
Ring(q) == IF Len(q) > ChannelDepth THEN SubSeq(q, Len(q) - ChannelDepth + 1, Len(q)) ELSE q

Broadcast(msgs) ==
  /\ inbox' = [c \in Session |-> IF c \in Online THEN Ring(inbox[c] \o msgs) ELSE inbox[c]]
  /\ missed' = [c \in Session |->
       IF c \in Online
         THEN LET q == inbox[c] \o msgs
              IN  missed[c] \cup {q[i] : i \in 1..(Len(q) - Len(Ring(q)))}
         ELSE missed[c]]

EventMsg(f) == [kind |-> f, n |-> applied + 1, top |-> {}]
BboMsg(t) == [kind |-> "Bbo", n |-> 0, top |-> t]
TradeMsg(t) == [kind |-> "Trades", n |-> t, top |-> {}]

-----------------------------------------------------------------------------
(* apply_event_batch.                                                      *)

Tops == {{}} \cup {{[q |-> q, n |-> n]} : q \in Quote, n \in 1..2}

\* A batch of statuses or diffs is broadcast, then applied; the top of the book
\* is broadcast when the coin changed, be it below its top.
EventMsgs(f) == IF Wants(f) THEN <<EventMsg(f)>> ELSE <<>>
BboMsgs(t) == IF Wants("Bbo") THEN <<BboMsg(t)>> ELSE <<>>

ApplyEvent(f, t, changed) ==
  /\ applied < MaxEvents
  /\ t # top => changed
  /\ applied' = applied + 1
  /\ top' = t
  /\ Broadcast(EventMsgs(f) \o (IF changed THEN BboMsgs(t) ELSE <<>>))
  /\ untold' = IF changed THEN ~Wants("Bbo") ELSE untold
  /\ UNCHANGED <<wanted, tradeVars, active_subs, buildVars, subs, sub_guards, last_bbo, clientVars,
                 grouped, traded, since, cached, heard>>

\* An event of the batch fails to apply: the rest is left out, and no coin counts
\* as changed although some may be.
ApplyFails(f, t) ==
  /\ applied < MaxEvents
  /\ applied' = applied + 1
  /\ top' = t
  /\ Broadcast(EventMsgs(f))
  /\ untold' = (untold \/ t # top)
  /\ UNCHANGED <<wanted, tradeVars, active_subs, buildVars, subs, sub_guards, last_bbo, clientVars,
                 grouped, traded, since, cached, heard>>

\* finish_install replaces the book and broadcasts nothing of these families.
Install(t) ==
  /\ t # top
  /\ top' = t
  /\ untold' = TRUE
  /\ UNCHANGED <<wanted, applied, tradeVars, active_subs, buildVars, sessionVars, clientVars,
                 grouped, traded, missed, since, cached, heard>>

\* Fills: the two legs of trade t are fills 2t - 1 and 2t.
tid(i) == (i + 1) \div 2

PairKeepsOld(i) ==   \* mutant: a leg that does not match leaves the old one waiting
  IF \E p \in prev : tid(p) = tid(i) THEN {} ELSE IF prev = {} THEN {i} ELSE prev

\* TradePairer::group for one fill: what waits afterwards.
PrevAfter(i) == IF \E p \in prev : tid(p) = tid(i) THEN {} ELSE {i}

Paired(i) == \E p \in prev : tid(p) = tid(i)

TakeFill ==
  LET i == fills + 1
  IN  /\ fills < MaxFills
      /\ fills' = i
      /\ IF Wants("Trades")
           THEN /\ prev' = PrevAfter(i)
                /\ Broadcast(IF Paired(i) THEN <<TradeMsg(tid(i))>> ELSE <<>>)
                /\ grouped' = grouped \cup {i}
                /\ traded' = IF Paired(i) THEN traded \cup {tid(i)} ELSE traded
           ELSE UNCHANGED <<prev, inbox, missed, grouped, traded>>
      /\ UNCHANGED <<wanted, bookVars, active_subs, buildVars, subs, sub_guards, last_bbo, clientVars,
                     untold, since, cached, heard>>

\* A line of the fills file that does not parse.
FillLost ==
  /\ fills < MaxFills
  /\ fills' = fills + 1
  /\ UNCHANGED <<wanted, bookVars, prev, active_subs, buildVars, sessionVars, clientVars, historyVars>>

-----------------------------------------------------------------------------
(* The dump an l4Book subscription begins with.                            *)

Builders == Session \cup {Http}
PermitFree == Cardinality({b \in Builders : phase[b] \in {"clone", "insert"}}) < BUILD_PERMITS

\* b has its dump d.  An l4Book client is sent it before any update.
Serve(b, d, hit) ==
  /\ phase' = [phase EXCEPT ![b] = IF b = Http THEN "off" ELSE "open"]
  /\ dump' = IF b = Http THEN dump ELSE [dump EXCEPT ![b] = {d}]
  /\ cached' = IF b = Http THEN cached ELSE [cached EXCEPT ![b] = hit]

GetL4Book ==
  /\ phase[Http] = "off"
  /\ cache = {}
  /\ phase' = [phase EXCEPT ![Http] = "wait"]
  /\ UNCHANGED <<wanted, bookVars, tradeVars, active_subs, cache, body, sessionVars, clientVars, historyVars>>

\* The semaphore, and the second look at the cache.
TakePermit(b) ==
  /\ phase[b] = "wait"
  /\ PermitFree
  /\ IF cache # {}
       THEN \E d \in cache : Serve(b, d, TRUE)
       ELSE phase' = [phase EXCEPT ![b] = "clone"] /\ UNCHANGED <<dump, cached>>
  /\ UNCHANGED <<wanted, bookVars, tradeVars, active_subs, cache, body, sessionVars, got, shows, printed,
                 grouped, traded, untold, missed, since, heard>>

\* compute_snapshot_for_coin, under the lock.
CloneBook(b) ==
  /\ phase[b] = "clone"
  /\ top # {}
  /\ body' = [body EXCEPT ![b] = {applied}]
  /\ phase' = [phase EXCEPT ![b] = "insert"]
  /\ UNCHANGED <<wanted, bookVars, tradeVars, active_subs, cache, sessionVars, clientVars, historyVars>>

\* mutant: the subscription is taken back, its guards are kept
RefusedHoldsGuards(b) ==
  /\ subs' = [c \in Session |-> IF c = b THEN subs[c] \ {"l4Book"} ELSE subs[c]]
  /\ UNCHANGED <<sub_guards, active_subs>>

\* The error path: the subscription is taken back with its guards.
Refused(b) ==
  /\ subs' = [c \in Session |-> IF c = b THEN subs[c] \ {"l4Book"} ELSE subs[c]]
  /\ sub_guards' = [c \in Session |-> IF c = b THEN sub_guards[c] \ {"l4Book"} ELSE sub_guards[c]]
  /\ IF b = Http THEN UNCHANGED active_subs ELSE Release({"l4Book"})

\* The coin has no book.
CloneFails(b) ==
  /\ phase[b] = "clone"
  /\ top = {}
  /\ phase' = [phase EXCEPT ![b] = IF b = Http THEN "off" ELSE "open"]
  /\ Refused(b)
  /\ UNCHANGED <<wanted, bookVars, tradeVars, cache, body, inbox, last_bbo, clientVars, historyVars>>

\* The body is rendered outside the lock and cached, over any other there.
InsertBody(b) ==
  /\ phase[b] = "insert"
  /\ cache' = body[b]
  /\ body' = [body EXCEPT ![b] = {}]
  /\ \E d \in body[b] : Serve(b, d, FALSE)
  /\ UNCHANGED <<wanted, bookVars, tradeVars, active_subs, sessionVars, got, shows, printed,
                 grouped, traded, untold, missed, since, heard>>

\* L4_SNAPSHOT_CACHE_TTL passes.
Expire ==
  /\ cache # {}
  /\ cache' = {}
  /\ UNCHANGED <<wanted, bookVars, tradeVars, active_subs, phase, body, sessionVars, clientVars, historyVars>>

-----------------------------------------------------------------------------
(* Sessions.                                                               *)

Connect(c) ==
  /\ phase[c] = "off"
  /\ wanted[c] # {}
  /\ phase' = [phase EXCEPT ![c] = "open"]
  /\ UNCHANGED <<wanted, bookVars, tradeVars, active_subs, cache, body, sessionVars, clientVars, historyVars>>

\* receive_client_message: the guards first, then, for l4Book, a cached dump or
\* the wait for one.
Subscribe(c, ch) ==
  /\ phase[c] = "open"
  /\ ch \in wanted[c] \ subs[c]
  /\ subs' = [subs EXCEPT ![c] = @ \cup {ch}]
  /\ sub_guards' = [sub_guards EXCEPT ![c] = @ \cup {ch}]
  /\ Acquire(ch)
  /\ IF ch # "l4Book" THEN UNCHANGED <<phase, dump, cached, since>>
     ELSE /\ since' = [since EXCEPT ![c] = applied]
          /\ IF cache # {} THEN \E d \in cache : Serve(c, d, TRUE)
             ELSE phase' = [phase EXCEPT ![c] = "wait"] /\ UNCHANGED <<dump, cached>>
  /\ UNCHANGED <<wanted, bookVars, tradeVars, cache, body, inbox, last_bbo, got, shows, printed,
                 grouped, traded, untold, missed, heard>>

KeepLastBbo(c, ch) == last_bbo[c]   \* mutant: what was sent is remembered
\* The dedup entry goes with the subscription.
ForgetBbo(c, ch) == IF ch = "bbo" THEN {} ELSE last_bbo[c]

Unsubscribe(c, ch) ==
  /\ phase[c] = "open"
  /\ ch \in subs[c]
  /\ subs' = [subs EXCEPT ![c] = @ \ {ch}]
  /\ sub_guards' = [sub_guards EXCEPT ![c] = @ \ {ch}]
  /\ Release({ch} \cap sub_guards[c])
  /\ last_bbo' = [last_bbo EXCEPT ![c] = ForgetBbo(c, ch)]
  /\ dump' = IF ch = "l4Book" THEN [dump EXCEPT ![c] = {}] ELSE dump
  /\ got' = IF ch = "l4Book" THEN [got EXCEPT ![c] = {}] ELSE got
  /\ cached' = IF ch = "l4Book" THEN [cached EXCEPT ![c] = FALSE] ELSE cached
  /\ shows' = IF ch = "bbo" THEN [shows EXCEPT ![c] = {}] ELSE shows
  /\ heard' = IF ch = "bbo" THEN [heard EXCEPT ![c] = FALSE] ELSE heard
  /\ UNCHANGED <<wanted, bookVars, tradeVars, buildVars, inbox, printed,
                 grouped, traded, untold, missed, since>>

\* send_ws_data_from_bbo: a quote equal in price and size to the last is not
\* sent.  An empty book is {} and is a quote like any other.
Quoted(t) == {b.q : b \in t}
SendsBbo(c, m) == last_bbo[c] # {Quoted(m.top)}

\* One broadcast, for all the subscriptions of the session.
Recv(c) ==
  /\ phase[c] = "open"
  /\ inbox[c] # <<>>
  /\ LET m   == Head(inbox[c])
         bbo == m.kind = "Bbo" /\ "bbo" \in subs[c]
     IN  /\ inbox' = [inbox EXCEPT ![c] = Tail(@)]
         /\ got' = IF m.kind \in {"L4Statuses", "L4Diffs"} /\ "l4Book" \in subs[c]
                     THEN [got EXCEPT ![c] = @ \cup {m.n}] ELSE got
         /\ printed' = IF m.kind = "Trades" /\ "trades" \in subs[c]
                         THEN [printed EXCEPT ![c] = Append(@, m.n)] ELSE printed
         /\ last_bbo' = IF bbo /\ SendsBbo(c, m)
                          THEN [last_bbo EXCEPT ![c] = {Quoted(m.top)}] ELSE last_bbo
         /\ shows' = IF bbo /\ SendsBbo(c, m) THEN [shows EXCEPT ![c] = {Quoted(m.top)}] ELSE shows
         /\ heard' = IF bbo THEN [heard EXCEPT ![c] = TRUE] ELSE heard
         \* a later quote makes up for the ones that were dropped
         /\ missed' = IF bbo THEN [missed EXCEPT ![c] = {x \in @ : x.kind # "Bbo"}] ELSE missed
  /\ UNCHANGED <<wanted, bookVars, tradeVars, active_subs, buildVars, subs, sub_guards, dump,
                 grouped, traded, untold, since, cached>>

\* The session ends: everything it holds is dropped.
Disconnect(c) ==
  /\ phase[c] = "open"
  /\ phase' = [phase EXCEPT ![c] = "off"]
  /\ Release(sub_guards[c])
  /\ subs' = [subs EXCEPT ![c] = {}]
  /\ sub_guards' = [sub_guards EXCEPT ![c] = {}]
  /\ inbox' = [inbox EXCEPT ![c] = <<>>]
  /\ last_bbo' = [last_bbo EXCEPT ![c] = {}]
  /\ dump' = [dump EXCEPT ![c] = {}]
  /\ got' = [got EXCEPT ![c] = {}]
  /\ shows' = [shows EXCEPT ![c] = {}]
  /\ printed' = [printed EXCEPT ![c] = <<>>]
  /\ missed' = [missed EXCEPT ![c] = {}]
  /\ since' = [since EXCEPT ![c] = 0]
  /\ cached' = [cached EXCEPT ![c] = FALSE]
  /\ heard' = [heard EXCEPT ![c] = FALSE]
  /\ UNCHANGED <<wanted, bookVars, tradeVars, cache, body, grouped, traded, untold>>

-----------------------------------------------------------------------------
\* A scenario goes through the inputs its channels look at.
Channels == UNION {wanted[c] : c \in Session}
TopsNow ==
  IF "bbo" \in Channels THEN Tops
  ELSE IF "l4Book" \in Channels THEN {{}, {[q |-> CHOOSE q \in Quote : TRUE, n |-> 1]}}
  ELSE {{}}

Init ==
  /\ wanted \in Mixes
  /\ applied = 0 /\ top \in TopsNow
  /\ fills = 0 /\ prev = {}
  /\ active_subs = [f \in Family |-> 0]
  /\ cache = {}
  /\ phase = [b \in Builders |-> "off"]
  /\ body = [b \in Builders |-> {}]
  /\ subs = [c \in Session |-> {}]
  /\ sub_guards = [c \in Session |-> {}]
  /\ inbox = [c \in Session |-> <<>>]
  /\ last_bbo = [c \in Session |-> {}]
  /\ dump = [c \in Session |-> {}]
  /\ got = [c \in Session |-> {}]
  /\ shows = [c \in Session |-> {}]
  /\ printed = [c \in Session |-> <<>>]
  /\ grouped = {} /\ traded = {} /\ untold = TRUE
  /\ missed = [c \in Session |-> {}]
  /\ since = [c \in Session |-> 0]
  /\ cached = [c \in Session |-> FALSE]
  /\ heard = [c \in Session |-> FALSE]

Build(b) == TakePermit(b) \/ CloneBook(b) \/ CloneFails(b) \/ InsertBody(b)

Next ==
  \/ \E f \in {"L4Statuses", "L4Diffs"}, t \in TopsNow :
       ApplyFails(f, t) \/ \E changed \in BOOLEAN : ApplyEvent(f, t, changed)
  \/ \E t \in TopsNow : Install(t)
  \/ "trades" \in Channels /\ (TakeFill \/ FillLost)
  \/ "l4Book" \in Channels /\ (GetL4Book \/ Expire \/ \E b \in Builders : Build(b))
  \/ \E c \in Session :
       \/ Connect(c) \/ Disconnect(c) \/ Recv(c)
       \/ \E ch \in Channel : Subscribe(c, ch) \/ Unsubscribe(c, ch)

Spec == Init /\ [][Next]_vars

-----------------------------------------------------------------------------
\* Type invariant: queues within their bound, one leg waiting at most.
TypeOK ==
  /\ applied \in 0..MaxEvents /\ top \in Tops /\ fills \in 0..MaxFills
  /\ prev \subseteq 1..MaxFills /\ Cardinality(prev) <= 1
  /\ active_subs \in [Family -> 0..2 * Cardinality(Session)]
  /\ cache \subseteq 0..MaxEvents /\ Cardinality(cache) <= 1
  /\ phase \in [Builders -> {"off", "open", "wait", "clone", "insert"}]
  /\ \A c \in Session :
       /\ subs[c] \subseteq Channel /\ sub_guards[c] \subseteq Channel
       /\ Len(inbox[c]) <= ChannelDepth
       /\ Cardinality(dump[c]) <= 1 /\ Cardinality(shows[c]) <= 1

\* The live subscriptions that need a family, each with its session.
Wanting(f) == {p \in Session \X Channel : p[2] \in subs[p[1]] /\ f \in acquire_for(p[2])}

\* The counts the listener gates its broadcasts on are those of the live
\* subscriptions: nobody is subscribed to a family that is not broadcast, and
\* nothing is left counted when a dump could not be had or a session ends.
GatesExact == \A f \in Family : active_subs[f] = Cardinality(Wanting(f))

\* An l4Book client has its dump and every batch applied after it, but for what
\* its channel dropped and, when the dump came from the cache, for the batches
\* applied between the making of the dump and its subscription.
L4Complete ==
  \A c \in Session : \A d \in dump[c] : \A n \in (d + 1)..applied :
    \/ n \in got[c]
    \/ \E i \in DOMAIN inbox[c] : inbox[c][i].n = n /\ inbox[c][i].kind \in {"L4Statuses", "L4Diffs"}
    \/ \E x \in missed[c] : x.n = n /\ x.kind \in {"L4Statuses", "L4Diffs"}
    \/ cached[c] /\ n <= since[c]

\* A trade is printed when both its legs were read while somebody was subscribed,
\* and in no other case: a leg left over from before a pause in the pairing, or
\* whose other half was lost, never pairs with a leg of another trade.  A client
\* gets each at most once, in order.
TradesExact ==
  /\ traded = {t \in 1..MaxFills : {2 * t - 1, 2 * t} \subseteq grouped}
  /\ \A c \in Session :
       /\ \A i \in DOMAIN printed[c] : printed[c][i] \in traded
       /\ \A i, j \in DOMAIN printed[c] : i < j => printed[c][i] < printed[c][j]

\* A bbo client that has read everything shows the price and size at the top of
\* the book, from the first quote broadcast after it subscribed on, unless the
\* channel dropped its last quote or the last change of the top came with a
\* failed batch, with an install, or while nobody was subscribed (what it then
\* reads was broadcast before, to an earlier subscription of its own).
BboIsCurrent ==
  \A c \in Session :
    (/\ "bbo" \in subs[c] /\ heard[c]
     /\ \A i \in DOMAIN inbox[c] : inbox[c][i].kind # "Bbo"
     /\ \A x \in missed[c] : x.kind # "Bbo"
     /\ ~untold) => shows[c] = {Quoted(top)}
=============================================================================
