# Verification of hl-orderbook-server

The server tails two append-only files that a Hyperliquid node writes (order
statuses and raw book diffs), builds the L4 order book of every coin from them,
and serves it over WebSocket.  It starts from a dump of the node's persisted
state, replays the files above it, and re-syncs from a new dump whenever it
detects that it has lost something.  This directory models the path from the
files to the book and from the book to the clients: TLA+ modules, TLC runs of
small instances, and TLAPS proofs.

What the whole is for: **a book that the server does not consider desynced is
the node's book**: no phantom order, no missing order, no wrong size, the right
queue; and a client that follows a channel is shown that book, in order and to
the end, or its connection is closed.

## The system

| component | state | operations | interacts by |
|---|---|---|---|
| the node (external) | two (three, with fills) hour-file streams; a persisted state file | append lines, begin an hour file, persist | files, inotify |
| file watcher threads (`parallel.rs`) | tracked file, position, partial line, grace mark of the file left behind, the barrier the two book watchers share | backfill, `on_modify`, `on_create`, `check_rotation`, `check_for_newer_file` | bounded line channels; `Desync` events |
| `LiveMerge` (`listeners/order_book/mod.rs`) | one line read ahead per stream, ready batches, clock of the wait | `accept`, `refill`, `pick`, `take`, `wait` | polled by `select!`, dropped at its await |
| `OrderBookState` (`state.rs`) | pending statuses, pending News, zeroed set, untriggered table, fallback count | apply statuses, apply diffs, cleanup, install | called by the listener under its lock |
| `OrderBook` (`order_book/`) | index of oids; price levels, each a slab of linked orders and a running sum; a map of books by coin | `add_order_before` with matching, `cancel_order`, `modify_sz`, `compact`, `get_bbo`, dump and rebuild | called by `OrderBookState` |
| listener and re-sync loop (`mod.rs`) | ready book, replay cache, loss bound, last height seen | event, merge, result and ticker arms; `fetch_snapshot`, `finish_install`; `mark_desynced` | spawns the fetch task; restarts the watchers |
| persisted height and dump (`utils.rs`) | none | `persisted_height`, `process_rmp_file` | reads the node's files, runs a child process |
| L2 snapshots and flush (`levels.rs`, `utils.rs`, `mod.rs`) | coins to rebuild, shapes wanted, cached views | bucket, flush on a tick | broadcast channel; shape counts shared with the sessions |
| event broadcasts and trade pairing (`mod.rs`) | guards held per family of events, the leg waiting for its partner | group, pair and broadcast, gated by the guards | broadcast channel; guard counts shared with the sessions |
| WebSocket sessions (`servers/websocket_server.rs`) | subscriptions, guards, dedup state per subscription, universe; the cache of dumps they share | subscribe, unsubscribe, fan-out, heartbeat, lag, `GET /l4Book` | broadcast receiver; listener lock; outbound queues |
| writer task (`servers/websocket_server.rs`) | data queue, pong lane | write, time out, drain, close | the two queues; the socket |
| metrics, command line, tools | counters, arguments | none that the book depends on | - |

What is hard in it: the two files are read by two threads, so the halves of one
order arrive in any order and at any distance; files rotate while they are read,
and the notification of a new day's first file may never come; the merge is a
future that every flush tick drops and starts over; a dump is taken by a child
process while the node may persist again; a loss, a fetch and a restart of the
watchers interleave; a session reads its broadcasts late or not at all while
shapes, coins and whole books change under the cache they were built from; a dump
and the stream that continues it are made by different tasks; a session and its
writer fail apart.  `PROJECT.json` lists these as hazards, each at its line, with
the properties that cover it.

What makes each part correct:

- *watcher*: every complete line above the floor reaches the listener or a loss
  is reported; a partial line is never glued to foreign bytes; lines in order.
- *merge*: nothing read is lost by a cancellation; the streams stay within the
  lookahead; a stream is called dead only after silence; everything is
  delivered even if the other stream stops for ever, waits at the barrier, or
  both channels fill while they are held.
- *book state*: no phantom, no silent loss, an order whose two halves were read
  rests, the queue is the node's, local matching is inert.
- *stored book*: whatever its slabs, links, index and sums do, it is a book of
  sizes and FIFO queues with price-time priority.
- *hand-off*: replaying blocks that the dump already has does no harm.
- *re-sync*: no hole goes unmarked, held streams are released, a marked book is
  replaced.
- *L2 flush*: no cached view is stale unless its coin waits to be rebuilt; the
  shapes built are those that connections need.
- *sessions*: a client that has received everything shows what the listener last
  sent, and every subscriber is shown the book as it is in the end; a dump and
  the updates after it leave no gap; what is counted as wanted is what is
  subscribed to.
- *connection*: frames arrive in order without a hole, pings are answered or the
  connection is closed, and neither of its two tasks outlives the other.

## The modules

| module | models | extends / composes |
|---|---|---|
| `Orders` | orders, price levels, positions in a queue: the vocabulary of both books | |
| `NodeStreams` | the node's two files and its own book, one operation per block (external) | `Orders` |
| `Book` | what the book of one coin promises: sizes, FIFO queues, matching in price-time priority | `Orders` |
| `PriceLevel` | `price_level.rs` and `linked_list.rs`: slab, links, map of slots, running sum, compaction | `Orders` |
| `OrderBook` | `order_book/mod.rs` and a coin's entry in `multi_book.rs` | `PriceLevel`; implements `Book` (`INSTANCE Book WITH ...`) |
| `OrderBookState` | `state.rs` on top of the abstract book | `NodeStreams`, `Book` |
| `SnapshotHandoff` | a dump newer than the height the replay starts from | `OrderBookState` |
| `OrderBookStateProofs` | the inductive invariants of the book state, of pairing, of the queues and of the replay behind a dump, and the theorems | `SnapshotHandoff`, `TLAPS` |
| `LiveMerge` | `LiveMerge` in `mod.rs`, the two readers with their barrier (`parallel.rs`), the hold for a snapshot and the re-sync that replaces them | |
| `FileTail` | one watcher thread of `parallel.rs` with the node writing beside it | |
| `Resync` | the main loop, the fetch task and the desync bookkeeping of `mod.rs`, `persisted_height` of `utils.rs` | |
| `L2Feed` | the L2 flush and cache (`mod.rs`, `utils.rs`, `levels.rs`), the shape registry, and the l2Book and l2Diff sessions of `websocket_server.rs` | |
| `EventFeed` | the l4Book, bookDiffs, orderUpdates, trades and bbo channels: `ActiveSubs`, `TradePairer` and the broadcasts of `apply_event_batch`, the dump cache and the sessions | |
| `Outbound` | a session's outbound queues and its writer task | |
| `OrderBookProofs`, `OutboundProofs`, `ResyncProofs`, `LiveMergeProofs`, `FileTailProofs`, `L2FeedProofs`, `EventFeedProofs` | the invariants and the theorems of these | the module of that name, `TLAPS` |
| `MCOrderBookState`, `MCSnapshotHandoff`, `MCLiveMerge`, `MCFileTail`, `MCL2Feed`, `MCOrderBook`, `MCEventFeed` | small instances | |

The modules split one pipeline at its queues.  `FileTail` ends where a line is
handed over; `LiveMerge` starts with two files of heights and ends with batches;
`OrderBookState` starts with the contents of the files, read independently, so
it does not depend on any order that the merge gives; `Resync` sees the merged
stream as heights and the book as the set of blocks it reflects; `OrderBook` is
what stands behind the operations of `Book` that `OrderBookState` uses; `L2Feed`
and `EventFeed` take the books as given and follow them to the clients, up to the
frames that `Outbound` takes over.

### NodeStreams

`dlog` and `slog` are the diff and the status file.  `nodeSz[i + 1]` and
`nodeQueue[i + 1]` are the node's own sizes and queues after `i` diffs, `cuts`
the lengths of the files at each block's end.  The actions are the lives an
order can have: come to rest (at the back or before an anchor), be resized, be
filled (an Update to zero, and some blocks later a Remove), be cancelled; a stop
order is armed, disarmed, or triggered; an order opened and gone in one block
has statuses and no diff; an order of the protocol's own address has diffs and
no status.  These are the facts that the comments and tests of `state.rs` rely on.

### OrderBookState

`sz` and `queue` are the book: sizes by oid and one FIFO sequence per
(side, price).  `pending_order_statuses`, `pending_new_diffs`, `zeroed` and
`untriggered_orders` are the fields of that name (`zeroed` joins `zeroed_set`
and its expiry queue).  `loss` is "the listener has been told": a nonzero
`cleared` count of a cleanup, or an error of a batch.  The actions are one event
of `apply_order_statuses_hft`, one event of `apply_order_diffs_hft` (New with or
without its status, Update and Remove of an order that rests, waits, was zeroed
or is unknown), an event that fails to convert, `cleanup_stale_pending` (by age
and by cap), and the install of a snapshot at any block, with
`carry_forward_untriggered`.  `add_order_before` is modelled with its local
matching, price by price and then by queue place.

`Trusted` is "a snapshot is installed and no loss was reported".  `Applied` is
the node's book after the diffs read so far: what a trusted book must equal.

### SnapshotHandoff

`fetch_snapshot` reads the persisted height first and dumps afterwards; the node
may persist in between.  `LateInstall` installs the state of block `d` with the
read positions of block `c <= d`.  `dumpAt` and `resumedAt` remember where both
files stood then.  The two files are interleaved in any way; `inStep` remembers
whether each diff since was applied after the statuses of its block, which the merge
does as a rule and not always.

The comment in `fetch_snapshot` says that the replay "only over-applies".  It does more
to two kinds of orders, which the properties name, so that they can be claimed of all others,
for any interleaving and any prices.  `ReadAgain` are the orders whose New the
replay reads although the dump is newer.  An order is `Clear` if it crosses none of
these.  An order `MayComeBack` if it was read again while the dump had it and has left
since, unless the files were read in step (`inStep`).

### Book, PriceLevel and OrderBook

`Book` has the operators `AddOrderBefore`, `CancelOrder` and `ModifySz` on two
functions, `sz` and `queue`, and a specification of its own, `BookSpec`, in which
any order is added before any other, cancelled or resized.  `OrderBookState` uses
the operators; the theorems are about them.

`PriceLevel` has a level as a record: the slab (slot to node, with `next` and
`prev`), the stack of vacant slots, the capacity, `key_to_sid`, head, tail and
`total_sz`.  Its operators have the source's names (`push_back`, `insert_before`,
`remove`, `modify_order_sz`, `match_against`, `compact`).  The loops of the code and the
walk along the links are recursive functions over `0..n`, where `n` is the number of
orders, levels or listed orders the loop goes through.  `OrderBook` has the
index and the levels, `match_order` across levels, `add_order_before`,
`cancel_order`, `modify_sz`, `get_bbo`, the dump within a price band,
`extract_triggers` and `from_snapshot`, and the eviction of an empty book from the
map.  `ImplementsBook` is `BookSpec` with `sz` read through the index and the slab
and `queue` by walking the links: every step of the stored book is a step of the
abstract one or, for compaction, eviction and a rebuild from its own dump, none.

### LiveMerge

Per stream: its file, how far its reader has sent it and in which phase the reader
is (backfill, barrier, live), the bounded channel, the line read ahead, and
whether it is dead; and the clock of the current wait.  `Cancel` is the drop of
`take()` by `select!` at its await.  Time passes in ticks; `DEAD_WAIT` is the
deadline in ticks.  Files are pairs of increasing heights, some of whose lines do
not parse, cut anywhere into what the backfill finds and what comes live; a node
that falls silent is a file that ends.  The channels are held until `Install`.
`Restart` is the re-sync: new readers, new channels and a new merge, while the old
readers (`old`) are still where they were and exit at their next send.

### FileTail

A file is a sequence of units; a unit stands for some bytes of a line: its head,
a middle part if the line is long, its tail with the newline.  Every read takes
at most `CHUNK` units and what is left unterminated goes to `partial_line`.  The
program point `pc` walks through `watch`, the backfill and the polling loop.
The node appends between any two reads, to the newest file or, for the last
blocks of an hour, to the one before it, and a creation in a new day's directory
may go unnotified.

### Resync

A block is a height.  `book` is the set of blocks reflected in the book, so a
hole is a height at or below `bookHeight` that is not in it.  Each way to lose a
block is a disjunct: discarded by a watcher (reported by `Desync`), oversized,
failed in the middle, evicted by a cleanup, not parsed.  `task` is the program
point of the fetch task or the result it has sent.

### L2Feed

`book` maps coins to books (price to size), `pending` is
`pending_dirty_l2_coins`, `cache` is `l2_snapshot_cache`, `refs` the counts of
`active_l2_params`.  A book is changed by a batch (`BookChanges`, which marks the
coin), by a batch that fails half way (`BatchFails`, which marks the book and not
the coin) and by an install, which drops the cache and the buffer.
`flush_l2_if_due` drops the cache when the shapes changed, rebuilds the marked
coins and a bounded number of missing ones in map order, forgets evicted coins,
and broadcasts the cache, the views it overwrote and the set of coins rebuilt.
A session's `inbox` is its part of the broadcast channel: when it is full the
oldest message goes and the next receive reports the lag.  `shows` is what the
client has: the last book sent (l2Book), or the last whole book with the changes
applied as `tools/l2diff-verify.py` does (l2Diff).  `universe` is the set of coins
a session accepts; `missed` records that a lag dropped a broadcast with a new
coin set, or that the session read the set while an evicted coin was cached.

### EventFeed

Status and diff batches are numbered in the order they are applied; a dump is the
number of the last batch in it.  `active_subs` counts the guards per family,
`sub_guards` holds a session's own.  `ApplyEvent`, `ApplyFails`, `Install`,
`TakeFill` are the listener's steps: a batch is broadcast before it is applied,
and the top of the book after it, when the coin changed.  An l4Book subscription
takes its guards, then a cached dump if there is one, or waits for a build permit,
looks at the cache again, clones the book under the lock and puts the body into
the cache.  `Mixes` are the scenarios: which channels each client may ask for.

### Outbound

The session is at its select, waiting for a slot of the data queue, ending or
done; the writer picks, writes, closes or is done.  Timeouts are steps possible
while what they time goes on.  The client reads or stalls, pings, and may leave.

## The runs

Passing (distinct states of each instance):

| run | states | what it shows |
|---|---|---|
| `OneLevel` | 106,586 | three bids at one price, anchors and splices: `QueueOrder` (each resting order once in its level's queue, and in the node's order), for any interleaving of the files, any eviction and any install point |
| `TwoSides` | 217,284 | a bid, a stop order's ask that crosses it, a protocol ask: `NoPhantom`, `NoSilentLoss`, `PairedOrdersRest`, `ZeroedIsGone`, `OwnDiffOnly` |
| `Handoff` | 432,804 | a dump newer than its cutoff, a bid and an ask that cross beside an ask that does not, the files in step and not: the replay ends in the node's book but for the orders that the properties name (`OverApplyIsHarmless`, `OverApplyLosesNothing`) |
| `OrderBook` | 1,986 | the stored book implements the abstract one (`ImplementsBook`, a refinement); `LinksOK`, `IndexExact`, `AggregateExact`, `BboIsTop`, `DumpIsFaithful` |
| `LiveMerge` | 1,007,694 | `Conserved` (cancel safety), `BoundedSkew`, `DeadIsSilent`; `AllDelivered` and `ReplacedExit` (liveness) |
| `TailRotation` | 342,364 | with and without backfill, a change of day with unnotified creation, corrupt and oversized lines, stragglers: `PartialPrecedesPosition`, `ReadOrFlagged` (liveness) |
| `Resync` | 447,964 | two losses, a failed fetch, a node that persists at any time: `TypeOK`, `LossIsMarked`, `NothingCached`; `HeldThenReleased` and `MarkedThenHealed` (liveness) |
| `L2Feed` | 90,458 | two connections, both channels, two shapes; lags, coming back, evictions, failed batches, installs: `CacheIsFresh`, `FollowsBroadcast`, `UniverseFollows`, `RegistryExact`, `SubscriberCatchesUp` (liveness) |
| `EventFeed` | 1,212,634 | `GatesExact`, `L4Complete`, `TradesExact`, `BboIsCurrent`, over four mixes of channels |
| `Outbound` | 34,442 | `InOrder`, `DrainedIsDelivered`; `PingsAnswered` and `BothEnd` (liveness) |

`TypeOK` is a run's invariant for `OrderBookState` and `Resync`.  `LiveMerge`,
`FileTail`, `L2Feed`, `EventFeed` and `Outbound` state theirs too, with the bounds of
their queues, for the proofs to start from; TLC finds them invariant on the same
instances.

Violations, each a statement of the repository that the code does not keep
(`findings` in `PROJECT.json` quotes it):

| run | what TLC shows |
|---|---|
| `BackfillGap` | an hour file just created and still empty ends the walk back; the previous hour is neither read nor flagged |
| `InstallEvicts` | a coin whose book goes with an install (left out of the dump, or emptied by a batch not flushed yet) is never mentioned again; its subscribers keep its last book |

Met while modelling: disagreements between the code and its comments that the
passing runs keep out by a constant, or that their properties name as exceptions.

- *a skewed replay*: a replayed New of an order that is in the newer dump waits for
  its status beside it, and rests it again after its Remove (`mod.rs:90` says the
  replay "only over-applies").  `OverApplyIsHarmless` names these orders
  (`MayComeBack`) and speaks of all others; `Handoff` has the case.
- *a stale stop order*: `carry_forward_untriggered` keeps the previous table when
  the dump lists no stop orders, entries whose terminal status was lost included
  (`state.rs:55` says the table is replaced wholesale and heals itself).
- *crossing replay*: the replayed add of an order that has since left trades
  locally with an order of the newer dump that it crosses (`multi_book.rs:258` calls
  the replay idempotent).  Both properties of the hand-off leave out the orders that one read
  again would trade with (those not `Clear`); `Handoff` has the case.
- *a loss bounded too low*: the run `Resync` with `LOSS_HEIGHT_MARGIN` not above
  `FillLag + StartLag` violates `LossIsMarked`: while streams are held only fills
  raise `last_seen_height`, so a loss that the restarted watchers report may get
  a bound that the install is said to cover.  The proof (below) found that the
  fills must be in time before the first one as well: with the listener's
  height still 0, the node must not be more than `FillLag` blocks past its first.
  With two losses TLC has the counterexample, with one it has none.
- *a floor that was unreadable*: `WatchReads = {"rmp", "none"}` violates
  `LossIsMarked`: the watchers start without a backfill and the fetch, seconds
  later, succeeds (`mod.rs:1908` says it would fail on the same files).
- *a missing anchor*: `state.rs:38` says the listener turns a nonzero fallback
  count into a desync mark; it only adds it to a metric (`mod.rs:1222`).
  `QueueOrder` therefore claims nothing after a fallback.
- *a file read twice*: with `QuietStart = FALSE`, a creation notified before the
  backfill lists the files is received afterwards and `on_create` reads the file
  again from its beginning.
- *a line that does not parse* (`"unparsed"` in `Losses` of `Resync`) violates
  `LossIsMarked`: `parse_event_line` returns nothing, `LiveMerge::accept` drops
  the line, and only a metric changes (README.md:406 counts parse errors among
  the losses that mark the book).  A malformed line that the backfill skips
  (`parallel.rs:243-252`), and the rest of a file after a read error there, are
  told to nobody either and are, to the book, the same outcome.  The run `Resync` leaves
  `"unparsed"` out, so `LossIsMarked` says that losses which are *reported* stay
  marked until an install covers them, and nothing of these.
- *going back to an old file*: a late append makes the old hour file the newest
  by modification time; `check_for_newer_file` returns to it and hands out its
  last lines after those of the new file (`parallel.rs:517` calls such lines
  corrupting).
- *an empty book that is not*: a coin missing from a broadcast because the
  backfill has not reached it yet looks like an evicted one, and a new or lagged
  subscriber is sent an empty book; an l2Diff subscriber of a shape not built yet
  likewise (l2Book waits).  The next flushes put it right, so
  `SubscriberCatchesUp` holds; the comment at `websocket_server.rs:1068` says the
  coin's book emptied.
- *a lost universe*: the refreshed universe rides on one broadcast, and a session
  that lags past it refuses the new coin until the coin set changes again.
  Likewise a session that reads the set while an evicted coin is still cached
  refuses that coin if it is back before the flush: the set is the same then, and
  nothing is announced.  In the other direction, a coin in the set read at connect
  and never cached stays in it after its eviction.
- *a dump older than its subscription*: `websocket_server.rs:770` and
  `mod.rs:1621` say that no update falls between the dump and the stream because
  the guards are taken first.  A dump from the cache may be older than the guards;
  batches applied in between were broadcast to nobody.  `L4Complete` excepts them.
- *an install under an l4Book*: its clients are told nothing when the book is
  replaced; their books are those of the old one with the new batches.
- *a quiet top*: bbo is broadcast for coins a batch changed.  A failed batch and
  an install change books and broadcast no bbo, the dedup key leaves out the
  number of orders, and a subscription begins with no quote; `BboIsCurrent`
  excepts the first two and compares price and size.
- *a saturated sum*: a level whose sizes pass `u64::MAX` keeps the cut sum and
  shows too little from the next removal until it empties; `debug_validate`'s
  equality is false there, so `AggregateExact` claims only an upper bound.
- *a session that waits*: `websocket_server.rs:418` says a slow client can never
  keep the session from polling the socket.  A session that finds the data queue
  full waits for a slot up to five seconds per frame and reads no ping meanwhile;
  `PingsAnswered` holds because the wait is bounded.
- *a reader left at the barrier*: a replaced reader that has arrived while its
  partner exits in its backfill waits for ever (`parallel.rs:764` says the old
  watchers exit); `ReplacedExit` excepts it.
- *why the barrier does not deadlock*: while one reader waits at the barrier the
  merge may hold the other's head for it; the reader in its backfill then fills
  its channel and never arrives.  It is the dead-stream deadline that lets its
  head go: with no deadline `AllDelivered` fails.
- *a corrupt line in the backfill* is skipped and not flagged
  (`parallel.rs:243-252`); `ReadOrFlagged` speaks of well-formed lines only, and
  in `Resync` the line is one of the "unparsed" losses that the run excludes.

### Bounds

- *Book*: 4 blocks and up to 3 orders, each operation in a block of its own.
  Four blocks hold a rest, an update, a full fill and its Remove, or three orders
  at one level with a splice and a departure; caps of 2 on the pending maps make
  cap evictions happen, a window of 1 block makes the zeroed set expire.  In
  `OneLevel` the orders are interchangeable, so they are a
  symmetry set (no liveness is checked there).  `Handoff` has 3 blocks: enough for a New
  and a departure in the blocks that are read again and a diff after the dump.
- *Stored book*: five orders (three interchangeable bids at one price, a better
  bid, an ask that crosses all), sizes 1 and 2, sums cut at 4, slabs that grow by
  one and are compacted as soon as they are half empty: removal from the front,
  middle and end, slot reuse, a sweep of two levels and saturation all happen.  The three bids are a symmetry set; `BookSpec` has no fairness, so the refinement
  is a condition on initial states and single steps, which symmetry keeps.
- *Merge*: seven pairs of files of up to 4 lines (in step, ending early, starting
  late, empty, with gaps, with lines that do not parse, long enough to fill a
  channel while the other reader is at the barrier) cut at any place, a channel
  of 1 line, a lookahead of 1, batches of 2, a deadline of 2 ticks, one re-sync:
  each limit is reached and passed.
- *Watcher*: 2 files, 3 lines, a floor or none, chunks of 2 units, and a partial line of 1 unit:
  a long line exceeds both, and every line can straddle two reads.
- *Re-sync*: 4 blocks, two losses, one failure.  `u64_MAX` is a height above every
  other bound.  Four blocks hold a fetch that fails and a fetch that does not cover
  the bound, because the margin of 3 makes the first install fall short, and the
  second loss that comes while the first is being repaired.
- *L2*: three coins, of which one changes, one keeps the market moving and one
  stands before them in the backfill of one coin per flush; a channel of one
  message, so that the second one lags; four book changes, failures, installs,
  connections and subscriptions in all (unsubscribing, disconnecting and
  everything the server does are free).
- *Events*: two connections and one HTTP request, two batches, six fills (three
  trades), a channel of one message, two build permits for three builders.  Two
  batches are a dump between them and one after it; six fills hold a lost leg, an
  unfed one and a trade after both.
- *Outbound*: queues of 2, five frames, three pings: each queue fills and is
  overrun.

`CHECK_DEADLOCK FALSE` is set where the node is bounded: it ends, and then so does
the instance.  `L2Feed` never stops.

### Fairness

- `LiveMerge`: both readers, the polling of `take()` and the clock go on, and a
  snapshot is installed in the end (`Resync`).  A wait cut short by a flush tick
  must not start over; that is what `AllDelivered` tests, so cancellations are not
  limited.
- `FileTail`: the thread's loop always comes round, time passes, and the node
  goes on writing.  Strong fairness for receiving: the loop polls with a timeout
  between its checks, so a notification that is there again and again is
  received in the end.
- `Resync`: weak fairness for each arm of the `select!`.  It is biased, so this
  holds if the streams are sometimes empty, which the merge's `MERGE_TAKE` and a
  listener faster than the node give.  The fetch task runs on, fetches fail
  finitely often (`MaxErrors`), the node goes on.
- `L2Feed`: some coin changes again and again (a flush needs one; in a silent
  market a new subscriber waits), a marked book is replaced (`Resync`), the flush
  ticker ticks and sessions run.  Strong fairness for receiving a broadcast: with
  a channel of one message every flush laps a session, while the real channel
  holds 16384.
- `Outbound`: the writer goes on, because each of its waits is timed or ends with
  the session, and so does a session that waits for a slot or for the writer's
  end.  Strong fairness for reading a ping and for noticing a dead writer: the
  session's `select!` picks a ready arm at random and the session comes back to it.
- `OrderBookState`, `SnapshotHandoff`, `OrderBook` and `EventFeed` state safety
  only.

## What is proved

Safety, for every value of the constants: sets of orders, sessions, coins and
subscriptions of any size, files of any length, queues of any depth, any number of
blocks, losses, failures and re-syncs.  Each proof module rests on the named assumption
of the module it extends (`MergeAssumption`, `FeedAssumption`, ...: the types of the constants, sets
finite where something is counted, depths positive, heights of a file rising) and nothing else,
with one hypothesis that a theorem states where it needs it: `Timely` in
`LossIsMarkedThm`.

| module | theorem | statement |
|---|---|---|
| `OrderBookStateProofs` | `Invariance` | `Spec => []IInv` |
| | `Types` | the control state is well typed always, the book whenever it is trusted |
| | `TypeOKThm` | `Spec => []TypeOK`, the book that lost events included |
| | `NoPhantomThm`, `NoSilentLossThm`, `ZeroedIsGoneThm` | `Spec => []NoPhantom`, and so on |
| | `OwnDiffOnlyThm` | `Spec => OwnDiffOnly`, an action property |
| | `PairedOrdersRestThm`, `QueueOrderThm` | `Spec => []PairedOrdersRest`, `Spec => []QueueOrder` |
| | `OverApplyIsHarmlessThm`, `OverApplyLosesNothingThm` | `HandoffSpec => []OverApplyIsHarmless`, `HandoffSpec => []OverApplyLosesNothing` |
| `OrderBookProofs` | `LinksOKThm`, `IndexExactThm`, `AggregateExactThm` | `Spec => []LinksOK`, `Spec => []IndexExact`, `Spec => []AggregateExact` |
| | `BboIsTopThm` | `Spec => []BboIsTop` |
| `LiveMergeProofs` | `ConservedThm`, `BoundedSkewThm` | `Spec => []Conserved`, `Spec => []BoundedSkew` |
| | `DeadIsSilentThm` | `Spec => DeadIsSilent`, an action property |
| `FileTailProofs` | `FileTypes`, `PartialPrecedes` | `Spec => []TypeOK`, `Spec => []PartialPrecedesPosition` |
| `ResyncProofs` | `TypesThm`, `NothingCachedThm` | `Spec => []TypeOK`, `Spec => []NothingCached` |
| | `LossIsMarkedThm` | `Timely /\ Spec => []LossIsMarked` |
| `L2FeedProofs` | `RegistryExactThm`, `CacheIsFreshThm`, `UniverseFollowsThm`, `FollowsBroadcastThm` | `Spec => []RegistryExact`, and so on |
| | `ShowsTheBookThm` | what a session that has caught up shows is the book, from the two before |
| `EventFeedProofs` | `GatesExactThm`, `L4CompleteThm`, `TradesExactThm`, `BboIsCurrentThm` | `Spec => []GatesExact`, and so on |
| `OutboundProofs` | `InOrderThm`, `DrainedIsDeliveredThm` | `Spec => []InOrder`, `Spec => []DrainedIsDelivered` |

Where several invariants are needed they are proved in layers: each is inductive
relative to the ones before it, and the theorem of a layer combines them.  A layer
has one lemma per action, or per group of actions that leave its variables alone, and a
lemma for each operator the actions share (what a push into a bounded queue keeps,
what a broadcast adds).  All the invariants below were checked with TLC on the
instances of the runs before they were proved.

### The book state

`IInv` has three parts.

1. `NodeInv`, about the files: `HistoryOK` (each entry of `nodeSz` is the one
   before it with the next diff applied), `DiffsOK` (a New has a size and its order
   none before it; an Update finds its order resting; a Remove leaves nothing), `Uncrossed`
   (no prefix of the diffs describes a crossed book), `PhaseOK` and `CutsOK`.
   The server steps leave it alone; the node's steps preserve it.
2. `ControlTypeOK`, always.
3. In a trusted book, `OrderOK(o)` for each order: it rests with the size the
   diffs read so far give it, or its New waits with that size, never both; an
   order of the node's book that a status can pair is in one of the two places;
   a zeroed order has size zero and has been seen.

In a book that lost events an order that is added may trade with those that rest, and
`TypeOK` then rests on match_order taking from no maker more than its size.  What a
maker loses is the quantity left minus the sizes of the makers before it, a fold over a
finite set.  The library's induction theorems take an operator and cannot be used;
`AllNumbers` is induction with the property as a set of numbers, and by it `SumExists` builds the
function that the fold's CHOOSE takes, so that `SizeOfType` says the sum is a number.
That only finitely many orders have a size (`Few`) is an invariant of its own: the node's
book starts empty and each event gives a size to at most one order.

`NoPhantom` alone is not inductive: a waiting New with a wrong size is a phantom
one step later, and a zeroed entry of a live order would swallow its Remove.
`Uncrossed` is what makes local matching inert: an order is spliced in when both
its halves are read, possibly much later than its New, and the book it meets is
a subset of a later state of the node's book in which that order still rests;
hence no maker crosses it.  A trusted book is untouched by failing events and by
evictions of live orders because both end the trust.

`PairedOrdersRest` needs to know how the two files relate (`FilesAgree`): the opening
status of an order and its New are written in one block, and neither twice; two orders
are opened in the order of their News; an order that rests was opened, before any
other status of it; an order of the protocol's address has no status.  Then, in a trusted
book, whichever half of an order was read first waits for the other (`Paired`):
a status that opened an order waits until the New, a New waits only while no such status
was read, and what waits was read.  Any status completes a New that waits, the order's
opening one or not; `FilesAgree` says that an opening one comes before the others, so in
a trusted book the status that completes a New is never one that follows a lost opening.

`QueueOrder` has the same two sides.  Of the files, `QueuesOK`: an order stands once
in the node's queue of its level exactly while it has a size there, and two orders keep
their order for as long as both rest.  Of the book, `ServerQueues`: each
resting order stands once in its level's queue (`BookHeld`); the queue is in the
order of the node's (`BookInOrder`); and a New that waits for its status came after
all that rests (`NewsWaitTheirTurn`), which is why splicing it in late, before the anchor its diff
names or at the back, puts it where the node has it.  The last claim is false for
stop orders, whose status may come long before they rest, and after an eviction; so is the
property, which excepts both.  `AddSplices` is the lemma on a splice: order is kept among
the others, and the new order precedes its anchor and follows what stood before that.

### The hand-off

A book installed from a dump at block `d` and replayed from block `c <= d` is not the
node's while the replay is behind `d`, so `NoPhantom` and `OrderOK` do not hold of it.
Nothing is assumed of the interleaving of the two files, nor of the prices: any two
orders may cross.

`HandoffInv` keeps `NodeInv`, `FilesAgree`, `Paired` and the history of the queues (`QueuesOK`),
which say nothing of sizes in the book, and adds two parts.

- Of the files, `BlocksOK`: an order that left the node's book never rests again,
  and all its statuses are written by the end of that block (`GoneForGood`); the blocks'
  ends rise (`CutsRise`).
- Of each order in a trusted book, `ReplayOK(o)`.  If no order read again would trade with
  it (`Clear`), it is `Replayed`: its size is the node's where the diffs have been read to, or
  the dump's while the replay is behind it, or it came back (`SizeIsNodes`, with `Back` for the last); a New that waits
  alone has the size of the diffs read, or will make its order come back, or waits for a status that has already been read
  and so is never completed (`NewIsNodes`); an order the node has is in the book or waits (`NoneMissing`).
  If it was not read again, it is `Bounded`: in the book only while it rests at
  the node, with no more than the node gives it, whatever it may have traded.

What makes it inductive is who can trade with whom (`Matching`, `Added`).  An order that is
not read again is added only past the dump and while it rests at the node
(`WhereNewIs`).  The node's book never crosses, so what this order may trade with is
not in the node's book: it is an order that came back.  An order that is read again may trade with orders
that rest, but with none that is `Clear`.  So a `Clear` order keeps its size unless it came back, and
trading only takes from the others.  At the install, an order of the dump that did
not rest at block `c` has its New in between (`RestsByNew`), so it is read again.

`inStep` is used in one place: once a Remove has been read in step, no status of its order is
still to come (`Silent`), so a New left waiting stays where it is (`DiffLeaves`) and nothing comes back.  At
the end of the replay the two properties follow.

### The stored book

`OrderBook`'s `IInv` says that the levels hold exactly the orders of the index
(`Stored`): each level of the map is good, not empty, and its map has just the indexed
orders of that side and price.  No bid level is at or above an ask level (`Uncrossed`).  A level is good when
it can be walked, its running sum is right and every order in it has some size left (`Live`).

- *walked* (`Shape(l, w, n)`): some `w` lists `n` slots, those in use, once each (`Cells`);
  the links of the nodes lead along `w` both ways (`Links`); head and tail are its ends;
  the map finds each node and nothing else (`Keys`); the vacant slots are apart from
  the used ones, and together they fit the capacity (`Room`).  `LinksOK` alone speaks of
  the walk that `Slots` makes; with `w` as a witness an insert is a splice in one
  place and a removal a cut (`Spliced`, `Cut`), and no step has to walk.  At the end
  `SlotsWalk` shows that `Slots` is `w`.
- *the sum*: `AggregateExact` alone is not inductive, because a sum over the slab says
  nothing about a node that the links lost.  In a walked level each operation adds or
  takes the size of one slot (`SumWith`, `SumWithout`, `SumResized`), and the size that is taken
  is never more than the sum, so a sum that was never cut is not cut by a removal either.  The fold of
  `MapThenSumSet` takes the slots in an order that nobody knows;
  `SumOfAny` shows that any order will do.
- *the index*: matching takes filled makers out of the levels first and out of the
  index afterwards, so inside `add_order_before` the two disagree by the set `filled`: `Met`
  is the invariant of `match_order`'s loop, and `Turned` that of `match_against`.  `BestFirst`
  numbers the levels of a side by how many are better, and `RankTaken` shows
  that each number is taken once, so the loop meets each level once.
- *the quotes*: a turn of `match_against` fills one maker, uses up the taker or finds the
  level empty (`Counts`), so as many turns as there are orders empty the level or use up the taker
  (`MatchAgainstSweeps`).  `match_order` therefore leaves no level that crosses the taker unless it used
  the taker up (`Swept`), and what rests afterwards crosses nothing (`OneMoreUncrossed`).
  `BestFirst` lists every level of a side and starts with the best (`Covers`, `StartsBest`), whose
  orders are those that no price beats (`FirstIsTop`).

Each loop has an invariant as a set of values (`Turned`, `Moved`, `Met`, `GoodBooks`), and
`Recursion` shows that a recursive function over `0..n` whose steps stay in such sets exists
and stays there; it is proved from the least-number principle (`LeastNumber`), which takes a
set and not an operator.  The only hypotheses are the types of the constants
(`PriceLevelAssumption`, `OrdersAssumption`); the set of orders need not be finite.

### The merge

`Conserved` is inductive with the types of the readers and channels (`Types`).
`BoundedSkew` speaks of batches already handed out, so a step needs to know what
the stream that was passed over may still bring: `Coming(i)` is the set of heights read
ahead or not yet received, `Rises` says that all of them are above what stream `i` has
handed out, and `Skew` that whatever was handed out may precede (`MayPrecede`)
everything to come of the other stream.  A step only takes elements out of `Coming`,
and a batch that moves from `Coming` to the end of `Out` satisfies `BoundedSkew`
because `Skew` held before.  A re-sync starts the new readers with nothing handed out.
`DeadIsSilent` needs `Clock`: a wait is never longer than the silence of a stream whose
channel is empty, although cancelled waits are resumed.

### The watcher

`FileInv` has a part for the files (`FilesOK`), one for the reader (`ReaderOK`) and one
for the program point (`TaskOK`).  The core is `Precedes(p, d, pos)`: `p` is what file `d`
has just before `pos`, and no line ends in it.  The node only appends, so it stays true
(`Begins`, `PrecedesStays`); a read appends to `p` what comes next (`ReadOn`) and then cuts it behind
its last newline (`KeptIs`); a switch and the end of the backfill begin again with an
empty `p` (`PlaceTaken`).  `TaskOK` has what such a step needs: the file to switch to, the files to
backfill and the notifications queued exist, and the last file to backfill is the target.
Files are found by maxima and by sorted lists built by recursion; a statement about all
naturals is proved there by asking for the least one it fails for (`Smallest`), which takes
a set and no operator, so it is in the provers' reach.

### Marks

`LossIsMarked` is a statement about a hole that is in the book now; the holes to come
are the difficulty.  `Marks` follows a block through the re-sync: while a fetch is
due or under way, a block that the dump will lack is in the channel, or its loss is reported
or marked with a bound that the install will not clear (`FetchKnows`); the cut does not
exceed the dump (`CutOK`); of the book just installed the same is true (`InstallKnows`); and
while the merge runs, an unmarked book has no hole and the channel goes on where it ends
(`MergeKnows`).  `Timely`:
losses are reported (none is `"unparsed"`: no line fails to parse, and the backfill skips
none and has no read error), the persisted state is read with its own
height (`WatchReads` and `FetchReads` without the fallback file), the margin
exceeds `FillLag + StartLag`, and drift is not tolerated; the run's instance
satisfies it.  Without
any one of the first three TLC has a counterexample on it.

### The L2 feed

`Registry` (guards, counts) and `Fresh` (the cached views of an unmarked book are
the book's, or the coin is pending) are inductive on their own.  `Told` says that the
last broadcast in flight that tells of the coins, or else the universe, has every
cached coin.  For `FollowsBroadcast` the messages in a session's channel form a chain
(`Chain`): what one leaves out, and what it calls previous, is as the one before has it,
and the last one is the cache, unless an install dropped that.  `Showing` then says that what the
client has is what the oldest message in its channel changes (`AgreesBefore`), so each
receive moves it one link; a session that lagged claims nothing until it has sent whole books.

### The event feed

`Gates`: each session holds the guards of its subscriptions, one per family, and
the counts are their number; a builder that gives up returns them.  `Pairing` says what
waits in the pairer: the last leg taken, unless the other leg of its trade was taken too.
A leg then completes its own trade or none.  The trades printed and those in flight
rise (`Printing`), so a client's do.  For `L4Complete` every batch since a
subscription is received, in the channel or noted as dropped (`Streamed`), and a dump
being built is not older than the guards that were taken before it (`Dumped`), the
cached one excepted.  `Quoting` says that the last quote in flight is the top of the book, and
that a session with none in flight or lost shows it.

### The connection

`Numbered` gives every frame its place: what is on the wire, then in the writer's hand,
then in the queue is 1, 2, 3, ... on each lane; `Kept` accounts for each accepted frame:
written, in the writer's hand or queued, until the writer fails or is aborted.

### Only model-checked

- Liveness, which is out of the prover's reach: `AllDelivered`, `ReplacedExit`, `ReadOrFlagged`,
  `HeldThenReleased`, `MarkedThenHealed`, `SubscriberCatchesUp`, `PingsAnswered`, `BothEnd`.
- `DumpIsFaithful` and `ImplementsBook` of `OrderBook`: they need the order in which matching
  fills the makers and how much of each, and the content of joined and rebuilt sequences, where
  the proved invariant only says that what is left agrees and does not cross.

## What the models leave out

- One coin: the books of different coins share nothing but the pending maps,
  which are keyed by oid.  One operation per block; a batch's events are steps.
- `QueueOrder` says nothing of the order within a level that has stop orders, or
  after a waiting status aged out.  `insert_before_fallbacks` is a flag that stays set until the next install; the code's is a counter that
  the listener drains.
- A stop order whose own conversion fails (a parse failure in the untriggered
  path) is not modelled.
- `resync_data_loss` is set and cleared with `needs_resync`: one variable.  With
  `tolerate_drift` nothing is marked; the runs have it off.
- While a fetch is in flight the streams are held, so the replay cache stays
  empty (`NothingCached`, proved); its cap and the chase rounds of the install
  never act and are part of `finish_install`.
- A watcher that exits, a closed channel and a first fetch that fails end the
  process: terminal states or none.
- Failing system calls (open, stat, read), equal modification times and the
  removal of files are not modelled.  `start_tracking` without a backfill begins
  at the end of the file: earlier lines are `before` and not wanted.  The
  backfill of one file is one step.
- `QuietStart`, `FillLag` and `StartLag` are assumptions on timing (see above).
- `FileTail`'s corrupt lines and `LiveMerge`'s and `Resync`'s lines that do not
  parse are different things: the first have the wrong shape, the others fail in
  serde.
- `LiveMerge` starts its readers with a floor: without one (`backfill_min_height`
  0) there is neither backfill nor barrier, and the readers are live at once.
  One re-sync, made when the files are complete.
- `L2Feed` keeps one side of the book and takes a shape as a bucket width.  Block
  heights are left out: `prevHeight` is the height last sent on the subscription
  by construction.  Frame caches are functions of their keys; the dedup hash is
  the levels themselves, so a collision is not a behaviour.  Heartbeats repeat
  the last payload.  The outbound queue keeps its order until the session ends.
  A coin that the dump lists with no orders is not a state of the model; the cap
  on subscriptions is not reached.
- `EventFeed` has one coin and no price bands.  The cap on cached dumps, the gzip
  copy, the per-user filter of orderUpdates and heartbeats are left out; the
  cache's lifetime is any time.  The listener's lock is a step.
- `Outbound`'s protocol-level pings and pongs are the WebSocket library's.
- In `OrderBook` the index's value (side and price) is a function of the oid, as
  it is for the node's oids; heap sizes and statistics are left out.
- Decimal parsing and formatting of prices and sizes, the significant-figure
  buckets, the untriggeredOrders and health handlers, metrics, the command line
  and the tools are not modelled: single-value conversions, read-only queries
  and I/O.

## Plan

Done: the modules above, from the files to the clients' sockets, the refinement of
`Book` by `OrderBook`, and the proofs of the book state, the hand-off, the watcher, the
merge, the re-sync, the two feeds and the connection, and of the stored book's links,
index, sums and quotes.  What is left stays with TLC: that the stored book matches as the
abstract one does (`ImplementsBook`), and that a dump and the book rebuilt from it are the
book (`DumpIsFaithful`).
