------------------------------- MODULE Resync -------------------------------
(***************************************************************************)
(* How the listener gets a book and gets it back                           *)
(* (listeners/order_book/mod.rs): the main loop of hl_listen_hft, the      *)
(* snapshot fetch task, the bookkeeping of lost data (mark_desynced,       *)
(* finish_install) and the watchers that are restarted for every re-sync.  *)
(*                                                                         *)
(* A block is a height.  The two book streams are one stream of heights    *)
(* here (LiveMerge models how they become one) and the book is the set of  *)
(* blocks it reflects (OrderBookState models what is in a block).  The     *)
(* node persists its state now and then; a dump is of the persisted state. *)
(***************************************************************************)
EXTENDS Integers, FiniteSets, FiniteSetsExt

CONSTANTS
    MaxHead,            \* bound: the last block
    MaxLosses,          \* bound: blocks that some step loses
    MaxErrors,          \* bound: failures of a fetch or of the visor's file
    LOSS_HEIGHT_MARGIN,
    LIVE_STREAM_LINES,
    FillLag,            \* fills are read at most this far behind the head
    StartLag,           \* blocks between the start of watchers and that of a fetch
    Losses,             \* the ways to lose a block: see LossKinds
    WatchReads, FetchReads, \* what a read of the persisted height may return
    tolerate_drift

LossKinds == {"discarded", "unparsed", "oversize", "apply_error", "cleared"}
Reads == {"rmp", "visor", "none"}

ASSUME ResyncAssumption ==
    /\ MaxHead \in Nat /\ MaxHead > 1 /\ LIVE_STREAM_LINES \in Nat \ {0}
    /\ {MaxLosses, MaxErrors, LOSS_HEIGHT_MARGIN, FillLag, StartLag} \subseteq Nat
    /\ Losses \subseteq LossKinds
    /\ WatchReads \subseteq Reads /\ FetchReads \subseteq Reads
    /\ "rmp" \in WatchReads \cap FetchReads
    /\ tolerate_drift \in BOOLEAN

VARIABLES
    \* the node, external
    head, persisted,
    \* the watchers of the book streams and their channels
    readTo,         \* the last block they have read
    chan,           \* blocks read and not yet taken
    unparsed,       \* the blocks of chan whose line will not parse
    desyncs,        \* a Desync waits in the event channel
    startedAt,      \* the head when they were started, until the fetch begins
    \* OrderBookListener
    book,           \* blocks reflected in the book
    bookHeight,     \* its height; 0: no book yet
    cache,          \* fetched_snapshot_cache
    caching,        \* ... is Some
    needs_resync,   \* and resync_data_loss: they are set and cleared together
    max_loss_height, install_covers, last_seen_height,
    \* hl_listen_hft
    merge_active, floor, snapshot_fetch_pending, fetchAllowed,
    \* the fetch task
    task,           \* its program point, or the result it has sent
    cut,            \* pre_dump_height
    dumpAt,         \* the height of the state that was really dumped
    losses, errors  \* how often each has happened

nodeVars     == <<head, persisted>>
watcherVars  == <<readTo, chan, unparsed, desyncs, startedAt>>
bookVars     == <<book, bookHeight>>
cacheVars    == <<cache, caching>>
markVars     == <<needs_resync, max_loss_height>>
loopVars     == <<merge_active, floor, snapshot_fetch_pending, fetchAllowed>>
taskVars     == <<task, cut, dumpAt>>
countVars    == <<losses, errors>>
vars == <<nodeVars, watcherVars, bookVars, cacheVars, markVars, install_covers,
          last_seen_height, loopVars, taskVars, countVars>>

u64_MAX == MaxHead + LOSS_HEIGHT_MARGIN + 1  \* above every other bound
is_ready == bookHeight > 0

(***************************************************************************)
(* The node.                                                               *)
(***************************************************************************)

NodeAdvances ==
    /\ head < MaxHead
    /\ head - Max({last_seen_height, 1}) < FillLag
    /\ task = "spawned" \/ (~is_ready /\ task = "none") => head - startedAt < StartLag
    /\ head' = head + 1
    /\ UNCHANGED <<persisted, watcherVars, bookVars, cacheVars, markVars,
                   install_covers, last_seen_height, loopVars, taskVars, countVars>>

NodePersists ==
    /\ persisted < head
    /\ persisted' = head
    /\ UNCHANGED <<head, watcherVars, bookVars, cacheVars, markVars, install_covers,
                   last_seen_height, loopVars, taskVars, countVars>>

\* The persisted state's own height, or the head, or 0 for None.
persisted_height(reads) ==
    {CASE r = "rmp" -> persisted [] r = "visor" -> head [] OTHER -> 0 : r \in reads}

(***************************************************************************)
(* Losing data.                                                            *)
(***************************************************************************)

mark_desynced(seen, height) ==
    IF tolerate_drift THEN UNCHANGED markVars
    ELSE LET observed == Max({seen, height})
             bound == IF observed = 0 THEN u64_MAX ELSE observed + LOSS_HEIGHT_MARGIN
         IN  /\ needs_resync' = TRUE
             /\ max_loss_height' = Max({max_loss_height, bound})

MayLose(kind) == kind \in Losses /\ losses < MaxLosses

(***************************************************************************)
(* The watchers.                                                           *)
(***************************************************************************)

\* Mutated: the channel takes whatever is read.
ChannelUnbounded == TRUE

\* A reader parks on its full channel.
ChannelHasRoom == Cardinality(chan) < LIVE_STREAM_LINES

\* The next block is read from its file: sent to the book channel, or discarded
\* as corrupt or oversized, which is reported on the event channel ("discarded"), or
\* lost with nothing reported ("unparsed").  The last has two causes: a line that goes
\* through the channel and does not parse, and a malformed line that the backfill
\* skips, with the rest of its file after a read error.  The skipped line never enters
\* the channel; to the book the two are the same.
WatcherReads ==
    /\ readTo < head
    /\ ChannelHasRoom
    /\ readTo' = readTo + 1
    /\ \/ chan' = chan \cup {readTo + 1} /\ UNCHANGED <<unparsed, desyncs, losses>>
       \/ /\ MayLose("unparsed")
          /\ chan' = chan \cup {readTo + 1}
          /\ unparsed' = unparsed \cup {readTo + 1}
          /\ losses' = losses + 1
          /\ UNCHANGED desyncs
       \/ /\ MayLose("discarded")
          /\ desyncs' = TRUE
          /\ losses' = losses + 1
          /\ UNCHANGED <<chan, unparsed>>
    /\ UNCHANGED <<nodeVars, startedAt, bookVars, cacheVars, markVars, install_covers,
                   last_seen_height, loopVars, taskVars, errors>>

\* start_parallel_file_watchers at a floor; without one the live end is all
\* there is to read.
StartWatchers(backfill_min_height) ==
    /\ readTo' = IF backfill_min_height > 0 THEN backfill_min_height ELSE head
    /\ chan' = {} /\ unparsed' = {} /\ desyncs' = FALSE
    /\ startedAt' = head

(***************************************************************************)
(* The event and the merge arms of the main loop.                          *)
(***************************************************************************)

RecvDesync ==
    /\ desyncs
    /\ desyncs' = FALSE
    /\ mark_desynced(last_seen_height, bookHeight)
    /\ UNCHANGED <<nodeVars, readTo, chan, unparsed, startedAt, bookVars, cacheVars,
                   install_covers, last_seen_height, loopVars, taskVars, countVars>>

\* Fills never change the book, but they are heights seen.
RecvFill ==
    /\ last_seen_height < head
    /\ last_seen_height' = head
    /\ UNCHANGED <<nodeVars, watcherVars, bookVars, cacheVars, markVars,
                   install_covers, loopVars, taskVars, countVars>>

\* A batch at or below the floor, or one that does not parse, goes no further.
Dropped(h) == h \in unparsed \/ h <= floor

\* While a fetch is in flight a batch is cached for replay; without a book that
\* is all that happens to it.
cache_for_replay(h) ==
    /\ cache' = IF caching THEN cache \cup {h} ELSE cache
    /\ UNCHANGED caching

Apply(h) ==
    /\ book' = IF is_ready THEN book \cup {h} ELSE book
    /\ bookHeight' = IF is_ready THEN Max({bookHeight, h}) ELSE bookHeight

\* apply_event_batch for one block: too large, or applied, perhaps with an error
\* on the way or with a cleanup that evicts halves of some earlier block.
apply_event_batch(h) ==
    /\ last_seen_height' = Max({last_seen_height, h})
    /\ \/ cache_for_replay(h) /\ Apply(h) /\ UNCHANGED <<markVars, losses>>
       \/ /\ MayLose("oversize")
          /\ mark_desynced(last_seen_height', bookHeight)
          /\ losses' = losses + 1
          /\ UNCHANGED <<cacheVars, bookVars>>
       \/ /\ MayLose("apply_error") /\ is_ready
          /\ cache_for_replay(h)
          /\ bookHeight' = Max({bookHeight, h})
          /\ mark_desynced(last_seen_height', bookHeight')
          /\ losses' = losses + 1
          /\ UNCHANGED book
       \/ /\ MayLose("cleared") /\ is_ready
          /\ cache_for_replay(h)
          /\ \E g \in floor + 1 .. h : book' = (book \cup {h}) \ {g}
          /\ bookHeight' = Max({bookHeight, h})
          /\ mark_desynced(last_seen_height', bookHeight')
          /\ losses' = losses + 1

Take ==
    /\ merge_active
    /\ chan # {}
    /\ LET h == Min(chan) IN
       /\ chan' = chan \ {h}
       /\ unparsed' = unparsed \ {h}
       /\ IF Dropped(h)
          THEN UNCHANGED <<bookVars, cacheVars, markVars, last_seen_height, losses>>
          ELSE apply_event_batch(h)
    /\ UNCHANGED <<nodeVars, readTo, desyncs, startedAt, install_covers, loopVars,
                   taskVars, errors>>

(***************************************************************************)
(* The ticker arm.                                                         *)
(***************************************************************************)

fetch_due == ~is_ready \/ (needs_resync /\ fetchAllowed)

\* Mutated: the streams go on being applied to the old book.
StreamsNotHeld == UNCHANGED merge_active

HoldStreams == merge_active' = FALSE

Ticker ==
    /\ fetch_due
    /\ ~snapshot_fetch_pending
    /\ snapshot_fetch_pending' = TRUE
    /\ task' = "spawned"
    /\ IF is_ready
       THEN /\ \E h \in persisted_height(WatchReads) : StartWatchers(h)
            /\ HoldStreams
            /\ floor' = 0
       ELSE UNCHANGED <<watcherVars, merge_active, floor>>
    /\ UNCHANGED <<nodeVars, bookVars, cacheVars, markVars, install_covers,
                   last_seen_height, fetchAllowed, cut, dumpAt, countVars>>

\* The spacing between re-syncs, doubled after each that does not converge.
BackoffElapses ==
    /\ ~fetchAllowed
    /\ fetchAllowed' = TRUE
    /\ UNCHANGED <<nodeVars, watcherVars, bookVars, cacheVars, markVars,
                   install_covers, last_seen_height, merge_active, floor,
                   snapshot_fetch_pending, taskVars, countVars>>

(***************************************************************************)
(* fetch_snapshot, a task beside the main loop.                            *)
(***************************************************************************)

FetchBegin ==
    /\ task = "spawned"
    /\ task' = "begun"
    /\ \/ install_covers' = head /\ UNCHANGED errors
       \/ /\ "none" \in FetchReads /\ errors < MaxErrors
          /\ install_covers' = 0
          /\ errors' = errors + 1
    /\ caching' = TRUE
    /\ cache' = IF caching THEN cache ELSE {}
    /\ startedAt' = 0
    /\ UNCHANGED <<nodeVars, readTo, chan, unparsed, desyncs, bookVars, markVars, last_seen_height,
                   loopVars, cut, dumpAt, losses>>

FetchReadsHeight ==
    /\ task = "begun"
    /\ cut' \in persisted_height(FetchReads)
    /\ cut' = 0 => errors < MaxErrors
    /\ task' = "cut"
    /\ UNCHANGED <<nodeVars, watcherVars, bookVars, cacheVars, markVars,
                   install_covers, last_seen_height, loopVars, dumpAt, countVars>>

FetchDumps ==
    /\ task = "cut"
    /\ cut > 0
    /\ dumpAt' = persisted
    /\ task' = "dumped"
    /\ UNCHANGED <<nodeVars, watcherVars, bookVars, cacheVars, markVars,
                   install_covers, last_seen_height, loopVars, cut, countVars>>

\* No height to cut at, or a dump or a load that fails.
FetchFails ==
    /\ task \in {"cut", "dumped"}
    /\ errors < MaxErrors
    /\ errors' = errors + 1
    /\ task' = "failed"
    /\ UNCHANGED <<nodeVars, watcherVars, bookVars, cacheVars, markVars,
                   install_covers, last_seen_height, loopVars, cut, dumpAt, losses>>

Covers == Max({install_covers, cut})

\* Mutated: the margin is taken off the bound again.
StillLostLessMargin(prior, covers) == prior - LOSS_HEIGHT_MARGIN > covers

\* Mutated: an uninformed bound is kept as it is.
LossKept(prior) == IF prior > Covers THEN prior ELSE 0

\* What is left of the loss bound once the new book is in.
StillLost(prior, covers) == prior > covers
LossAfterInstall(prior) ==
    IF ~StillLost(prior, Covers) THEN 0
    ELSE IF prior = u64_MAX THEN Max({last_seen_height, cut}) ELSE prior

\* The replacement book, the replay of what was cached, and the bookkeeping.  The
\* chase rounds of the phased install take what is cached beforehand.
finish_install ==
    /\ task = "dumped"
    /\ book' = 1 .. dumpAt \cup {h \in cache : h > cut}
    /\ bookHeight' = Max({cut} \cup cache)
    /\ cache' = {} /\ caching' = FALSE
    /\ needs_resync' = StillLost(max_loss_height, Covers)
    /\ max_loss_height' = LossAfterInstall(max_loss_height)
    /\ install_covers' = 0
    /\ task' = "installed"
    /\ UNCHANGED <<nodeVars, watcherVars, last_seen_height, loopVars, cut, dumpAt,
                   countVars>>

(***************************************************************************)
(* The result arm of the main loop.                                        *)
(***************************************************************************)

\* Mutated: only a success ends the fetch.
SettledBySuccess == snapshot_fetch_pending' = (task = "failed")

FetchSettled == snapshot_fetch_pending' = FALSE

RecvInstalled ==
    /\ task = "installed"
    /\ FetchSettled
    /\ floor' = cut
    /\ merge_active' = TRUE
    /\ fetchAllowed' = FALSE
    /\ task' = "none" /\ cut' = 0 /\ dumpAt' = 0
    /\ UNCHANGED <<nodeVars, watcherVars, bookVars, cacheVars, markVars,
                   install_covers, last_seen_height, countVars>>

\* Without a book the process exits (what else still moves then does not matter);
\* with one the ticker will try again.
RecvFailed ==
    /\ task = "failed"
    /\ cut' = 0 /\ dumpAt' = 0
    /\ IF is_ready
       THEN task' = "none" /\ FetchSettled /\ fetchAllowed' = FALSE
       ELSE task' = "exited" /\ UNCHANGED <<snapshot_fetch_pending, fetchAllowed>>
    /\ UNCHANGED <<nodeVars, watcherVars, bookVars, cacheVars, markVars,
                   install_covers, last_seen_height, merge_active, floor,
                   countVars>>

(***************************************************************************)
(* The specification.                                                      *)
(***************************************************************************)

Init ==
    /\ head = 2 /\ persisted = 1
    /\ readTo \in {IF h > 0 THEN h ELSE head : h \in persisted_height(WatchReads)}
    /\ chan = {} /\ unparsed = {} /\ desyncs = FALSE /\ startedAt = head
    /\ book = {} /\ bookHeight = 0
    /\ cache = {} /\ caching = TRUE
    /\ needs_resync = FALSE /\ max_loss_height = 0
    /\ install_covers = 0 /\ last_seen_height = 0
    /\ merge_active = FALSE /\ floor = 0
    /\ snapshot_fetch_pending = FALSE /\ fetchAllowed = TRUE
    /\ task = "none" /\ cut = 0 /\ dumpAt = 0
    /\ losses = 0 /\ errors = 0

Next ==
    \/ NodeAdvances \/ NodePersists
    \/ WatcherReads \/ RecvDesync \/ RecvFill \/ Take
    \/ Ticker \/ BackoffElapses
    \/ FetchBegin \/ FetchReadsHeight \/ FetchDumps \/ FetchFails \/ finish_install
    \/ RecvInstalled \/ RecvFailed

\* The loop's arms, the watchers and the task all run on; fetches fail finitely
\* often (MaxErrors) and the node goes on.
Fairness ==
    /\ WF_vars(NodeAdvances) /\ WF_vars(WatcherReads)
    /\ WF_vars(RecvDesync) /\ WF_vars(RecvFill) /\ WF_vars(Take)
    /\ WF_vars(Ticker) /\ WF_vars(BackoffElapses)
    /\ WF_vars(FetchBegin \/ FetchReadsHeight \/ FetchDumps \/ finish_install)
    /\ WF_vars(FetchFails)
    /\ WF_vars(RecvInstalled \/ RecvFailed)

Spec == Init /\ [][Next]_vars /\ Fairness

(***************************************************************************)
(* What it is for.                                                         *)
(***************************************************************************)

\* Types and bounds: the book channel stays within LIVE_STREAM_LINES, and no height
\* the listener keeps is above the node's head.
TypeOK ==
    /\ 1 <= persisted /\ persisted <= head /\ head <= MaxHead
    /\ readTo \in 1 .. head /\ chan \subseteq 1 .. readTo /\ unparsed \subseteq chan
    /\ Cardinality(chan) <= LIVE_STREAM_LINES
    /\ book \subseteq 1 .. head /\ bookHeight \in 0 .. head
    /\ cache \subseteq 1 .. head
    /\ max_loss_height \in 0 .. u64_MAX
    /\ install_covers \in 0 .. head /\ last_seen_height \in 0 .. head
    /\ floor \in 0 .. head /\ cut \in 0 .. head /\ dumpAt \in 0 .. head
    /\ task \in {"none", "spawned", "begun", "cut", "dumped", "failed", "installed", "exited"}

Missing == {h \in 1 .. bookHeight : h \notin book}

\* A book that lacks a block at or below its height is marked for a re-sync, or the
\* report of the loss is on its way: no install and no restart of the watchers makes
\* the server forget a hole it still has.
LossIsMarked ==
    ~tolerate_drift => Missing = {} \/ needs_resync \/ desyncs

\* The streams are held for the whole of a fetch, so nothing is ever cached in
\* memory for the replay.
NothingCached == cache = {}

\* Held streams are released in the end: a failed fetch is tried again.
HeldThenReleased == (task # "exited" /\ ~merge_active) ~> (merge_active \/ task = "exited")

\* A marked book is in the end one that a snapshot has replaced: a loss of unknown
\* height too, which no head ever covers as it stands.  (Only a bound past the last
\* block of the instance may stay.)
MarkedThenHealed ==
    needs_resync ~> \/ ~needs_resync
                    \/ max_loss_height \in MaxHead + 1 .. u64_MAX - 1
                    \/ task = "exited"
=============================================================================
