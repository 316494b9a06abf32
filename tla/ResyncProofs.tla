---------------------------- MODULE ResyncProofs ----------------------------
(***************************************************************************)
(* The bookkeeping of lost blocks, for any chain, any number of losses and *)
(* of failed fetches, and any margin: nothing is cached while a snapshot   *)
(* is fetched, and, when the node is no faster than the margin allows, no  *)
(* hole of the book is ever forgotten.                                     *)
(***************************************************************************)
EXTENDS Resync, TLAPS, FiniteSetTheorems, WellFoundedInduction

-----------------------------------------------------------------------------
(* The inductive invariant of the control, which holds for all constants.  *)

Types ==
  /\ TypeOK
  /\ head \in Nat /\ persisted \in Nat /\ startedAt \in 0 .. head

Flags ==
  /\ desyncs \in BOOLEAN /\ caching \in BOOLEAN /\ needs_resync \in BOOLEAN
  /\ merge_active \in BOOLEAN /\ snapshot_fetch_pending \in BOOLEAN
  /\ fetchAllowed \in BOOLEAN

\* The merged stream is taken only with a book, with no fetch under way and with
\* nothing kept for a replay.
Held ==
  /\ snapshot_fetch_pending <=> task # "none"
  /\ merge_active => is_ready /\ ~caching /\ task = "none"
  /\ task = "installed" => is_ready /\ ~caching
  /\ task = "dumped" => cut > 0
  /\ NothingCached

Control == Types /\ Flags /\ Held

\* The bound that a mark sets.
Bound(seen, height) ==
  IF Max({seen, height}) = 0 THEN u64_MAX ELSE Max({seen, height}) + LOSS_HEIGHT_MARGIN

-----------------------------------------------------------------------------
(* Extrema.                                                                *)

\* The larger of two numbers.
LEMMA MaxOfTwo ==
  ASSUME NEW a \in Nat, NEW b \in Nat
  PROVE  Max({a, b}) = IF a >= b THEN a ELSE b
BY DEF Max

\* The only number.
LEMMA MaxOfOne ==
  ASSUME NEW a \in Nat
  PROVE  Max({a}) = a
BY DEF Max

\* A set of numbers that is not empty has a least element.
LEMMA MinOfSet ==
  ASSUME NEW S \in SUBSET Nat, S # {}
  PROVE  Min(S) \in S /\ \A x \in S : Min(S) <= x
<1> DEFINE R == {ss \in Nat \X Nat : ss[1] < ss[2]}
<1>1. IsWellFoundedOn(R, Nat)
  BY NatLessThanWellFounded DEF OpToRel
<1> HIDE DEF R
<1>2. PICK m \in S : \A x \in S : ~ (<<x, m>> \in R)
  <2>1. S \subseteq Nat
    OBVIOUS
  <2>2. QED
    BY <1>1, <2>1, WFMin, Zenon
<1>3. ASSUME NEW x \in S PROVE m <= x
  <2>1. x \in Nat /\ m \in Nat
    OBVIOUS
  <2>2. x < m => <<x, m>> \in R
    BY <2>1 DEF R
  <2>3. QED
    BY <1>2, <2>1, <2>2
<1>4. QED
  BY <1>3 DEF Min

\* A mark is a bound above all that was seen.
LEMMA MarkEffect ==
  ASSUME NEW seen \in 0 .. MaxHead, NEW height \in 0 .. MaxHead, NEW prior \in 0 .. u64_MAX
  PROVE  /\ Max({prior, Bound(seen, height)}) \in 0 .. u64_MAX
         /\ Max({prior, Bound(seen, height)}) >= seen + LOSS_HEIGHT_MARGIN
         /\ Max({prior, Bound(seen, height)}) >= 1 + LOSS_HEIGHT_MARGIN
         /\ Max({prior, Bound(seen, height)}) >= prior
<1> DEFINE observed == Max({seen, height})
           bound == Bound(seen, height)
<1>1. MaxHead \in Nat \ {0} /\ LOSS_HEIGHT_MARGIN \in Nat /\ seen \in Nat /\ height \in Nat
  BY ResyncAssumption DEF ResyncAssumption
<1>2. observed \in 0 .. MaxHead /\ observed >= seen
  BY <1>1, MaxOfTwo
<1>3. bound = IF observed = 0 THEN u64_MAX ELSE observed + LOSS_HEIGHT_MARGIN
  BY DEF Bound
<1> HIDE DEF observed, bound
<1>4. /\ bound \in 0 .. u64_MAX /\ bound \in Nat /\ prior \in Nat
      /\ bound >= seen + LOSS_HEIGHT_MARGIN /\ bound >= 1 + LOSS_HEIGHT_MARGIN
  BY <1>1, <1>2, <1>3 DEF u64_MAX
<1>5. Max({prior, bound}) = IF prior >= bound THEN prior ELSE bound
  BY <1>4, MaxOfTwo
<1>6. QED
  BY <1>1, <1>4, <1>5 DEF bound

-----------------------------------------------------------------------------
(* The control.                                                            *)

\* The listener starts with no book, held streams and an empty cache.
LEMMA InitControl == ASSUME Init PROVE Control
<1> USE ResyncAssumption DEF ResyncAssumption, Init
<1>1. readTo \in 1 .. head
  BY DEF persisted_height
<1>2. Types
  BY <1>1, FS_EmptySet DEF Types, TypeOK, u64_MAX
<1>3. Flags /\ Held
  BY DEF Flags, Held, NothingCached, is_ready
<1>4. QED
  BY <1>2, <1>3 DEF Control

\* What the node, the fills and the clock do.
LEMMA OutsideControl ==
  ASSUME Control, NodeAdvances \/ NodePersists \/ RecvFill \/ BackoffElapses
  PROVE  Control'
<1> USE ResyncAssumption DEF ResyncAssumption, Control, nodeVars, watcherVars, bookVars, cacheVars, markVars,
      loopVars, taskVars, countVars
<1>1. CASE NodeAdvances
  BY <1>1 DEF NodeAdvances, Types, TypeOK, Flags, Held, NothingCached, is_ready, u64_MAX
<1>2. CASE NodePersists
  BY <1>2 DEF NodePersists, Types, TypeOK, Flags, Held, NothingCached, is_ready, u64_MAX
<1>3. CASE RecvFill
  BY <1>3 DEF RecvFill, Types, TypeOK, Flags, Held, NothingCached, is_ready, u64_MAX
<1>4. CASE BackoffElapses
  BY <1>4 DEF BackoffElapses, Types, TypeOK, Flags, Held, NothingCached, is_ready, u64_MAX
<1>5. QED
  BY <1>1, <1>2, <1>3, <1>4

\* What the fetch task does.
LEMMA FetchControl ==
  ASSUME Control, FetchBegin \/ FetchReadsHeight \/ FetchDumps \/ FetchFails \/ finish_install
  PROVE  Control'
<1> USE ResyncAssumption DEF ResyncAssumption, Control, nodeVars, watcherVars, bookVars, cacheVars, markVars,
      loopVars, taskVars, countVars
<1>1. CASE FetchBegin
  BY <1>1 DEF FetchBegin, Types, TypeOK, Flags, Held, NothingCached, is_ready, u64_MAX
<1>2. CASE FetchReadsHeight
  BY <1>2 DEF FetchReadsHeight, persisted_height, Types, TypeOK, Flags, Held, NothingCached, is_ready, u64_MAX
<1>3. CASE FetchDumps
  BY <1>3 DEF FetchDumps, Types, TypeOK, Flags, Held, NothingCached, is_ready, u64_MAX
<1>4. CASE FetchFails
  BY <1>4 DEF FetchFails, Types, TypeOK, Flags, Held, NothingCached, is_ready, u64_MAX
<1>5. CASE finish_install
  <2>1. bookHeight' = cut /\ cut > 0
    <3>1. task = "dumped" /\ bookHeight' = Max({cut} \cup cache)
      BY <1>5 DEF finish_install
    <3>2. cut > 0 /\ cut \in Nat
      BY <3>1 DEF Held, Types, TypeOK
    <3>3. cache = {}
      BY DEF Held, NothingCached
    <3>4. {cut} \cup cache = {cut}
      BY <3>3
    <3>5. QED
      BY <3>1, <3>2, <3>4, MaxOfOne
  <2>2. max_loss_height' \in 0 .. u64_MAX /\ needs_resync' \in BOOLEAN
    <3>1. Max({last_seen_height, cut}) \in 0 .. u64_MAX
      BY MaxOfTwo DEF Types, TypeOK, u64_MAX
    <3>2. needs_resync' \in BOOLEAN
      BY <1>5 DEF finish_install, StillLost
    <3>3. QED
      BY <1>5, <3>1, <3>2 DEF finish_install, LossAfterInstall, Types, TypeOK, u64_MAX
  <2>3. book' = 1 .. dumpAt
    BY <1>5 DEF finish_install, Held, NothingCached
  <2>4. /\ task = "dumped" /\ task' = "installed" /\ cache' = {} /\ caching' = FALSE /\ install_covers' = 0
        /\ UNCHANGED <<head, persisted, readTo, chan, unparsed, desyncs, startedAt, last_seen_height,
                       merge_active, floor, snapshot_fetch_pending, fetchAllowed, cut, dumpAt>>
    BY <1>5 DEF finish_install
  <2>5. Types'
    BY <2>1, <2>2, <2>3, <2>4 DEF Types, TypeOK, u64_MAX
  <2>6. Flags' /\ Held'
    BY <2>1, <2>2, <2>4 DEF Flags, Held, NothingCached, is_ready
  <2>7. QED
    BY <2>5, <2>6
<1>6. QED
  BY <1>1, <1>2, <1>3, <1>4, <1>5

\* What the ticker arm and the result arm do.
LEMMA LoopControl ==
  ASSUME Control, Ticker \/ RecvInstalled \/ RecvFailed
  PROVE  Control'
<1> USE ResyncAssumption DEF ResyncAssumption, Control, nodeVars, watcherVars, bookVars, cacheVars, markVars,
      loopVars, taskVars, countVars
<1>1. CASE Ticker
  <2>1. CASE is_ready
    <3>1. PICK h \in persisted_height(WatchReads) : StartWatchers(h)
      BY <1>1, <2>1 DEF Ticker
    <3>2. h \in 0 .. head
      BY DEF persisted_height, Types, TypeOK
    <3>3. Types'
      <4>1. readTo' \in 1 .. head /\ chan' = {} /\ unparsed' = {} /\ startedAt' = head
        BY <3>1, <3>2 DEF StartWatchers, Types, TypeOK
      <4>2. Cardinality(chan') = 0
        BY <4>1, FS_EmptySet
      <4>3. QED
        BY <1>1, <2>1, <4>1, <4>2 DEF Ticker, Types, TypeOK, u64_MAX
    <3>4. Flags'
      BY <1>1, <2>1, <3>1 DEF Ticker, HoldStreams, StartWatchers, Flags
    <3>5. Held'
      BY <1>1, <2>1 DEF Ticker, HoldStreams, Held, NothingCached, is_ready
    <3>6. QED
      BY <3>3, <3>4, <3>5
  <2>2. CASE ~is_ready
    BY <1>1, <2>2 DEF Ticker, Types, TypeOK, Flags, Held, NothingCached, is_ready, u64_MAX
  <2>3. QED
    BY <2>1, <2>2
<1>2. CASE RecvInstalled
  <2>1. Types'
    BY <1>2 DEF RecvInstalled, Types, TypeOK, u64_MAX
  <2>2. Flags'
    BY <1>2 DEF RecvInstalled, FetchSettled, Flags
  <2>3. Held'
    BY <1>2 DEF RecvInstalled, FetchSettled, Held, Flags, NothingCached, is_ready
  <2>4. QED
    BY <2>1, <2>2, <2>3
<1>3. CASE RecvFailed
  <2>1. Types'
    BY <1>3 DEF RecvFailed, Types, TypeOK, u64_MAX
  <2>2. Flags'
    BY <1>3 DEF RecvFailed, FetchSettled, Flags
  <2>3. Held'
    BY <1>3 DEF RecvFailed, FetchSettled, Held, Flags, NothingCached, is_ready
  <2>4. QED
    BY <2>1, <2>2, <2>3
<1>4. QED
  BY <1>1, <1>2, <1>3

\* What the watchers read, and a reported loss.
LEMMA WatchControl ==
  ASSUME Control, WatcherReads \/ RecvDesync
  PROVE  Control'
<1> USE ResyncAssumption DEF ResyncAssumption, Control, nodeVars, watcherVars, bookVars, cacheVars, markVars,
      loopVars, taskVars, countVars
<1>1. CASE WatcherReads
  <2>1. /\ readTo' = readTo + 1 /\ readTo' \in 1 .. head
        /\ chan \subseteq 1 .. readTo /\ readTo \in Nat
    BY <1>1 DEF WatcherReads, Types, TypeOK
  <2>c. /\ chan' = chan \cup {readTo + 1} \/ chan' = chan
        /\ unparsed' \subseteq chan'
    BY <1>1 DEF WatcherReads, Types, TypeOK
  <2>2. Cardinality(chan') <= LIVE_STREAM_LINES
    <3>1. IsFiniteSet(chan)
      <4>1. IsFiniteSet(1 .. readTo)
        BY <2>1, FS_Interval
      <4>2. QED
        BY <2>1, <4>1, FS_Subset
    <3>2. Cardinality(chan) \in Nat /\ Cardinality(chan) < LIVE_STREAM_LINES
      BY <1>1, <3>1, FS_CardinalityType DEF WatcherReads, ChannelHasRoom
    <3>3. Cardinality(chan \cup {readTo + 1}) <= Cardinality(chan) + 1
      <4>1. Cardinality(chan \cup {readTo + 1})
              = IF readTo + 1 \in chan THEN Cardinality(chan) ELSE Cardinality(chan) + 1
        BY <3>1, FS_AddElement, Zenon
      <4>2. QED
        BY <3>2, <4>1
    <3>4. CASE chan' = chan
      BY <3>2, <3>4
    <3>5. CASE chan' = chan \cup {readTo + 1}
      <4> DEFINE n == Cardinality(chan \cup {readTo + 1})
      <4>1. n \in Nat
        BY <3>1, FS_AddElement, FS_CardinalityType
      <4>2. Cardinality(chan') = n
        BY <3>5
      <4> HIDE DEF n
      <4>3. QED
        BY <3>2, <3>3, <4>1, <4>2 DEF n
    <3>6. QED
      BY <2>c, <3>4, <3>5
  <2>3. Types'
    <3>1. UNCHANGED <<head, persisted, startedAt, book, bookHeight, cache, max_loss_height,
                      install_covers, last_seen_height, floor, task, cut, dumpAt>>
      BY <1>1 DEF WatcherReads
    <3>2. chan' \subseteq 1 .. readTo'
      <4>1. ASSUME NEW x \in chan' PROVE x \in 1 .. readTo'
        <5>1. x \in 1 .. readTo \/ x = readTo + 1
          BY <2>1, <2>c
        <5>2. QED
          BY <2>1, <5>1
      <4>2. QED
        BY <4>1
    <3>3. unparsed' \subseteq chan' /\ readTo' \in 1 .. head'
      <4>1. unparsed' \subseteq chan'
        BY <2>c
      <4>2. readTo' \in 1 .. head'
        BY <2>1, <3>1
      <4>3. QED
        BY <4>1, <4>2
    <3>4. QED
      BY <2>2, <3>1, <3>2, <3>3 DEF Types, TypeOK
  <2>4. Flags' /\ Held'
    BY <1>1 DEF WatcherReads, Flags, Held, NothingCached, is_ready
  <2>5. QED
    BY <2>3, <2>4
<1>2. CASE RecvDesync
  <2>1. max_loss_height' \in 0 .. u64_MAX /\ needs_resync' \in BOOLEAN
    <3>1. last_seen_height \in 0 .. MaxHead /\ bookHeight \in 0 .. MaxHead /\ max_loss_height \in 0 .. u64_MAX
      BY DEF Types, TypeOK
    <3>2. QED
      <4>1. \/ UNCHANGED <<needs_resync, max_loss_height>>
            \/ /\ needs_resync' = TRUE
               /\ max_loss_height' = Max({max_loss_height, Bound(last_seen_height, bookHeight)})
        BY <1>2 DEF RecvDesync, mark_desynced, Bound
      <4>2. QED
        BY <3>1, <4>1, MarkEffect DEF Flags
  <2>2. Types'
    BY <1>2, <2>1 DEF RecvDesync, Types, TypeOK, u64_MAX
  <2>3. Flags' /\ Held'
    BY <1>2, <2>1 DEF RecvDesync, Flags, Held, NothingCached, is_ready
  <2>4. QED
    BY <2>2, <2>3
<1>3. QED
  BY <1>1, <1>2

\* What a block that is taken does, whichever way it goes.
LEMMA TakeEffect ==
  ASSUME Control, Take
  PROVE  LET h == Min(chan) IN
         /\ h \in chan /\ h \in 1 .. head /\ \A g \in chan : h <= g
         /\ chan' = chan \ {h} /\ unparsed' = unparsed \ {h}
         /\ last_seen_height' \in last_seen_height .. head
         /\ bookHeight' \in bookHeight .. head /\ book' \subseteq 1 .. head
         /\ max_loss_height' \in 0 .. u64_MAX /\ needs_resync' \in BOOLEAN
         /\ \/ Dropped(h) /\ UNCHANGED <<book, bookHeight, needs_resync>>
            \/ /\ ~Dropped(h) /\ book' = book \cup {h} /\ UNCHANGED needs_resync
               /\ bookHeight' = IF bookHeight >= h THEN bookHeight ELSE h
            \/ ~tolerate_drift => needs_resync'
         /\ needs_resync => needs_resync'
         /\ merge_active /\ cache' = cache /\ caching' = caching
         /\ UNCHANGED <<head, persisted, readTo, desyncs, startedAt, install_covers, merge_active,
                        floor, snapshot_fetch_pending, fetchAllowed, task, cut, dumpAt>>
<1> USE ResyncAssumption DEF ResyncAssumption, Control
<1> DEFINE h == Min(chan)
<1>1. h \in chan /\ h \in 1 .. head /\ \A g \in chan : h <= g
  <2>1. chan \in SUBSET Nat /\ chan # {} /\ chan \subseteq 1 .. head
    BY DEF Take, Types, TypeOK
  <2>2. QED
    BY <2>1, MinOfSet
<1>2. merge_active /\ ~caching /\ is_ready
  BY DEF Take, Held
<1>3. /\ chan' = chan \ {h} /\ unparsed' = unparsed \ {h}
      /\ UNCHANGED <<head, persisted, readTo, desyncs, startedAt, install_covers, merge_active,
                     floor, snapshot_fetch_pending, fetchAllowed, task, cut, dumpAt>>
  BY DEF Take, nodeVars, loopVars, taskVars
<1>4. \/ Dropped(h) /\ UNCHANGED <<bookVars, cacheVars, markVars, last_seen_height, losses>>
      \/ ~Dropped(h) /\ apply_event_batch(h)
  BY DEF Take
<1> HIDE DEF h
<1>5. CASE Dropped(h) /\ UNCHANGED <<bookVars, cacheVars, markVars, last_seen_height, losses>>
  BY <1>1, <1>2, <1>3, <1>5 DEF bookVars, cacheVars, markVars, Types, TypeOK, Flags, h
<1>6. CASE ~Dropped(h) /\ apply_event_batch(h)
  <2>1. /\ head \in Nat /\ head <= MaxHead /\ last_seen_height \in 0 .. head /\ bookHeight \in 0 .. head
        /\ book \subseteq 1 .. head /\ max_loss_height \in 0 .. u64_MAX /\ needs_resync \in BOOLEAN
    BY DEF Types, TypeOK, Flags
  <2>2. Max({last_seen_height, h}) = IF last_seen_height >= h THEN last_seen_height ELSE h
    BY <1>1, <2>1, MaxOfTwo
  <2>3. Max({bookHeight, h}) = IF bookHeight >= h THEN bookHeight ELSE h
    BY <1>1, <2>1, MaxOfTwo
  <2>4. last_seen_height' = Max({last_seen_height, h})
    BY <1>6 DEF apply_event_batch
  <2>5. cache' = cache /\ caching' = caching
    BY <1>2, <1>6 DEF apply_event_batch, cache_for_replay, cacheVars
  <2>6. bookHeight' \in {bookHeight, Max({bookHeight, h})}
    BY <1>2, <1>6 DEF apply_event_batch, Apply, bookVars
  <2>7. book' \subseteq book \cup {h}
    BY <1>2, <1>6 DEF apply_event_batch, Apply, bookVars
  <2>8. \/ book' = book \cup {h} /\ bookHeight' = Max({bookHeight, h}) /\ UNCHANGED markVars
        \/ mark_desynced(last_seen_height', bookHeight)
        \/ mark_desynced(last_seen_height', bookHeight')
    <3> USE DEF apply_event_batch
    <3>1. CASE cache_for_replay(h) /\ Apply(h) /\ UNCHANGED <<markVars, losses>>
      BY <1>2, <3>1 DEF Apply, markVars
    <3>2. CASE ~(cache_for_replay(h) /\ Apply(h) /\ UNCHANGED <<markVars, losses>>)
      BY <1>6, <3>2, Zenon
    <3>3. QED
      BY <3>1, <3>2
  <2>9. CASE book' = book \cup {h} /\ bookHeight' = Max({bookHeight, h}) /\ UNCHANGED markVars
    <3>1. UNCHANGED <<needs_resync, max_loss_height>>
      BY <2>9 DEF markVars
    <3>2. /\ last_seen_height' \in last_seen_height .. head
          /\ bookHeight' \in bookHeight .. head /\ book' \subseteq 1 .. head
      <4>1. last_seen_height' \in last_seen_height .. head
        BY <1>1, <2>1, <2>2, <2>4
      <4>2. bookHeight' \in bookHeight .. head
        BY <1>1, <2>1, <2>3, <2>9
      <4>3. book' \subseteq 1 .. head
        BY <1>1, <2>1, <2>9
      <4>4. QED
        BY <4>1, <4>2, <4>3
    <3>3. ~Dropped(h) /\ book' = book \cup {h} /\ bookHeight' = IF bookHeight >= h THEN bookHeight ELSE h
      BY <1>6, <2>3, <2>9
    <3>4. QED
      BY <1>1, <1>2, <1>3, <2>1, <2>5, <3>1, <3>2, <3>3 DEF h
  <2>10. CASE mark_desynced(last_seen_height', bookHeight) \/ mark_desynced(last_seen_height', bookHeight')
    <3>1. /\ last_seen_height' \in 0 .. MaxHead
          /\ bookHeight \in 0 .. MaxHead /\ bookHeight' \in 0 .. MaxHead
      BY <1>1, <2>1, <2>2, <2>3, <2>4, <2>6
    <3>2. \/ tolerate_drift /\ UNCHANGED markVars
          \/ \E b \in 0 .. MaxHead : /\ needs_resync' = TRUE
                                     /\ max_loss_height' = Max({max_loss_height, Bound(last_seen_height', b)})
      BY <2>10, <3>1 DEF mark_desynced, Bound
    <3>3. /\ max_loss_height' \in 0 .. u64_MAX /\ needs_resync' \in BOOLEAN
          /\ ~tolerate_drift => needs_resync'
          /\ needs_resync => needs_resync'
      BY <2>1, <3>1, <3>2, MarkEffect DEF markVars
    <3>4. QED
      BY <1>1, <1>2, <1>3, <2>1, <2>2, <2>3, <2>4, <2>5, <2>6, <2>7, <3>3 DEF h
  <2>11. QED
    BY <2>8, <2>9, <2>10
<1>7. QED
  BY <1>4, <1>5, <1>6 DEF h

\* The merge arm.
LEMMA TakeControl ==
  ASSUME Control, Take
  PROVE  Control'
<1> DEFINE h == Min(chan)
<1>1. /\ h \in chan /\ chan' = chan \ {h} /\ unparsed' = unparsed \ {h}
      /\ last_seen_height' \in last_seen_height .. head
      /\ bookHeight' \in bookHeight .. head /\ book' \subseteq 1 .. head
      /\ max_loss_height' \in 0 .. u64_MAX /\ needs_resync' \in BOOLEAN
      /\ cache' = cache /\ caching' = caching
      /\ UNCHANGED <<head, persisted, readTo, desyncs, startedAt, install_covers, merge_active,
                     floor, snapshot_fetch_pending, fetchAllowed, task, cut, dumpAt>>
  BY TakeEffect
<1> HIDE DEF h
<1>2. Cardinality(chan') <= LIVE_STREAM_LINES
  <2>1. chan \subseteq 1 .. readTo /\ readTo \in Nat /\ Cardinality(chan) <= LIVE_STREAM_LINES
    BY DEF Control, Types, TypeOK
  <2>2. IsFiniteSet(chan)
    <3>1. IsFiniteSet(1 .. readTo)
      BY <2>1, FS_Interval
    <3>2. QED
      BY <2>1, <3>1, FS_Subset
  <2>3. IsFiniteSet(chan') /\ Cardinality(chan') <= Cardinality(chan)
    <3>1. chan' \in SUBSET chan
      BY <1>1
    <3>2. QED
      BY <2>2, <3>1, FS_Subset
  <2>4. QED
    BY <2>1, <2>2, <2>3, FS_CardinalityType, ResyncAssumption DEF ResyncAssumption
<1>3. Types'
  BY <1>1, <1>2 DEF Control, Types, TypeOK
<1>4. Flags'
  BY <1>1 DEF Control, Flags
<1>5. Held'
  <2>1. is_ready => is_ready'
    BY <1>1 DEF Control, Types, TypeOK, is_ready
  <2>2. QED
    BY <1>1, <2>1 DEF Control, Held, NothingCached
<1>6. QED
  BY <1>3, <1>4, <1>5 DEF Control

\* A step, or none, keeps the control.
LEMMA StepControl == Control /\ [Next]_vars => Control'
<1> SUFFICES ASSUME Control, [Next]_vars PROVE Control'
  OBVIOUS
<1>1. CASE Next
  BY <1>1, OutsideControl, FetchControl, LoopControl, WatchControl, TakeControl DEF Next
<1>2. CASE UNCHANGED vars
  BY <1>2 DEF vars, nodeVars, watcherVars, bookVars, cacheVars, markVars, loopVars, taskVars,
              countVars, Control, Types, TypeOK, Flags, Held, NothingCached, is_ready
<1>3. QED
  BY <1>1, <1>2

\* The control is as it should be, always.
THEOREM ControlInvariance == Spec => []Control
<1>1. Init => Control
  BY InitControl
<1>2. QED
  BY <1>1, StepControl, PTL DEF Spec

\* The book channel stays within LIVE_STREAM_LINES and no height the listener keeps
\* is above the node's head, whatever is lost and whatever fails.
THEOREM TypesThm == Spec => []TypeOK
<1>1. Control => TypeOK
  BY DEF Control, Types
<1>2. QED
  BY <1>1, ControlInvariance, PTL

\* Nothing is cached in memory while a snapshot is fetched: the streams are held
\* from before the fetch begins until after the book is in (hl_listen_hft,
\* fetch_snapshot).
THEOREM NothingCachedThm == Spec => []NothingCached
<1>1. Control => NothingCached
  BY DEF Control, Held
<1>2. QED
  BY <1>1, ControlInvariance, PTL

-----------------------------------------------------------------------------
(* Holes.                                                                  *)

\* When the book can be trusted to know its holes: the losses are reported (a line
\* that does not parse is not), the persisted state is read with its own height, and
\* the node is no faster than the margin of a mark allows.
Timely ==
  /\ "unparsed" \notin Losses
  /\ WatchReads = {"rmp"} /\ "visor" \notin FetchReads
  /\ FillLag > 0 /\ LOSS_HEIGHT_MARGIN > FillLag + StartLag
  /\ ~tolerate_drift

\* Fills and, before a fetch begins, the watchers' start are not far behind the head.
Timing ==
  /\ head <= last_seen_height + FillLag \/ head <= 1 + FillLag
  /\ task = "spawned" \/ (task = "none" /\ ~is_ready) => head <= startedAt + StartLag

\* A fetch is due or under way: its book is to be completed from the channel.
Fetching == task \in {"spawned", "begun", "cut", "dumped"} \/ (task = "none" /\ ~is_ready)
\* The last block that the dump has, or will have.
DumpHas == IF task = "dumped" THEN dumpAt ELSE persisted
\* The most that finish_install will take as covered, apart from the cut.
WillCover == IF task \in {"begun", "cut", "dumped"} THEN install_covers ELSE startedAt + StartLag

\* A block that the dump lacks is in the channel, or its loss is reported or marked
\* with a bound that the install will not clear.
FetchKnows ==
  Fetching =>
    \A h \in DumpHas + 1 .. readTo :
       \/ h \in chan \/ desyncs
       \/ needs_resync /\ max_loss_height >= h /\ max_loss_height > WillCover

CutOK ==
  /\ task = "cut" => cut <= persisted
  /\ task \in {"dumped", "installed"} => cut <= dumpAt

InstallKnows ==
  task = "installed" =>
    /\ bookHeight = cut /\ book = 1 .. dumpAt
    /\ \A h \in dumpAt + 1 .. readTo : h \in chan \/ desyncs \/ needs_resync

MergeKnows ==
  merge_active =>
    \/ needs_resync \/ desyncs
    \/ 1 .. bookHeight \subseteq book /\ 1 .. readTo \subseteq book \cup chan /\ floor <= bookHeight

\* A book that is being replaced is one that is marked.
HeldIsMarked == is_ready /\ ~merge_active /\ task # "installed" => needs_resync

Marks == unparsed = {} /\ Timing /\ FetchKnows /\ CutOK /\ InstallKnows /\ MergeKnows /\ HeldIsMarked

\* The heights are numbers, and the head is above them.
LEMMA Heights ==
  ASSUME Control
  PROVE  /\ head \in Nat /\ persisted \in Nat /\ readTo \in Nat /\ startedAt \in Nat /\ bookHeight \in Nat
         /\ last_seen_height \in Nat /\ install_covers \in Nat /\ max_loss_height \in Nat
         /\ cut \in Nat /\ dumpAt \in Nat /\ floor \in Nat
         /\ persisted <= head /\ readTo <= head /\ startedAt <= head /\ install_covers <= head
         /\ head <= MaxHead /\ chan \subseteq 1 .. readTo
         /\ MaxHead \in Nat /\ LOSS_HEIGHT_MARGIN \in Nat /\ FillLag \in Nat /\ StartLag \in Nat
BY ResyncAssumption DEF ResyncAssumption, Control, Types, TypeOK, u64_MAX

\* A step of the node, or of the clock, adds nothing that the dump has to have.
LEMMA OutsideMarks ==
  ASSUME Control, Marks, NodeAdvances \/ NodePersists \/ RecvFill \/ BackoffElapses
  PROVE  Marks'
<1> USE Heights DEF Marks
<1>1. /\ UNCHANGED <<readTo, chan, unparsed, desyncs, startedAt, book, bookHeight, needs_resync,
                     max_loss_height, install_covers, merge_active, floor, task, cut, dumpAt>>
      /\ persisted' \in Nat /\ persisted' >= persisted
  BY DEF NodeAdvances, NodePersists, RecvFill, BackoffElapses, nodeVars, watcherVars, bookVars, markVars,
         loopVars, taskVars
<1>2. Timing'
  <2>1. Max({last_seen_height, 1}) = IF last_seen_height >= 1 THEN last_seen_height ELSE 1
    BY MaxOfTwo
  <2>2. CASE NodeAdvances
    BY <2>1, <2>2 DEF NodeAdvances, Timing, bookVars, taskVars, watcherVars, is_ready
  <2>3. CASE RecvFill
    BY <2>3 DEF RecvFill, Timing, bookVars, taskVars, watcherVars, nodeVars, is_ready
  <2>4. CASE NodePersists \/ BackoffElapses
    BY <2>4 DEF NodePersists, BackoffElapses, Timing, bookVars, taskVars, watcherVars, nodeVars, is_ready
  <2>5. QED
    BY <2>2, <2>3, <2>4
<1>3. FetchKnows'
  <2>1. PICK d \in Nat, e \in Nat : d = DumpHas /\ e = DumpHas' /\ e >= d
    BY <1>1 DEF DumpHas
  <2>2. WillCover' = WillCover /\ (Fetching' <=> Fetching)
    BY <1>1 DEF Fetching, WillCover, is_ready
  <2>3. e + 1 .. readTo \subseteq d + 1 .. readTo
    BY <2>1
  <2>4. QED
    BY <1>1, <2>1, <2>2, <2>3, Zenon DEF FetchKnows
<1>4. CutOK'
  BY <1>1 DEF CutOK
<1>5. InstallKnows' /\ MergeKnows' /\ HeldIsMarked'
  BY <1>1 DEF InstallKnows, MergeKnows, HeldIsMarked, is_ready
<1>6. QED
  BY <1>1, <1>2, <1>3, <1>4, <1>5

\* A loss that is received is marked above the head and above what will be covered.
LEMMA DesyncMarks ==
  ASSUME Control, Marks, Timely, RecvDesync
  PROVE  Marks'
<1> USE Heights DEF Marks
<1>1. UNCHANGED <<head, persisted, readTo, chan, unparsed, startedAt, book, bookHeight, install_covers,
                  last_seen_height, merge_active, floor, task, cut, dumpAt>>
  BY DEF RecvDesync, nodeVars, bookVars, loopVars, taskVars
<1>2. /\ needs_resync' = TRUE
      /\ max_loss_height' = Max({max_loss_height, Bound(last_seen_height, bookHeight)})
  BY DEF RecvDesync, mark_desynced, Bound, Timely
<1>3. /\ max_loss_height' >= last_seen_height + LOSS_HEIGHT_MARGIN
      /\ max_loss_height' >= 1 + LOSS_HEIGHT_MARGIN
      /\ max_loss_height' \in Nat
  <2>1. last_seen_height \in 0 .. MaxHead /\ bookHeight \in 0 .. MaxHead /\ max_loss_height \in 0 .. u64_MAX
    BY ResyncAssumption DEF ResyncAssumption, Control, Types, TypeOK
  <2>2. QED
    BY <1>2, <2>1, MarkEffect DEF u64_MAX
<1>4. max_loss_height' > head + StartLag
  BY <1>3 DEF Timing, Timely
<1>5. FetchKnows'
  <2>1. WillCover' = WillCover /\ WillCover \in Nat /\ WillCover <= head + StartLag
    BY <1>1 DEF WillCover
  <2>2. \A h \in DumpHas' + 1 .. readTo' : max_loss_height' >= h
    <3>1. DumpHas' \in Nat
      BY <1>1 DEF DumpHas
    <3>2. QED
      BY <1>1, <1>3, <1>4, <3>1
  <2>3. QED
    BY <1>2, <1>3, <1>4, <2>1, <2>2 DEF FetchKnows
<1>6. Timing' /\ CutOK'
  BY <1>1 DEF Timing, CutOK, is_ready
<1>7. InstallKnows' /\ MergeKnows' /\ HeldIsMarked'
  BY <1>1, <1>2 DEF InstallKnows, MergeKnows, HeldIsMarked, is_ready
<1>8. QED
  BY <1>1, <1>5, <1>6, <1>7

\* A block that is read is in the channel, or its loss is reported.
LEMMA WatchMarks ==
  ASSUME Control, Marks, Timely, WatcherReads
  PROVE  Marks'
<1> USE Heights DEF Marks
<1>1. /\ readTo' = readTo + 1 /\ chan \subseteq chan' /\ unparsed' = {}
      /\ desyncs => desyncs'
      /\ readTo + 1 \in chan' \/ desyncs'
      /\ UNCHANGED <<head, persisted, startedAt, book, bookHeight, needs_resync, max_loss_height,
                     install_covers, last_seen_height, merge_active, floor, task, cut, dumpAt>>
  BY DEF WatcherReads, Timely, MayLose, nodeVars, bookVars, markVars, loopVars, taskVars
<1>2. \A h \in Int : h <= readTo' => h <= readTo \/ h = readTo + 1
  BY <1>1
<1>3. FetchKnows'
  <2>1. /\ DumpHas' = DumpHas /\ DumpHas \in Nat /\ WillCover' = WillCover
        /\ Fetching' <=> Fetching
    BY <1>1 DEF DumpHas, WillCover, Fetching, is_ready
  <2>2. QED
    BY <1>1, <1>2, <2>1 DEF FetchKnows
<1>4. Timing' /\ CutOK' /\ HeldIsMarked'
  BY <1>1 DEF Timing, CutOK, HeldIsMarked, is_ready
<1>5. InstallKnows'
  BY <1>1, <1>2 DEF InstallKnows
<1>6. MergeKnows'
  BY <1>1, <1>2 DEF MergeKnows
<1>7. QED
  BY <1>1, <1>3, <1>4, <1>5, <1>6

\* A block that is taken goes into the book, is there already, or is marked as lost.
LEMMA TakeMarks ==
  ASSUME Control, Marks, Timely, Take
  PROVE  Marks'
<1> USE Heights DEF Marks
<1> DEFINE h == Min(chan)
<1>1. /\ h \in chan /\ h \in 1 .. head /\ \A g \in chan : h <= g
      /\ chan' = chan \ {h} /\ unparsed' = unparsed \ {h}
      /\ last_seen_height' \in last_seen_height .. head /\ bookHeight' \in bookHeight .. head
      /\ \/ Dropped(h) /\ UNCHANGED <<book, bookHeight, needs_resync>>
         \/ /\ ~Dropped(h) /\ book' = book \cup {h} /\ UNCHANGED needs_resync
            /\ bookHeight' = IF bookHeight >= h THEN bookHeight ELSE h
         \/ ~tolerate_drift => needs_resync'
      /\ needs_resync => needs_resync'
      /\ merge_active
      /\ UNCHANGED <<head, persisted, readTo, desyncs, startedAt, install_covers, merge_active,
                     floor, task, cut, dumpAt>>
  BY TakeEffect
<1> HIDE DEF h
<1>2. task = "none" /\ is_ready /\ is_ready'
  BY <1>1 DEF Control, Held, is_ready
<1>3. FetchKnows' /\ InstallKnows' /\ CutOK' /\ HeldIsMarked'
  BY <1>1, <1>2 DEF FetchKnows, Fetching, InstallKnows, CutOK, HeldIsMarked
<1>4. Timing'
  BY <1>1, <1>2 DEF Timing
<1>5. MergeKnows'
  <2> SUFFICES ASSUME ~needs_resync', ~desyncs'
               PROVE  /\ 1 .. bookHeight' \subseteq book' /\ 1 .. readTo' \subseteq book' \cup chan'
                      /\ floor' <= bookHeight'
    BY DEF MergeKnows
  <2>1. 1 .. bookHeight \subseteq book /\ 1 .. readTo \subseteq book \cup chan /\ floor <= bookHeight
    BY <1>1 DEF MergeKnows
  <2>2. CASE Dropped(h) /\ UNCHANGED <<book, bookHeight, needs_resync>>
    <3>1. h \in book
      BY <1>1, <2>1, <2>2 DEF Dropped
    <3>2. QED
      BY <1>1, <2>1, <2>2, <3>1
  <2>3. CASE /\ book' = book \cup {h} /\ UNCHANGED needs_resync
             /\ bookHeight' = IF bookHeight >= h THEN bookHeight ELSE h
    <3>1. ASSUME NEW g \in 1 .. bookHeight' PROVE g \in book'
      <4>1. CASE g \in 1 .. bookHeight
        BY <2>1, <2>3, <4>1
      <4>2. CASE g = h
        BY <2>3, <4>2
      <4>3. CASE g \notin 1 .. bookHeight /\ g # h
        <5>1. g \in 1 .. readTo /\ g < h
          BY <1>1, <2>3, <4>3
        <5>2. g \notin chan
          BY <1>1, <5>1
        <5>3. QED
          BY <2>1, <2>3, <5>1, <5>2
      <4>4. QED
        BY <4>1, <4>2, <4>3
    <3>2. 1 .. readTo' \subseteq book' \cup chan'
      BY <1>1, <2>1, <2>3
    <3>3. floor' <= bookHeight'
      BY <1>1, <2>1, <2>3
    <3>4. QED
      BY <3>1, <3>2, <3>3
  <2>4. QED
    BY <1>1, <2>2, <2>3 DEF Timely
<1>6. QED
  BY <1>1, <1>3, <1>4, <1>5

\* The fetch task's steps up to the dump: the dump has what was persisted, and what
\* is covered is the head when the fetch began.
LEMMA FetchMarks ==
  ASSUME Control, Marks, Timely, FetchBegin \/ FetchReadsHeight \/ FetchDumps \/ FetchFails
  PROVE  Marks'
<1> USE Heights DEF Marks
<1>1. UNCHANGED <<head, persisted, readTo, chan, unparsed, desyncs, book, bookHeight, needs_resync,
                  max_loss_height, last_seen_height, merge_active, floor>>
  BY DEF FetchBegin, FetchReadsHeight, FetchDumps, FetchFails, nodeVars, watcherVars, bookVars, markVars,
         loopVars
<1>2. /\ task \in {"spawned", "begun", "cut", "dumped"}
      /\ task' \in {"begun", "cut", "dumped", "failed"}
      /\ ~merge_active
  BY DEF FetchBegin, FetchReadsHeight, FetchDumps, FetchFails, Control, Held
<1>3. FetchKnows'
  <2>1. CASE FetchBegin
    <3>1. WillCover' <= WillCover /\ WillCover \in Nat /\ WillCover' \in Nat
      BY <2>1 DEF FetchBegin, WillCover, Timing
    <3>2. DumpHas' = DumpHas /\ Fetching
      BY <1>1, <2>1 DEF FetchBegin, DumpHas, Fetching
    <3>3. \A m \in Nat : m > WillCover => m > WillCover'
      BY <3>1
    <3>4. QED
      BY <1>1, <3>2, <3>3 DEF FetchKnows
  <2>2. CASE FetchReadsHeight \/ FetchDumps
    <3>1. WillCover' = WillCover /\ DumpHas' = DumpHas /\ Fetching
      BY <1>1, <2>2 DEF FetchReadsHeight, FetchDumps, WillCover, DumpHas, Fetching
    <3>2. QED
      BY <1>1, <3>1 DEF FetchKnows
  <2>3. CASE FetchFails
    BY <2>3 DEF FetchFails, FetchKnows, Fetching
  <2>4. QED
    BY <2>1, <2>2, <2>3
<1>4. CutOK'
  <2>1. CASE FetchBegin \/ FetchFails
    BY <2>1 DEF FetchBegin, FetchFails, CutOK
  <2>2. CASE FetchReadsHeight
    <3>1. cut' \in {persisted, 0} /\ persisted' = persisted /\ task' = "cut"
      BY <2>2, ResyncAssumption
         DEF FetchReadsHeight, persisted_height, nodeVars, Timely, ResyncAssumption, Reads
    <3>2. QED
      BY <3>1 DEF CutOK
  <2>3. CASE FetchDumps
    BY <2>3 DEF FetchDumps, CutOK
  <2>4. QED
    BY <2>1, <2>2, <2>3
<1>5. Timing'
  BY <1>1, <1>2 DEF Timing
<1>6. InstallKnows' /\ MergeKnows'
  BY <1>1, <1>2 DEF InstallKnows, MergeKnows
<1>7. HeldIsMarked'
  BY <1>1, <1>2 DEF HeldIsMarked, is_ready
<1>8. QED
  BY <1>1, <1>3, <1>4, <1>5, <1>6, <1>7

\* The install clears no mark of a block that the new book will not get.
LEMMA InstallMarks ==
  ASSUME Control, Marks, Timely, finish_install
  PROVE  Marks'
<1> USE Heights DEF Marks
<1>1. /\ task = "dumped" /\ task' = "installed" /\ ~merge_active
      /\ needs_resync' = StillLost(max_loss_height, Covers)
      /\ UNCHANGED <<head, persisted, readTo, chan, unparsed, desyncs, startedAt, last_seen_height,
                     merge_active, floor, cut, dumpAt>>
  BY DEF finish_install, nodeVars, watcherVars, loopVars, Control, Held
<1>2. bookHeight' = cut /\ book' = 1 .. dumpAt
  <2>1. cache = {}
    BY DEF Control, Held, NothingCached
  <2>2. Max({cut}) = cut
    BY MaxOfOne
  <2>3. QED
    BY <2>1, <2>2 DEF finish_install
<1>3. Covers = IF install_covers >= cut THEN install_covers ELSE cut
  BY MaxOfTwo DEF Covers
<1>4. cut <= dumpAt
  BY <1>1 DEF CutOK
<1>5. InstallKnows'
  <2>1. ASSUME NEW h \in dumpAt + 1 .. readTo PROVE h \in chan \/ desyncs \/ needs_resync'
    <3>1. \/ h \in chan \/ desyncs
          \/ max_loss_height >= h /\ max_loss_height > install_covers
      BY <1>1 DEF FetchKnows, Fetching, DumpHas, WillCover
    <3>2. max_loss_height >= h /\ max_loss_height > install_covers => max_loss_height > Covers
      BY <1>3, <1>4
    <3>3. QED
      BY <1>1, <3>1, <3>2 DEF StillLost
  <2>2. QED
    BY <1>1, <1>2, <2>1 DEF InstallKnows
<1>6. Timing' /\ FetchKnows' /\ CutOK' /\ MergeKnows' /\ HeldIsMarked'
  BY <1>1, <1>4 DEF Timing, FetchKnows, Fetching, CutOK, MergeKnows, HeldIsMarked
<1>7. QED
  BY <1>1, <1>5, <1>6

\* The result arm: the merge goes on from a book without holes, or a marked one.
LEMMA ResultMarks ==
  ASSUME Control, Marks, RecvInstalled \/ RecvFailed
  PROVE  Marks'
<1> USE Heights DEF Marks
<1>1. UNCHANGED <<head, persisted, readTo, chan, unparsed, desyncs, startedAt, book, bookHeight,
                  needs_resync, max_loss_height, last_seen_height>>
  BY DEF RecvInstalled, RecvFailed, nodeVars, watcherVars, bookVars, markVars
<1>2. CASE RecvInstalled
  <2>1. /\ task = "installed" /\ task' = "none" /\ is_ready /\ is_ready'
        /\ merge_active' = TRUE /\ floor' = cut
    BY <1>1, <1>2 DEF RecvInstalled, Control, Held, is_ready
  <2>2. bookHeight = cut /\ book = 1 .. dumpAt /\ cut <= dumpAt
    BY <2>1 DEF InstallKnows, CutOK
  <2>3. MergeKnows'
    <3> SUFFICES ASSUME ~needs_resync, ~desyncs
                 PROVE  1 .. bookHeight \subseteq book /\ 1 .. readTo \subseteq book \cup chan
      BY <1>1, <2>1, <2>2 DEF MergeKnows
    <3>1. \A h \in dumpAt + 1 .. readTo : h \in chan
      BY <2>1 DEF InstallKnows
    <3>2. ASSUME NEW h \in 1 .. readTo PROVE h \in book \cup chan
      <4>1. h \in 1 .. dumpAt \/ h \in dumpAt + 1 .. readTo
        OBVIOUS
      <4>2. QED
        BY <2>2, <3>1, <4>1
    <3>3. QED
      BY <2>2, <3>2
  <2>4. QED
    BY <1>1, <2>1, <2>3 DEF Timing, FetchKnows, Fetching, CutOK, InstallKnows, HeldIsMarked
<1>3. CASE RecvFailed
  <2>1. /\ task = "failed" /\ ~merge_active /\ UNCHANGED merge_active
        /\ is_ready' <=> is_ready
        /\ task' = IF is_ready THEN "none" ELSE "exited"
    BY <1>1, <1>3 DEF RecvFailed, Control, Held, is_ready
  <2>2. QED
    BY <1>1, <2>1 DEF Timing, FetchKnows, Fetching, CutOK, InstallKnows, MergeKnows, HeldIsMarked
<1>4. QED
  BY <1>2, <1>3

\* The ticker arm: the watchers of a re-sync start where the dump will end or before.
LEMMA TickerMarks ==
  ASSUME Control, Marks, Timely, Ticker
  PROVE  Marks'
<1> USE Heights DEF Marks
<1>1. /\ task = "none" /\ task' = "spawned"
      /\ UNCHANGED <<head, persisted, book, bookHeight, needs_resync, max_loss_height, install_covers,
                     last_seen_height, cut, dumpAt>>
  BY DEF Ticker, Control, Held, nodeVars, bookVars, markVars
<1>2. CASE is_ready
  <2>1. readTo' = persisted /\ chan' = {} /\ unparsed' = {} /\ startedAt' = head /\ merge_active' = FALSE
    <3>1. persisted_height(WatchReads) = {persisted} /\ persisted > 0
      BY DEF persisted_height, Timely, Control, Types, TypeOK
    <3>2. QED
      BY <1>2, <3>1 DEF Ticker, StartWatchers, HoldStreams
  <2>2. needs_resync
    BY <1>2 DEF Ticker, fetch_due
  <2>3. FetchKnows'
    <3>1. DumpHas' = persisted
      BY <1>1 DEF DumpHas
    <3>2. \A h \in DumpHas' + 1 .. readTo' : FALSE
      BY <2>1, <3>1
    <3>3. QED
      BY <3>2 DEF FetchKnows
  <2>4. Timing'
    BY <1>1, <2>1 DEF Timing
  <2>5. CutOK' /\ InstallKnows' /\ MergeKnows' /\ HeldIsMarked'
    BY <1>1, <2>1, <2>2 DEF CutOK, InstallKnows, MergeKnows, HeldIsMarked
  <2>6. QED
    BY <2>1, <2>3, <2>4, <2>5
<1>3. CASE ~is_ready
  <2>1. ~merge_active /\ UNCHANGED <<readTo, chan, unparsed, desyncs, startedAt, merge_active, floor>>
    BY <1>3 DEF Ticker, watcherVars, Control, Held
  <2>2. DumpHas' = DumpHas /\ WillCover' = WillCover /\ Fetching
    BY <1>1, <1>3, <2>1 DEF DumpHas, WillCover, Fetching
  <2>3. FetchKnows'
    BY <1>1, <2>1, <2>2 DEF FetchKnows
  <2>4. QED
    BY <1>1, <1>3, <2>1, <2>3 DEF Timing, CutOK, InstallKnows, MergeKnows, HeldIsMarked, is_ready
<1>4. QED
  BY <1>2, <1>3

\* The listener starts before it has read anything.
LEMMA InitMarks == ASSUME Init, Timely PROVE Marks
<1> USE ResyncAssumption DEF ResyncAssumption, Init
<1>1. readTo = 1
  BY DEF persisted_height, Timely
<1>2. Timing
  BY DEF Timing, Timely
<1>3. DumpHas = 1
  BY DEF DumpHas
<1>4. FetchKnows
  BY <1>1, <1>3 DEF FetchKnows
<1>5. CutOK /\ InstallKnows /\ MergeKnows /\ HeldIsMarked
  BY DEF CutOK, InstallKnows, MergeKnows, HeldIsMarked, is_ready
<1>6. QED
  BY <1>2, <1>4, <1>5 DEF Marks

\* A book that lacks a block at or below its height is marked for a re-sync, or the
\* report of the loss is on its way, for any number of losses and failed fetches
\* (mark_desynced, finish_install).
THEOREM LossIsMarkedThm == Timely /\ Spec => []LossIsMarked
<1>1. Control /\ Marks => LossIsMarked
  <2> SUFFICES ASSUME Control, Marks, ~needs_resync, ~desyncs
               PROVE  Missing = {}
    BY DEF LossIsMarked
  <2> USE Heights DEF Marks
  <2>1. CASE bookHeight = 0
    BY <2>1 DEF Missing
  <2>2. CASE is_ready /\ merge_active
    BY <2>2 DEF MergeKnows, Missing
  <2>3. CASE is_ready /\ ~merge_active
    <3>1. task = "installed"
      BY <2>3 DEF HeldIsMarked
    <3>2. bookHeight = cut /\ book = 1 .. dumpAt /\ cut <= dumpAt
      BY <3>1 DEF InstallKnows, CutOK
    <3>3. QED
      BY <3>2 DEF Missing
  <2>4. QED
    BY <2>1, <2>2, <2>3 DEF is_ready
<1>2. ASSUME Timely PROVE Init => Control /\ Marks
  BY <1>2, InitControl, InitMarks
<1>3. ASSUME Timely PROVE Control /\ Marks /\ [Next]_vars => (Control /\ Marks)'
  <2> SUFFICES ASSUME Control, Marks, [Next]_vars PROVE Control' /\ Marks'
    OBVIOUS
  <2>1. CASE Next
    BY <1>3, <2>1, StepControl, OutsideMarks, DesyncMarks, WatchMarks, TakeMarks, FetchMarks, InstallMarks,
       ResultMarks, TickerMarks DEF Next
  <2>2. CASE UNCHANGED vars
    BY <2>2, StepControl
       DEF vars, nodeVars, watcherVars, bookVars, cacheVars, markVars, loopVars, taskVars, Marks, Timing,
           FetchKnows, Fetching, DumpHas, WillCover, CutOK, InstallKnows, MergeKnows, HeldIsMarked, is_ready
  <2>3. QED
    BY <2>1, <2>2
<1>4. QED
  <2>1. CASE Timely
    BY <1>1, <1>2, <1>3, <2>1, PTL DEF Spec
  <2>2. CASE ~Timely
    BY <2>2
  <2>3. QED
    BY <2>1, <2>2
=============================================================================
