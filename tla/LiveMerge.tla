----------------------------- MODULE LiveMerge -----------------------------
(***************************************************************************)
(* listeners/order_book/mod.rs: LiveMerge, with the two reader threads     *)
(* that feed it (parallel.rs: spawn_file_watcher).  A reader sends the     *)
(* lines of the status file (stream 0) or of the diff file (stream 1) into *)
(* its bounded channel: first its backfill, then, once both backfills are  *)
(* done, the live lines.  The listener holds both channels until there is  *)
(* a snapshot to apply them to, and then takes from whichever has the      *)
(* lower block at its head.  A stream whose head waits on the other is     *)
(* held past MERGE_LOOKAHEAD_BLOCKS, until the other is declared dead.  A  *)
(* re-sync replaces both readers and both channels.                        *)
(*                                                                         *)
(* take() runs to its await points without interruption but the readers    *)
(* send at any time: pc is where it stands.  The listener's select drops   *)
(* the call while it waits (a flush tick, a fill) and starts it again.     *)
(* Time is counted in ticks, DEAD_WAIT of which are MERGE_DEAD_WAIT.       *)
(***************************************************************************)
EXTENDS Integers, Sequences, FiniteSets

CONSTANTS
  MaxHeight,               \* bound: block heights
  Files,                   \* the pairs of files considered
  LIVE_STREAM_LINES,       \* capacity of a channel
  MERGE_LOOKAHEAD_BLOCKS,
  MERGE_TAKE,              \* batches handed out at once
  DEAD_WAIT                \* ticks of silence after which a stream is dead

Stream == {0, 1}
Height == 1..MaxHeight
Line == [h : Height, ok : BOOLEAN]   \* ok: it parses

ASSUME MergeAssumption ==
  /\ MaxHeight \in Nat
  /\ Files \subseteq [Stream -> Seq(Line)]
  /\ \A f \in Files, i \in Stream : \A k \in DOMAIN f[i] : \A j \in 1..(k - 1) : f[i][j].h < f[i][k].h
  /\ LIVE_STREAM_LINES \in Nat \ {0}
  /\ MERGE_LOOKAHEAD_BLOCKS \in Nat
  /\ MERGE_TAKE \in Nat \ {0}
  /\ DEAD_WAIT \in Nat \ {0}

Batch == [h : Height, stream : Stream, unheld : BOOLEAN]
NoLine == [h |-> 0, ok |-> FALSE]
NotWaiting == DEAD_WAIT + 1

VARIABLES
  file,     \* Stream -> the lines above the height the readers start at
  sent,     \* Stream -> how many of them its reader has sent
  cut,      \* Stream -> how many of them were on disk when its backfill began
  phase,    \* Stream -> where its reader stands
  backfills_done, \* the barrier: readers that have finished their backfill
  old,      \* Stream -> where the reader replaced by a re-sync stands, "none" without
  old_done, \* their barrier
  merge_active, \* a snapshot is installed: the channels are taken from
  quiet,    \* Stream -> ticks since its reader last sent (history)
  rx,       \* Stream -> channel
  floor,    \* height of the installed snapshot
  peek,     \* Stream -> the line read ahead, NoLine when none
  seen,     \* Stream -> highest height taken
  dead,     \* Stream -> declared dead
  waiting_since, \* ticks since the wait on the other stream began, or NotWaiting
  ready,    \* batches taken, not yet handed out
  pc,       \* where take() stands
  delivered \* batches handed out (history)

oldVars == <<old, old_done>>
watchVars == <<file, cut, phase, backfills_done, oldVars, merge_active>>
readerVars == <<watchVars, sent, quiet>>
vars == <<readerVars, rx, floor, peek, seen, dead, waiting_since, ready, pc, delivered>>

Has(i) == peek[i] # NoLine

-----------------------------------------------------------------------------
(* The reader threads: blocking_send into the stream's own channel.        *)

mergeVars == <<floor, peek, seen, dead, waiting_since, ready, pc, delivered>>

HasRoom(i) == Len(rx[i]) < LIVE_STREAM_LINES

Send(i) ==
  /\ \/ phase[i] = "backfill" /\ sent[i] < cut[i]
     \/ phase[i] = "live" /\ sent[i] < Len(file[i])
  /\ HasRoom(i)
  /\ rx' = [rx EXCEPT ![i] = Append(@, file[i][sent[i] + 1])]
  /\ sent' = [sent EXCEPT ![i] = @ + 1]
  /\ quiet' = [quiet EXCEPT ![i] = 0]
  /\ UNCHANGED <<watchVars, mergeVars>>

\* The backfill ends; what the node writes from here on is live.
BackfillDone(i) ==
  /\ phase[i] = "backfill"
  /\ sent[i] = cut[i]
  /\ phase' = [phase EXCEPT ![i] = "barrier"]
  /\ backfills_done' = backfills_done + 1
  /\ UNCHANGED <<file, cut, oldVars, merge_active, sent, quiet, rx, mergeVars>>

\* Mutated: a reader asks for more arrivals than there are readers.
BarrierForThree(n) == n > 2

BarrierOpen(n) == n >= 2

GoLive(i) ==
  /\ phase[i] = "barrier"
  /\ BarrierOpen(backfills_done)
  /\ phase' = [phase EXCEPT ![i] = "live"]
  /\ UNCHANGED <<file, cut, backfills_done, oldVars, merge_active, sent, quiet, rx, mergeVars>>

\* A replaced reader finds its channel dropped at its next send: a line, or the
\* BackfillDone that ends its backfill.
OldExits(i) ==
  /\ old[i] \in {"backfill", "live"}
  /\ old' = [old EXCEPT ![i] = "exited"]
  /\ UNCHANGED <<file, cut, phase, backfills_done, old_done, merge_active, sent, quiet,
                 rx, mergeVars>>

OldGoesLive(i) ==
  /\ old[i] = "barrier"
  /\ BarrierOpen(old_done)
  /\ old' = [old EXCEPT ![i] = "live"]
  /\ UNCHANGED <<file, cut, phase, backfills_done, old_done, merge_active, sent, quiet,
                 rx, mergeVars>>

-----------------------------------------------------------------------------
(* accept: a line of stream i has been received.                           *)

\* mutant: a line does not end the wait.
AcceptKeepsWaiting(i) ==
  LET line == Head(rx[i]) IN
  /\ rx' = [rx EXCEPT ![i] = Tail(@)]
  /\ dead' = [dead EXCEPT ![i] = FALSE]
  /\ UNCHANGED waiting_since
  /\ peek' = IF line.ok /\ line.h > floor THEN [peek EXCEPT ![i] = line] ELSE peek

accept(i) ==
  LET line == Head(rx[i]) IN
  /\ rx' = [rx EXCEPT ![i] = Tail(@)]
  /\ dead' = [dead EXCEPT ![i] = FALSE]
  /\ waiting_since' = NotWaiting
  /\ peek' = IF line.ok /\ line.h > floor THEN [peek EXCEPT ![i] = line] ELSE peek

\* refill(i): read ahead until a batch is peeked or the channel is empty.
RefillDone(i) == Has(i) \/ rx[i] = <<>>

Refill(i) ==
  /\ merge_active
  /\ pc = <<"refill", i>>
  /\ \/ /\ ~RefillDone(i)
        /\ accept(i)
        /\ UNCHANGED pc
     \/ /\ RefillDone(i)
        /\ pc' = IF i = 0 THEN <<"refill", 1>> ELSE <<"pick">>
        /\ UNCHANGED <<rx, peek, dead, waiting_since>>
  /\ UNCHANGED <<readerVars, floor, seen, ready, delivered>>

-----------------------------------------------------------------------------
(* pick: which stream may be applied next.                                 *)

\* May stream i's head go although stream o has none?
UnheldOnce(i, o) == seen[o] = 0 \/ dead[o]
LoneMayGoUnbounded(i, o) == TRUE   \* mutant: a lone stream is never held
LoneMayGo(i, o) == UnheldOnce(i, o) \/ peek[i].h <= seen[o] + MERGE_LOOKAHEAD_BLOCKS

Pickable(i) ==
  /\ Has(i)
  /\ IF Has(1 - i)
       THEN IF i = 0 THEN peek[0].h <= peek[1].h ELSE peek[1].h < peek[0].h
       ELSE LoneMayGo(i, 1 - i)

\* take: the picked batch joins the ready ones; `unheld` records that the other
\* stream was dead or had not been heard of.
Pick(i) ==
  /\ pc = <<"pick">>
  /\ Pickable(i)
  /\ ready' = Append(ready, [h |-> peek[i].h, stream |-> i,
                             unheld |-> ~Has(1 - i) /\ UnheldOnce(i, 1 - i)])
  /\ peek' = [peek EXCEPT ![i] = NoLine]
  /\ seen' = [seen EXCEPT ![i] = IF @ > peek[i].h THEN @ ELSE peek[i].h]
  /\ pc' = IF Len(ready) + 1 >= MERGE_TAKE THEN <<"return">> ELSE <<"refill", 0>>
  /\ UNCHANGED <<readerVars, rx, floor, dead, waiting_since, delivered>>

\* The stream a lone head waits on.
WaitsOn(o) == Has(1 - o) /\ ~Has(o)

\* Nothing may go: hand out what there is, or wait.  The clock of a wait on the
\* other stream starts when it first begins.
PickNone ==
  /\ pc = <<"pick">>
  /\ \A i \in Stream : ~Pickable(i)
  /\ \/ /\ ready # <<>>
        /\ pc' = <<"return">>
        /\ UNCHANGED waiting_since
     \/ /\ ready = <<>>
        /\ pc' = <<"wait">>
        /\ waiting_since' = IF waiting_since = NotWaiting /\ \E o \in Stream : WaitsOn(o)
                            THEN 0 ELSE waiting_since
  /\ UNCHANGED <<readerVars, rx, floor, peek, seen, dead, ready, delivered>>

\* take hands out what is ready; the listener applies it and calls again.
Return ==
  /\ pc = <<"return">>
  /\ delivered' = delivered \o ready
  /\ ready' = <<>>
  /\ pc' = <<"refill", 0>>
  /\ UNCHANGED <<readerVars, rx, floor, peek, seen, dead, waiting_since>>

-----------------------------------------------------------------------------
(* wait: nothing can be applied.                                           *)

WakeOnLine(o) ==
  /\ pc = <<"wait">>
  /\ WaitsOn(o) \/ (~Has(0) /\ ~Has(1))
  /\ rx[o] # <<>>
  /\ accept(o)
  /\ pc' = <<"refill", 0>>
  /\ UNCHANGED <<readerVars, floor, seen, ready, delivered>>

WakeDead(o) ==
  /\ pc = <<"wait">>
  /\ WaitsOn(o)
  /\ waiting_since = DEAD_WAIT
  /\ dead' = [dead EXCEPT ![o] = TRUE]
  /\ waiting_since' = NotWaiting
  /\ pc' = <<"refill", 0>>
  /\ UNCHANGED <<readerVars, rx, floor, peek, seen, ready, delivered>>

\* The select drops the waiting call for another arm and comes back to take.  A
\* deadline that has passed is seen before it can be dropped.
CancelRestartsClock ==   \* mutant: the clock starts anew with each call
  /\ pc = <<"wait">>
  /\ waiting_since # DEAD_WAIT
  /\ waiting_since' = NotWaiting
  /\ pc' = <<"refill", 0>>
  /\ UNCHANGED <<readerVars, rx, floor, peek, seen, dead, ready, delivered>>

CancelDropsPeek ==   \* mutant: what was read ahead is dropped with the call
  /\ pc = <<"wait">>
  /\ waiting_since # DEAD_WAIT
  /\ peek' = [i \in Stream |-> NoLine]
  /\ pc' = <<"refill", 0>>
  /\ UNCHANGED <<readerVars, rx, floor, seen, dead, waiting_since, ready, delivered>>

Cancel ==
  /\ pc = <<"wait">>
  /\ waiting_since # DEAD_WAIT
  /\ pc' = <<"refill", 0>>
  /\ UNCHANGED <<readerVars, rx, floor, peek, seen, dead, waiting_since, ready, delivered>>

-----------------------------------------------------------------------------
(* The snapshot: the streams are held for it, and start over for a new one. *)

Install ==
  /\ ~merge_active
  /\ merge_active' = TRUE
  /\ UNCHANGED <<file, cut, phase, backfills_done, oldVars, sent, quiet, rx, mergeVars>>

\* Fresh readers and a fresh merge, nothing of the old ones kept.
NewMerge ==
  /\ rx' = [i \in Stream |-> <<>>]
  /\ peek' = [i \in Stream |-> NoLine]
  /\ seen' = [i \in Stream |-> 0]
  /\ dead' = [i \in Stream |-> FALSE]
  /\ waiting_since' = NotWaiting
  /\ ready' = <<>>
  /\ pc' = <<"refill", 0>>
  /\ delivered' = <<>>

StartReaders ==
  /\ sent' = [i \in Stream |-> 0]
  /\ quiet' = [i \in Stream |-> 0]
  /\ cut' = [i \in Stream |-> Len(file[i])]
  /\ phase' = [i \in Stream |-> "backfill"]
  /\ backfills_done' = 0

\* A re-sync, once, when the files are complete: the ticker runs while take() waits.
Restart ==
  /\ merge_active
  /\ pc = <<"wait">> /\ waiting_since # DEAD_WAIT
  /\ \A i \in Stream : old[i] = "none"
  /\ old' = phase
  /\ old_done' = backfills_done
  /\ StartReaders
  /\ NewMerge
  /\ merge_active' = FALSE
  /\ floor' \in floor .. 1
  /\ UNCHANGED file

Tick ==
  /\ waiting_since < DEAD_WAIT
  /\ waiting_since' = waiting_since + 1
  /\ quiet' = [i \in Stream |-> IF quiet[i] < DEAD_WAIT THEN quiet[i] + 1 ELSE quiet[i]]
  /\ UNCHANGED <<watchVars, sent, rx, floor, peek, seen, dead, ready, pc, delivered>>

-----------------------------------------------------------------------------
\* Two files of rising heights, any part of each on disk, and any snapshot height
\* (floor, which is read once the snapshot is installed).
Init ==
  /\ file \in Files
  /\ cut \in {c \in [Stream -> 0..MaxHeight] : \A i \in Stream : c[i] <= Len(file[i])}
  /\ phase = [i \in Stream |-> "backfill"]
  /\ backfills_done = 0
  /\ old = [i \in Stream |-> "none"]
  /\ old_done = 0
  /\ merge_active = FALSE
  /\ floor \in 0..1
  /\ sent = [i \in Stream |-> 0]
  /\ quiet = [i \in Stream |-> 0]
  /\ rx = [i \in Stream |-> <<>>]
  /\ peek = [i \in Stream |-> NoLine]
  /\ seen = [i \in Stream |-> 0]
  /\ dead = [i \in Stream |-> FALSE]
  /\ waiting_since = NotWaiting
  /\ ready = <<>>
  /\ pc = <<"refill", 0>>
  /\ delivered = <<>>

Take == \/ \E i \in Stream : Refill(i) \/ Pick(i)
        \/ PickNone
        \/ Return

Wake == \E o \in Stream : WakeOnLine(o) \/ WakeDead(o)

Read(i) == Send(i) \/ BackfillDone(i) \/ GoLive(i)

Old(i) == OldExits(i) \/ OldGoesLive(i)

Next ==
  \/ \E i \in Stream : Read(i) \/ Old(i)
  \/ Take
  \/ Wake
  \/ Cancel
  \/ Install
  \/ Restart
  \/ Tick

\* The threads run, the listener's loop keeps calling take, a snapshot is installed
\* in the end (Resync) and time passes.  Cancel and Restart are never owed.  A node
\* that falls silent is a file that ends.
Spec ==
  /\ Init
  /\ [][Next]_vars
  /\ WF_vars(Take)
  /\ WF_vars(Wake)
  /\ WF_vars(Install)
  /\ WF_vars(Tick)
  /\ \A i \in Stream : WF_vars(Read(i)) /\ WF_vars(Old(i))

-----------------------------------------------------------------------------
(* Properties.                                                             *)

\* Types and bounds: a channel never holds more than LIVE_STREAM_LINES, a call of take
\* never hands out more than MERGE_TAKE.
TypeOK ==
  /\ file \in [Stream -> Seq(Line)]
  /\ \A i \in Stream : sent[i] \in 0..Len(file[i])
  /\ quiet \in [Stream -> 0..DEAD_WAIT]
  /\ \A i \in Stream : cut[i] \in 0..Len(file[i])
  /\ phase \in [Stream -> {"backfill", "barrier", "live"}]
  /\ backfills_done = Cardinality({i \in Stream : phase[i] # "backfill"})
  /\ old \in [Stream -> {"none", "backfill", "barrier", "live", "exited"}]
  /\ old_done \in 0..2 /\ merge_active \in BOOLEAN
  /\ rx \in [Stream -> Seq(Line)]
  /\ \A i \in Stream : Len(rx[i]) <= LIVE_STREAM_LINES
  /\ floor \in Nat
  /\ peek \in [Stream -> Line \cup {NoLine}]
  /\ seen \in [Stream -> 0..MaxHeight]
  /\ dead \in [Stream -> BOOLEAN]
  /\ waiting_since \in 0..NotWaiting
  /\ ready \in Seq(Batch)
  /\ Len(ready) <= MERGE_TAKE
  /\ pc \in {<<"refill", 0>>, <<"refill", 1>>, <<"pick">>, <<"return">>, <<"wait">>}
  /\ delivered \in Seq(Batch)

Out == delivered \o ready

\* How many lines of stream i the listener has received, and the heights among the
\* first n that must reach the book.
Received(i) == sent[i] - Len(rx[i])
Due(i, n) == {file[i][k].h : k \in {k \in 1..n : file[i][k].ok /\ file[i][k].h > floor}}

\* The heights of stream i among batches, and the one read ahead.
Heights(batches, i) == {batches[k].h : k \in {k \in DOMAIN batches : batches[k].stream = i}}
Ahead(i) == IF Has(i) THEN {peek[i].h} ELSE {}

\* The batches of a stream rise.
Rising(batches) ==
  \A k \in DOMAIN batches : \A j \in 1..(k - 1) :
     batches[j].stream = batches[k].stream => batches[j].h < batches[k].h

\* Nothing is lost or doubled between a reader and the book, whatever was
\* cancelled when: the channel holds what was sent and not received, in order; what was
\* received and must reach the book was handed out, once and in order, but for
\* a last batch that is read ahead.  (take: "Cancel-safe")
Conserved ==
  /\ Rising(Out)
  /\ \A i \in Stream :
       /\ Len(rx[i]) <= sent[i]
       /\ \A k \in DOMAIN rx[i] : rx[i][k] = file[i][Received(i) + k]
       /\ Heights(Out, i) \cup Ahead(i) = Due(i, Received(i))
       /\ Has(i) => \A h \in Heights(Out, i) : h < peek[i].h

\* Block order: a batch goes before one of the other stream that belongs before
\* it only by less than the lookahead, unless that stream was dead or had not
\* been heard of.
BelongsBefore(a, b) == a.h < b.h \/ (a.h = b.h /\ a.stream < b.stream)

BoundedSkew ==
  \A k \in DOMAIN Out : \A j \in 1..(k - 1) :
     Out[j].stream # Out[k].stream /\ BelongsBefore(Out[k], Out[j])
       => Out[j].unheld \/ Out[j].h < Out[k].h + MERGE_LOOKAHEAD_BLOCKS

\* A stream is declared dead only after DEAD_WAIT without a line from it: a slow
\* reader that still delivers never looks dead.
DeadIsSilent ==
  [][\A i \in Stream : ~dead[i] /\ dead'[i] /\ rx[i] = <<>> => quiet[i] = DEAD_WAIT]_vars

\* Both streams reach the book to their last line: although the channels fill while
\* they are held for the snapshot, although a reader at the barrier sends nothing
\* while the other's head waits on it, and even if one file ends for good and every
\* wait is cut short.
AllDelivered ==
  <>[](\A i \in Stream : Heights(delivered, i) = Due(i, Len(file[i])))

\* The readers a re-sync replaces exit, except one that is left at the barrier by a
\* partner that was replaced in its backfill and exits without arriving.
ReplacedExit ==
  <>[](\A i \in Stream :
         \/ old[i] \in {"none", "exited"}
         \/ old[i] = "barrier" /\ old[1 - i] = "exited" /\ old_done < 2)
=============================================================================
