------------------------------ MODULE FileTail ------------------------------
(***************************************************************************)
(* One watcher thread of the streaming files                               *)
(* (listeners/order_book/parallel.rs): the start-up backfill, the tailing  *)
(* of the hour file the node is appending to, and the switch to the next   *)
(* hour file, while the node goes on writing between any two of its reads. *)
(*                                                                         *)
(* A file is a sequence of units, a unit standing for some bytes of one    *)
(* line: a "head", perhaps a "mid", and a "tail", which ends in the        *)
(* newline.  A line is known by the height of its block and has a kind:    *)
(* "good", "long" (well formed, too long for partial_line when read in     *)
(* pieces), or "torn" (terminated, but not of the shape {...}).            *)
(***************************************************************************)
EXTENDS Integers, FiniteSets, Sequences, SequencesExt

CONSTANTS
    MaxFiles,            \* bound: hour files the node creates
    MaxLines,            \* bound: lines the node writes, all files together
    OnDisk,              \* lines complete in the first file before the start
    Kinds,               \* the kinds of line the node writes
    DayOf,               \* the day directory each hour file is created in
    Floors,              \* the heights backfill_min_height may have; 0: no backfill
    CHUNK,               \* READ_CHUNK_BYTES, in units
    MAX_PARTIAL,         \* MAX_PARTIAL_LINE_BYTES, in units
    MAX_BACKFILL_FILES,
    QuietStart           \* no hour begins before the reader is tailing live

ASSUME FileTailAssumption ==
    /\ {MaxFiles, CHUNK, MAX_BACKFILL_FILES} \subseteq Nat \ {0}
    /\ {MaxLines, OnDisk, MAX_PARTIAL} \subseteq Nat
    /\ Floors \subseteq Nat
    /\ OnDisk <= MaxLines
    /\ Kinds \subseteq {"good", "long", "torn"}
    /\ DayOf \in [1 .. MaxFiles -> Nat]
    /\ \A f \in 1 .. MaxFiles - 1 : DayOf[f] <= DayOf[f + 1]
    /\ QuietStart \in BOOLEAN

VARIABLES
    \* the node, external
    disk,           \* the content of each hour file
    mtimes,         \* the existing files, by time of last write, newest last
    lines,          \* the kinds of the lines begun so far
    late,           \* the node may still append to the file before the newest
    \* the watcher thread: FileReader, the notification queue, its program point
    current_path,   \* 0: None
    file_position, partial_line, desynced,
    rotated_from,   \* [file, mark], file 0: None
    graceUp,        \* ROTATION_GRACE has passed since the switch
    queue,          \* notifications not yet received; a modification is a mere poll
                    \* once a file is tracked, and is queued only before that
    due,            \* the loop has come round to check_for_newer_file
    pc,
    min_height,     \* the argument backfill_min_height
    target,         \* on_create's argument
    included, recorded_len, \* backfill_and_track's locals
    \* history
    sent,           \* lines handed to the listener
    flagged,        \* a Desync has been sent
    before          \* lines already in the file when start_tracking chose its end

nodeVars   == <<disk, mtimes, lines, late>>
readerVars == <<current_path, file_position, partial_line>>
flagVars   == <<desynced, flagged>>
scanVars   == <<min_height, included, recorded_len>>
vars == <<nodeVars, readerVars, flagVars, rotated_from, graceUp, queue, due, pc,
          target, scanVars, sent, before>>

Files == 1 .. MaxFiles
none  == [file |-> 0, mark |-> 0]
Unit(h, at) == [h |-> h, at |-> at]
Units == [h : 1 .. MaxLines, at : {"head", "mid", "tail"}]

newestFile == Len(mtimes)  \* files are created in order and never removed

(***************************************************************************)
(* The lines of a stretch of bytes.                                        *)
(***************************************************************************)

Tails(buf) == {i \in DOMAIN buf : buf[i].at = "tail"}
LastTail(buf) == IF Tails(buf) = {} THEN 0 ELSE Max(Tails(buf))

\* A terminated segment is a line of the stream only if it starts where the
\* line starts and the line itself has the right shape.
Segment(buf, t) == SubSeq(buf, LastTail(SubSeq(buf, 1, t - 1)) + 1, t)
Shaped(seg) == seg[1].at = "head" /\ lines[seg[1].h] # "torn"

LinesOf(buf) == {buf[t].h : t \in {t \in Tails(buf) : Shaped(Segment(buf, t))}}
Malformed(buf) == \E t \in Tails(buf) : ~Shaped(Segment(buf, t))
Unterminated(buf) == SubSeq(buf, LastTail(buf) + 1, Len(buf))

(***************************************************************************)
(* The node.                                                               *)
(***************************************************************************)

Touched(f) == Append(RemoveAt(mtimes, CHOOSE i \in DOMAIN mtimes : mtimes[i] = f), f)
Notify(kind, f) ==
    LET e == [kind |-> kind, file |-> f]
    IN  IF pc = "watch" \/ (queue # <<>> /\ Last(queue) = e) THEN queue
        ELSE Append(queue, e)
Unfinished(f) == disk[f] # <<>> /\ Last(disk[f]).at # "tail"

\* The next unit of the line under way in f.
Continue(f) ==
    /\ Unfinished(f)
    /\ LET u == Last(disk[f])
           at == IF lines[u.h] = "long" /\ u.at = "head" THEN "mid" ELSE "tail"
       IN  disk' = [disk EXCEPT ![f] = Append(@, Unit(u.h, at))]
    /\ UNCHANGED lines

Begin(f) ==
    /\ ~Unfinished(f)
    /\ Len(lines) < MaxLines
    /\ \E k \in Kinds : lines' = Append(lines, k)
    /\ disk' = [disk EXCEPT ![f] = Append(@, Unit(Len(lines) + 1, "head"))]

\* An append to the newest hour file, or a straggling one to the file before it:
\* the last blocks of the hour, so none of them begins once the new hour has.
NodeWrite ==
    /\ \E f \in {newestFile, newestFile - 1} \cap Files :
         /\ f # newestFile => late
         /\ Continue(f) \/ ((disk[newestFile] = <<>> \/ f = newestFile) /\ Begin(f))
         /\ mtimes' = Touched(f)
         /\ queue' = IF current_path = 0 THEN Notify("modify", f) ELSE queue
    /\ UNCHANGED <<late, readerVars, flagVars, rotated_from, graceUp, due, pc,
                   target, scanVars, sent, before>>

\* The node never stops: once the bound is reached, its further appends to the
\* newest file show only in the time of last write.
NodeWritesOn ==
    /\ Len(lines) = MaxLines
    /\ newestFile > 0
    /\ ~Unfinished(newestFile)
    /\ ~late
    /\ mtimes' = Touched(newestFile)
    /\ UNCHANGED <<disk, lines, late, readerVars, flagVars, rotated_from, graceUp,
                   queue, due, pc, target, scanVars, sent, before>>

NodeFinishesOldFile ==
    /\ late
    /\ ~Unfinished(newestFile - 1)
    /\ late' = FALSE
    /\ UNCHANGED <<disk, mtimes, lines, readerVars, flagVars, rotated_from, graceUp,
                   queue, due, pc, target, scanVars, sent, before>>

\* An hour is far longer than a backfill, ROTATION_GRACE or the ten seconds
\* between two looks for a newer file.
HourPassed ==
    /\ ~late
    /\ \A e \in Range(queue) : e.kind # "create"
    /\ rotated_from = none
    /\ newestFile > 1 => pc \in {"poll", "checks"} /\ current_path = newestFile
    /\ QuietStart => /\ pc \in {"poll", "checks"}
                     /\ newestFile > 0 => current_path # 0

\* The creation of a file in a day directory that is itself new can come before
\* the recursive watch has reached that directory: it is then not notified.
NodeRotate ==
    /\ newestFile < MaxFiles
    /\ HourPassed
    /\ mtimes' = Append(mtimes, newestFile + 1)
    /\ late' = (newestFile > 0)
    /\ LET f == newestFile + 1
           newDir == f = 1 \/ DayOf[f] # DayOf[f - 1]
       IN  \/ queue' = Notify("create", f)
           \/ newDir /\ UNCHANGED queue
    /\ UNCHANGED <<disk, lines, readerVars, flagVars, rotated_from, graceUp, due, pc,
                   target, scanVars, sent, before>>

GraceElapses ==
    /\ rotated_from # none
    /\ ~graceUp
    /\ rotated_from.file = newestFile - 1 => ~late
    /\ graceUp' = TRUE
    /\ UNCHANGED <<nodeVars, readerVars, flagVars, rotated_from, queue, due, pc,
                   target, scanVars, sent, before>>

(***************************************************************************)
(* backfill_and_track.                                                     *)
(***************************************************************************)

\* One day directory's files, the last written first.
OfDay(d) ==
    LET among[i \in 0 .. Len(mtimes)] ==   \* of the i written longest ago
          IF i = 0 THEN <<>>
          ELSE (IF DayOf[mtimes[i]] = d THEN <<mtimes[i]>> ELSE <<>>) \o among[i - 1]
    IN  among[Len(mtimes)]

\* Newest first: the two latest day directories, each by time of last write.
all_files_newest_first ==
    LET days == {DayOf[f] : f \in Range(mtimes)}
    IN  IF days = {} THEN <<>>
        ELSE LET d1 == Max(days)
             IN  IF days = {d1} THEN OfDay(d1)
                 ELSE OfDay(d1) \o OfDay(Max(days \ {d1}))

first_block_number(f) == IF disk[f] = <<>> THEN 0 ELSE disk[f][1].h

\* The walk from the newest file back ends with the first file that does not
\* start above the floor, an empty file included, or with the cap.
Candidates(files) ==
    LET stops == {i \in DOMAIN files : first_block_number(files[i]) <= min_height}
        n == IF stops = {} THEN Len(files) ELSE Min(stops)
    IN  SubSeq(files, 1, IF n > MAX_BACKFILL_FILES THEN MAX_BACKFILL_FILES ELSE n)

SpansTooMany(files) ==
    /\ Len(files) > MAX_BACKFILL_FILES
    /\ \A i \in 1 .. MAX_BACKFILL_FILES : first_block_number(files[i]) > min_height

\* watch() comes first, so that appends racing the backfill are notified.
Watch ==
    /\ pc = "watch"
    /\ pc' = IF min_height > 0 THEN "list" ELSE "poll"
    /\ UNCHANGED <<nodeVars, readerVars, flagVars, rotated_from, graceUp, queue, due,
                   target, scanVars, sent, before>>

ListFiles ==
    /\ pc = "list"
    /\ LET files == all_files_newest_first IN
       IF files = <<>>
       THEN /\ pc' = "barrier"
            /\ UNCHANGED <<desynced, included, recorded_len, target>>
       ELSE /\ included' = Reverse(Candidates(files))
            /\ desynced' = SpansTooMany(files)
            /\ target' = files[1]
            /\ recorded_len' = Len(disk[files[1]])
            /\ pc' = "scan"
    /\ UNCHANGED <<nodeVars, readerVars, flagged, rotated_from, graceUp, queue, due,
                   min_height, sent, before>>

Deliver(hs) == sent' = sent \cup hs

\* The complete lines of f, up to the recorded cut in the newest file.
BackfillBytes(f) ==
    LET seen == IF f = target THEN SubSeq(disk[f], 1, recorded_len) ELSE disk[f]
    IN  SubSeq(seen, 1, LastTail(seen))

AboveFloor(hs) == {h \in hs : h > min_height}

\* One file of the backfill, oldest first; the last is the newest file, and live
\* tracking then continues where the backfill stopped in it.
BackfillFile ==
    /\ pc = "scan"
    /\ LET f == Head(included) IN
       /\ Deliver(AboveFloor(LinesOf(BackfillBytes(f))))
       /\ included' = Tail(included)
       /\ IF f = target
          THEN /\ current_path' = f
               /\ file_position' = Len(BackfillBytes(f))
               /\ partial_line' = <<>>
               /\ flagged' = (flagged \/ desynced)
               /\ desynced' = FALSE
               /\ pc' = "barrier"
          ELSE UNCHANGED <<readerVars, flagVars, pc>>
    /\ UNCHANGED <<nodeVars, rotated_from, graceUp, queue, due, min_height, target,
                   recorded_len, before>>

\* Both book sources go live together: this one waits for as long as the other's
\* backfill takes.
GoLive ==
    /\ pc = "barrier"
    /\ pc' = "poll"
    /\ UNCHANGED <<nodeVars, readerVars, flagVars, rotated_from, graceUp, queue, due,
                   target, scanVars, sent, before>>

(***************************************************************************)
(* The polling loop.                                                       *)
(***************************************************************************)

\* What one bounded read at file_position adds to partial_line.
Chunk == IF current_path = 0 THEN <<>>
         ELSE SubSeq(disk[current_path], file_position + 1,
                     Min({file_position + CHUNK, Len(disk[current_path])}))
Buffer == partial_line \o Chunk
NewLines == IF Chunk = <<>> THEN {} ELSE LinesOf(Buffer)

\* The unterminated tail is kept, unless it has outgrown its bound.
KeptPartial(buf) ==
    LET rest == Unterminated(buf) IN IF Len(rest) > MAX_PARTIAL THEN <<>> ELSE rest

\* Bytes that a read throws away: a corrupt terminated line, an oversized tail.
ReadLoses ==
    /\ Chunk # <<>>
    /\ Malformed(Buffer) \/ Len(Unterminated(Buffer)) > MAX_PARTIAL

\* A read with nothing new leaves the reader as it was.
on_modify(wasDesynced) ==
    /\ Deliver(NewLines)
    /\ file_position' = file_position + Len(Chunk)
    /\ partial_line' = IF Chunk = <<>> THEN partial_line ELSE KeptPartial(Buffer)
    /\ desynced' = (wasDesynced \/ ReadLoses)
    /\ UNCHANGED current_path

\* A modify notification or the timeout: read one chunk of the current file.
Poll ==
    /\ pc \in {"poll", "read"}
    /\ on_modify(desynced)
    /\ pc' = "checks"
    /\ UNCHANGED <<nodeVars, flagged, rotated_from, graceUp, queue, due, target,
                   scanVars, before>>

\* A modify notification while no file is tracked: its end is where to start.
start_tracking(f) ==
    /\ current_path' = f
    /\ file_position' = Len(disk[f])
    /\ partial_line' = <<>>
    /\ before' = before \cup {u.h : u \in Range(disk[f])}
    /\ UNCHANGED <<desynced, sent>>

RecvModify ==
    /\ pc = "poll"
    /\ queue # <<>> /\ Head(queue).kind = "modify"
    /\ queue' = Tail(queue)
    /\ IF current_path = 0
       THEN start_tracking(Head(queue).file) /\ pc' = "read"
       ELSE on_modify(desynced) /\ pc' = "checks" /\ UNCHANGED before
    /\ UNCHANGED <<nodeVars, flagged, rotated_from, graceUp, due, target, scanVars>>

\* A create notification: on_create begins with a read of the old file.
RecvCreate ==
    /\ pc = "poll"
    /\ queue # <<>> /\ Head(queue).kind = "create"
    /\ target' = Head(queue).file
    /\ queue' = Tail(queue)
    /\ on_modify(desynced)
    /\ pc' = "drainThenRead"
    /\ UNCHANGED <<nodeVars, flagged, rotated_from, graceUp, due, scanVars, before>>

\* on_create: the old file is read until a read yields no line, its read mark is
\* remembered, and the new file is read from its beginning.
Drain ==
    /\ pc \in {"drainThenRead", "drainThenPoll"}
    /\ NewLines # {}
    /\ on_modify(desynced)
    /\ UNCHANGED <<nodeVars, flagged, rotated_from, graceUp, queue, due, pc, target,
                   scanVars, before>>

LeftAt(mark) ==
    IF current_path \in {0, target} THEN UNCHANGED <<rotated_from, graceUp>>
    ELSE /\ rotated_from' = [file |-> current_path, mark |-> mark]
         /\ graceUp' = FALSE

\* Mutated: the tail of the file left behind is carried into the new one.
PartialCarriedOver == Unterminated(Buffer)

PartialAfterSwitch == <<>>

Switch ==
    /\ pc \in {"drainThenRead", "drainThenPoll"}
    /\ NewLines = {}
    /\ LeftAt(file_position + Len(Chunk))
    /\ desynced' = (desynced \/ ReadLoses)
    /\ current_path' = target
    /\ file_position' = 0
    /\ partial_line' = PartialAfterSwitch
    /\ pc' = IF pc = "drainThenRead" THEN "read" ELSE "poll"
    /\ UNCHANGED <<nodeVars, flagged, queue, due, target, scanVars,
                   sent, before>>

\* The last-written file of the latest day directory.
find_latest_file ==
    LET lastDay == Max({DayOf[f] : f \in Range(mtimes)})
    IN  mtimes[Max({i \in DOMAIN mtimes : DayOf[mtimes[i]] = lastDay})]

Later(f, g) == \E i, j \in DOMAIN mtimes : i < j /\ mtimes[i] = g /\ mtimes[j] = f

\* Mutated: only notified creations lead to a switch.
NotifiedOnly == {}

NewerFiles ==
    IF mtimes = <<>> THEN {}
    ELSE {f \in {find_latest_file} \ {current_path} :
            current_path # 0 => Later(f, current_path)}

GrewAfterSwitch(r) == r # none /\ Len(disk[r.file]) > r.mark

\* The end of an iteration: check_rotation, take_desynced and, every so many
\* polls, check_for_newer_file with the switch it leads to.
EndIteration ==
    /\ pc = "checks"
    /\ flagged' = (flagged \/ desynced \/ (graceUp /\ GrewAfterSwitch(rotated_from)))
    /\ rotated_from' = IF graceUp THEN none ELSE rotated_from
    /\ graceUp' = FALSE
    /\ due' = FALSE
    /\ IF due /\ NewerFiles # {}
       THEN /\ target' \in NewerFiles
            /\ pc' = "drainThenPoll"
            /\ on_modify(FALSE)
       ELSE /\ pc' = "poll"
            /\ desynced' = FALSE
            /\ UNCHANGED <<target, readerVars, sent>>
    /\ UNCHANGED <<nodeVars, queue, scanVars, before>>

\* poll_count reaches the next multiple of ten thousand.
CheckComesRound ==
    /\ ~due
    /\ due' = TRUE
    /\ UNCHANGED <<nodeVars, readerVars, flagVars, rotated_from, graceUp, queue, pc,
                   target, scanVars, sent, before>>

(***************************************************************************)
(* The specification.                                                      *)
(***************************************************************************)

\* The server starts beside a node that has been writing, or has yet to start.
Init ==
    /\ lines = [h \in 1 .. OnDisk |-> "good"]
    /\ disk = [f \in Files |->
                 IF f > 1 THEN <<>>
                 ELSE [i \in 1 .. 2 * OnDisk |->
                         Unit((i + 1) \div 2, IF i % 2 = 1 THEN "head" ELSE "tail")]]
    /\ mtimes = IF OnDisk > 0 THEN <<1>> ELSE <<>>
    /\ late = FALSE
    /\ current_path = 0 /\ file_position = 0 /\ partial_line = <<>>
    /\ desynced = FALSE /\ flagged = FALSE
    /\ rotated_from = none /\ graceUp = FALSE
    /\ queue = <<>> /\ due = FALSE /\ pc = "watch" /\ target = 0
    /\ min_height \in Floors /\ included = <<>> /\ recorded_len = 0
    /\ sent = {} /\ before = {}

Environment ==
    \/ NodeWrite \/ NodeWritesOn \/ NodeFinishesOldFile \/ NodeRotate
    \/ GraceElapses \/ CheckComesRound

Iterate == Watch \/ ListFiles \/ BackfillFile \/ GoLive \/ Poll \/ Drain \/ Switch
           \/ EndIteration

Next == Environment \/ Iterate \/ RecvCreate \/ RecvModify

\* The thread keeps running, queued notifications are received in the end (they
\* are first-in first-out), clocks advance, and the node completes its lines.
Fairness ==
    /\ WF_vars(Iterate)
    /\ SF_vars(RecvCreate \/ RecvModify)
    /\ WF_vars(GraceElapses)
    /\ WF_vars(CheckComesRound)
    /\ WF_vars(NodeFinishesOldFile)
    /\ WF_vars(NodeWrite)
    /\ WF_vars(NodeWritesOn)

Spec == Init /\ [][Next]_vars /\ Fairness

(***************************************************************************)
(* What it is for.                                                         *)
(***************************************************************************)

Heights == DOMAIN lines
Complete(h) == \E f \in Files : Unit(h, "tail") \in Range(disk[f])

\* Types and the reader's bounds: file_position never passes the end of the file and
\* partial_line never outgrows MAX_PARTIAL between two reads (on_modify).
TypeOK ==
    /\ disk \in [Files -> Seq(Units)]
    /\ Range(mtimes) = 1 .. Len(mtimes) /\ Len(mtimes) <= MaxFiles
    /\ current_path \in 0 .. Len(mtimes)
    /\ current_path = 0 => file_position = 0
    /\ current_path # 0 => file_position \in 0 .. Len(disk[current_path])
    /\ Len(partial_line) <= MAX_PARTIAL
    /\ rotated_from \in [file : 0 .. MaxFiles, mark : Nat]
    /\ min_height \in Floors
    /\ included \in Seq(Files) /\ Len(included) <= MAX_BACKFILL_FILES
    /\ sent \subseteq Heights
    /\ {desynced, flagged, graceUp, due, late} \subseteq BOOLEAN

\* partial_line is what precedes file_position in the current file: what the next
\* read continues is the line it belongs to, never bytes of the file left behind
\* or bytes that an earlier read has already turned into a line.
PartialPrecedesPosition ==
    /\ Len(partial_line) <= file_position
    /\ current_path # 0 =>
         partial_line = SubSeq(disk[current_path],
                               file_position - Len(partial_line) + 1, file_position)
    /\ Tails(partial_line) = {}

\* Every well-formed line the node completes above the floor is in the end handed
\* to the listener, or the listener has been told that lines were lost.  (Without a
\* backfill, lines older than where tracking starts are not wanted.)  A line, once
\* complete, stays so and so does its delivery: <>[] is ~> for each of them.
ReadOrFlagged ==
    <>[](\A h \in Heights :
           lines[h] # "torn" /\ Complete(h)
             => h <= min_height \/ h \in sent \/ flagged \/ h \in before)
=============================================================================
