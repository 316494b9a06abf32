------------------------------ MODULE Outbound ------------------------------
(***************************************************************************)
(* A connection's session and its writer task                              *)
(* (servers/websocket_server.rs: handle_socket, run_session, Outbound,     *)
(* write_task).  The session never writes to the socket: it puts frames on *)
(* a bounded queue, and the answers to pings on a lane of their own that   *)
(* the writer empties first.  Either side may fail or give up: a send that *)
(* takes too long, a queue that stays full, a client that leaves, a writer *)
(* that is gone.                                                           *)
(*                                                                         *)
(* Timeouts are steps that are possible while what they time goes on.      *)
(* Data frames are numbered in the order the session sends them; what they *)
(* hold is the matter of L2Feed and EventFeed.                             *)
(***************************************************************************)
EXTENDS Naturals, Sequences, FiniteSets

CONSTANTS
  OUTBOUND_QUEUE_DEPTH, PONG_QUEUE_DEPTH,
  MaxFrames,   \* bound: data frames the session sends
  MaxPings     \* bound: pings of the client

ASSUME OutboundAssumption ==
  /\ OUTBOUND_QUEUE_DEPTH \in Nat \ {0} /\ PONG_QUEUE_DEPTH \in Nat \ {0}
  /\ MaxFrames \in Nat /\ MaxPings \in Nat

VARIABLES
  is_ready,  \* was the book ready when the client connected?
  session,   \* "run" (at its select), "send" (waiting to enqueue a frame), "end" (the
             \* queues' senders dropped, waiting for the writer) or "done"
  frames,    \* data frames made so far
  data,      \* the data queue
  pongs,     \* the pong lane: which pings are answered by what is in it
  writer,    \* "pick", "write", "close" (the handshake) or "done" (receivers dropped)
  flight,    \* the frame being written: {} or {[kind, n]}
  reading,   \* does the client take what is sent?
  asked,     \* pings the client has sent
  wire,      \* the frames the client got
  answered,  \* pings the session has read
  outcome,   \* how the writer ended: "none", "drained", "failed" or "aborted"
  accepted   \* history: frames that went into the queue or the lane

vars == <<is_ready, session, frames, data, pongs, writer, flight, reading, asked, wire, answered,
          outcome, accepted>>
writerVars == <<writer, flight, outcome>>
clientVars == <<reading, asked, wire>>

Pong(k) == [kind |-> "pong", n |-> k]
Data(k) == [kind |-> "data", n |-> k]
Open == writer # "done"
SendersDropped == session \in {"end", "done"}

Init ==
  /\ is_ready \in BOOLEAN
  /\ session = IF is_ready THEN "run" ELSE "send"   \* the error message that the book is not ready
  /\ frames = IF is_ready THEN 0 ELSE 1
  /\ data = <<>> /\ pongs = <<>>
  /\ writer = "pick" /\ flight = {}
  /\ reading = TRUE /\ asked = 0 /\ wire = <<>> /\ answered = 0
  /\ outcome = "none" /\ accepted = 0

-----------------------------------------------------------------------------
(* The session.                                                            *)

\* A broadcast, a heartbeat or a client message makes a frame to send.
MakeFrame ==
  /\ session = "run"
  /\ frames < MaxFrames
  /\ frames' = frames + 1
  /\ session' = "send"
  /\ UNCHANGED <<is_ready, accepted, data, pongs, writerVars, clientVars, answered>>

SkipWhenFull ==   \* mutant: a frame that finds the queue full is dropped
  data' = IF Len(data) < OUTBOUND_QUEUE_DEPTH THEN Append(data, frames) ELSE data

\* A slot of the queue: the frame goes behind the others.
TakeSlot ==
  /\ Len(data) < OUTBOUND_QUEUE_DEPTH
  /\ data' = Append(data, frames)

\* send_payload: enqueued.
Enqueue ==
  /\ session = "send"
  /\ Open
  /\ TakeSlot
  /\ accepted' = accepted + 1
  /\ session' = IF is_ready THEN "run" ELSE "end"
  /\ UNCHANGED <<is_ready, frames, pongs, writerVars, clientVars, answered>>

\* send_payload: the queue has been full for too long, or the writer is gone.
EnqueueFails ==
  /\ session = "send"
  /\ ~Open \/ Len(data) = OUTBOUND_QUEUE_DEPTH
  /\ session' = "end"
  /\ UNCHANGED <<is_ready, accepted, frames, data, pongs, writerVars, clientVars, answered>>

\* A ping is answered on the lane; with the lane full or the writer gone the
\* connection is dropped.
ReadPing ==
  /\ session = "run"
  /\ answered < asked
  /\ answered' = answered + 1
  /\ IF Open /\ Len(pongs) < PONG_QUEUE_DEPTH
       THEN pongs' = Append(pongs, answered + 1) /\ accepted' = accepted + 1 /\ UNCHANGED session
       ELSE session' = "end" /\ UNCHANGED <<pongs, accepted>>
  /\ UNCHANGED <<is_ready, frames, data, writerVars, clientVars>>

\* The client closes, the socket ends, a frame is not text, or the broadcast
\* channel is gone.
Leave ==
  /\ session = "run"
  /\ session' = "end"
  /\ UNCHANGED <<is_ready, accepted, frames, data, pongs, writerVars, clientVars, answered>>

NeverNotices == FALSE   \* mutant: no arm for a writer that is gone
\* data_tx.closed() resolves.
SeesWriterGone == ~Open

WriterGone ==
  /\ session = "run"
  /\ SeesWriterGone
  /\ session' = "end"
  /\ UNCHANGED <<is_ready, accepted, frames, data, pongs, writerVars, clientVars, answered>>

\* The writer has drained its queues, in time.
Finish ==
  /\ session = "end"
  /\ ~Open
  /\ session' = "done"
  /\ UNCHANGED <<is_ready, accepted, frames, data, pongs, writerVars, clientVars, answered>>

\* ... or not in time.
Abort ==
  /\ session = "end"
  /\ Open
  /\ session' = "done"
  /\ writer' = "done" /\ flight' = {} /\ outcome' = "aborted"
  /\ UNCHANGED <<is_ready, accepted, frames, data, pongs, clientVars, answered>>

-----------------------------------------------------------------------------
(* The writer.                                                             *)

MayPickData == pongs = <<>>

PickPong ==
  /\ writer = "pick"
  /\ pongs # <<>>
  /\ flight' = {Pong(Head(pongs))}
  /\ pongs' = Tail(pongs)
  /\ writer' = "write"
  /\ UNCHANGED <<is_ready, accepted, session, frames, data, outcome, clientVars, answered>>

PickData ==
  /\ writer = "pick"
  /\ MayPickData
  /\ data # <<>>
  /\ flight' = {Data(Head(data))}
  /\ data' = Tail(data)
  /\ writer' = "write"
  /\ UNCHANGED <<is_ready, accepted, session, frames, pongs, outcome, clientVars, answered>>

ClosedAtOnce == SendersDropped   \* mutant: what is queued is left when the senders are dropped
\* Both queues are empty and nobody can add to them.
BothClosed == SendersDropped /\ data = <<>> /\ pongs = <<>>

Drained ==
  /\ writer = "pick"
  /\ BothClosed
  /\ writer' = "close"
  /\ outcome' = "drained"
  /\ UNCHANGED <<is_ready, accepted, session, frames, data, pongs, flight, clientVars, answered>>

Written ==
  /\ writer = "write"
  /\ reading
  /\ \E f \in flight : wire' = Append(wire, f)
  /\ flight' = {}
  /\ writer' = "pick"
  /\ UNCHANGED <<is_ready, accepted, session, frames, data, pongs, outcome, reading, asked, answered>>

WaitForEver == FALSE   \* mutant: the write is not timed
\* A write fails at any time, and takes too long when the client does not read.
WriteGivesUp == writer = "write"

WriteFails ==
  /\ WriteGivesUp
  /\ flight' = {}
  /\ writer' = "close"
  /\ outcome' = "failed"
  /\ UNCHANGED <<is_ready, accepted, session, frames, data, pongs, clientVars, answered>>

\* The close handshake is made or timed out, and the receivers are dropped.
Close ==
  /\ writer = "close"
  /\ writer' = "done"
  /\ UNCHANGED <<is_ready, accepted, session, frames, data, pongs, flight, outcome, clientVars, answered>>

-----------------------------------------------------------------------------
(* The client.                                                             *)

Stall ==
  /\ reading' = ~reading
  /\ UNCHANGED <<is_ready, accepted, session, frames, data, pongs, writerVars, asked, wire, answered>>

SendPing ==
  /\ asked < MaxPings
  /\ asked' = asked + 1
  /\ UNCHANGED <<is_ready, accepted, session, frames, data, pongs, writerVars, reading, wire, answered>>

SessionStep ==
  MakeFrame \/ Enqueue \/ EnqueueFails \/ ReadPing \/ Leave \/ WriterGone \/ Finish \/ Abort
WriterStep == PickPong \/ PickData \/ Drained \/ Written \/ WriteFails \/ Close

Next == SessionStep \/ WriterStep \/ Stall \/ SendPing

\* The writer always goes on: each of its waits is timed or ends when the
\* session ends.  The session's waits are timed too, and its select takes a
\* ready arm at random, so each ready arm in the end (SF: the session may be
\* away sending in between).
Fairness ==
  /\ WF_vars(WriterStep)
  /\ WF_vars(Enqueue \/ EnqueueFails)
  /\ SF_vars(ReadPing)
  /\ SF_vars(WriterGone)
  /\ WF_vars(Finish \/ Abort)

Spec == Init /\ [][Next]_vars /\ Fairness

-----------------------------------------------------------------------------
\* Type invariant: the queues are within their depths.
TypeOK ==
  /\ is_ready \in BOOLEAN /\ reading \in BOOLEAN
  /\ session \in {"run", "send", "end", "done"}
  /\ frames \in 0..(MaxFrames + 1) /\ asked \in 0..MaxPings /\ answered \in 0..asked
  /\ data \in Seq(1..(MaxFrames + 1)) /\ Len(data) <= OUTBOUND_QUEUE_DEPTH
  /\ pongs \in Seq(1..MaxPings) /\ Len(pongs) <= PONG_QUEUE_DEPTH
  /\ writer \in {"pick", "write", "close", "done"}
  /\ Cardinality(flight) = (IF writer = "write" THEN 1 ELSE 0)
  /\ outcome \in {"none", "drained", "failed", "aborted"}

\* How many of the first n frames the client got are of a kind.
Count(kind, n) == Cardinality({i \in 1..n : wire[i].kind = kind})

\* What the client gets is what the session sent, in order and without a hole:
\* a frame is never left out and the next one sent (the session ends instead),
\* and the pongs are to the pings, in order.  The k-th frame of a kind on the wire
\* is the k-th of its kind that was made.
InOrder == \A i \in DOMAIN wire : wire[i].n = Count(wire[i].kind, i)

\* A writer that ends without a failed write or an abort has delivered every
\* frame that was accepted: an error message sent just before the connection is
\* closed arrives, and so does the answer to a last ping.
DrainedIsDelivered == outcome = "drained" => Len(wire) = accepted

\* A ping is answered, or the connection is closed: a client is not left open
\* and unanswered, whatever it reads and however full its queue.
PingsAnswered ==
  \A k \in 1..MaxPings : (asked >= k) ~> (Count("pong", Len(wire)) >= k \/ session = "done")

\* When either side ends, for whatever reason, both do: an idle session notices
\* that its writer is gone, and a writer does not outlive its session.
BothEnd == (session \in {"end", "done"} \/ ~Open) ~> (session = "done" /\ ~Open)
=============================================================================
