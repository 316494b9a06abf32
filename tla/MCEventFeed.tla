---------------------------- MODULE MCEventFeed ----------------------------
(* Scenarios for EventFeed: raw events with dumps, trades, and quotes.     *)
EXTENDS EventFeed, TLC

TwoDumps == "c1" :> {"l4Book"} @@ "c2" :> {"l4Book"}
RawEvents == "c1" :> {"l4Book"} @@ "c2" :> {"bookDiffs", "orderUpdates"}
Trades == "c1" :> {"trades"} @@ "c2" :> {"trades"}
Quotes == "c1" :> {"bbo"} @@ "c2" :> {}

MCMixes == {TwoDumps, RawEvents, Trades, Quotes}
=============================================================================
