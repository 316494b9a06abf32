SPECIFICATION Spec
CONSTANTS
  OUTBOUND_QUEUE_DEPTH = 2
  PONG_QUEUE_DEPTH = 2
  MaxFrames = 5
  MaxPings = 3
INVARIANTS InOrder DrainedIsDelivered
PROPERTIES PingsAnswered BothEnd
CHECK_DEADLOCK FALSE
