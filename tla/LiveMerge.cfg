SPECIFICATION Spec
CONSTANTS
  MaxHeight = 5
  Files <- MCFiles
  LIVE_STREAM_LINES = 1
  MERGE_LOOKAHEAD_BLOCKS = 1
  MERGE_TAKE = 2
  DEAD_WAIT = 2
INVARIANTS Conserved BoundedSkew
PROPERTY DeadIsSilent AllDelivered ReplacedExit
CHECK_DEADLOCK FALSE
