SPECIFICATION HandoffSpec
CONSTANTS
  Oid = {1, 2, 3}
  NoOid = 0
  side <- BidAndAsks
  px <- CrossedPx
  Triggers = {}
  Protocol = {}
  Size = {1, 2}
  MaxBlocks = 3
  MAX_PENDING_ORDERS = 3
  MAX_PENDING_DIFFS = 3
  ZEROED_WINDOW_BLOCKS = 1
  PersistGap = 3
INVARIANTS OverApplyIsHarmless OverApplyLosesNothing
CHECK_DEADLOCK FALSE
