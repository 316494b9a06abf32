SPECIFICATION Spec
CONSTANTS
  Oid = {1, 2, 3}
  NoOid = 0
  side <- TwoSidesSide
  px <- TwoSidesPx
  Triggers = {2}
  Protocol = {3}
  Size = {1, 2}
  MaxBlocks = 4
  MAX_PENDING_ORDERS = 2
  MAX_PENDING_DIFFS = 2
  ZEROED_WINDOW_BLOCKS = 1
INVARIANTS NoPhantom NoSilentLoss PairedOrdersRest ZeroedIsGone
PROPERTY OwnDiffOnly
CHECK_DEADLOCK FALSE
