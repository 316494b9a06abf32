SPECIFICATION Spec
CONSTANTS
  Oid = {o1, o2, o3}
  NoOid = NoOid
  side <- OneLevelSide
  px <- OneLevelPx
  Triggers = {}
  Protocol = {}
  Size = {1}
  MaxBlocks = 4
  MAX_PENDING_ORDERS = 2
  MAX_PENDING_DIFFS = 2
  ZEROED_WINDOW_BLOCKS = 1
INVARIANTS TypeOK QueueOrder
SYMMETRY AnyOrder
CHECK_DEADLOCK FALSE
