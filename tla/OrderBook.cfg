SPECIFICATION Spec
CONSTANTS
  b1 = b1
  b2 = b2
  b3 = b3
  b4 = b4
  ask = ask
  NoOid = NoOid
  Oid = {b1, b2, b3, b4, ask}
  side <- MCside
  px <- MCpx
  Size = {1, 2}
  GrowMin = 1
  CompactSlack = 0
  SzMax = 4
INVARIANTS LinksOK IndexExact AggregateExact BboIsTop DumpIsFaithful
PROPERTY ImplementsBook
SYMMETRY AnyBid
CHECK_DEADLOCK FALSE
