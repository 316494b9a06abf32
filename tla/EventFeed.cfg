SPECIFICATION Spec
CONSTANTS
  Session = {"c1", "c2"}
  Http = "http"
  Mixes <- MCMixes
  BUILD_PERMITS = 2
  ChannelDepth = 1
  Quote = {1, 2}
  MaxEvents = 2
  MaxFills = 6
INVARIANTS GatesExact L4Complete TradesExact BboIsCurrent
CHECK_DEADLOCK FALSE
