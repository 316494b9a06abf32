SPECIFICATION Spec
CONSTANTS
  Coin = {1, 2, 3}
  Session = {"s1", "s2"}
  Books <- MCBooks
  Start <- MCStart
  Wanted <- TwoWanted
  Ticking = {3}
  MAX_LEVELS = 2
  L2_BACKFILL_COINS_PER_FLUSH = 1
  ChannelDepth = 1
  InstallEvicts = FALSE
  MaxEvents = 4
INVARIANTS CacheIsFresh FollowsBroadcast UniverseFollows RegistryExact
PROPERTY SubscriberCatchesUp
