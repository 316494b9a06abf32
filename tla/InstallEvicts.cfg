SPECIFICATION Spec
CONSTANTS
  Coin = {1, 2, 3}
  Session = {"s1"}
  Books <- MCBooks
  Start <- MCStart
  Wanted <- OneWanted
  Ticking = {3}
  MAX_LEVELS = 2
  L2_BACKFILL_COINS_PER_FLUSH = 1
  ChannelDepth = 1
  InstallEvicts = TRUE
  MaxEvents = 3
PROPERTY GoneIsTold
