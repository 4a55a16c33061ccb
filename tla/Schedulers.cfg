SPECIFICATION AnySpec
CONSTANTS
  Versions = {1, 2, 3, 4, 5, 6, 7, 8, 9, 10}
  Servers = {s1, s2}
  NoServer = NoServer
  MaxTask = 3
  MaxFailures = 2
INVARIANTS OneTaskPerServer NoTaskLostOrRunTwice AnyReturnsWhenDone DeadlocksWithFewServers SendNeverBlocks
PROPERTIES AnyEventuallyReturns NoGoroutineLeft
CHECK_DEADLOCK FALSE
