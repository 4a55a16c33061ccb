SPECIFICATION ServersSpec
CONSTANTS
  Publishers = {p1, p2}
  Channels = {c1, c2}
  MaxEvents = 2
  Renewed = {c1}
  MaxSubs = 2
  DrainsQueue = TRUE
INVARIANTS NoSendOnClosed NothingLost
PROPERTIES ImplementsPubSub EveryPublishReturns CancelledGetsClosed
CHECK_DEADLOCK FALSE
