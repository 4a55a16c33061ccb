SPECIFICATION ServersSpec
CONSTANTS
  Publishers = {p1}
  Channels = {c1}
  MaxEvents = 1
  MaxSubs = 2
  Renewed = {}
  DrainsQueue = FALSE
INVARIANT ClosedMeansCancelled
CHECK_DEADLOCK FALSE
