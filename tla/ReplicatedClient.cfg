SPECIFICATION Spec
CONSTANTS
  Callers = {g1, g2}
  NumServers = 3
  Versions = {1, 2, 3}
  Downs = {{}, {1}, {0, 1}}
  MaxCalls = 2
INVARIANTS AsksEachOnce AttemptsNeverBlock RepliesOrTriedAll
PROPERTIES EveryCallReturns
CHECK_DEADLOCK FALSE
