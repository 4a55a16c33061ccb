SPECIFICATION Spec
CONSTANTS
  Calls <- MCCalls
  Threads <- MCThreads
  Queues <- MCQueues
  NoThread = NoThread
INVARIANTS SortedOnReturn NoThreadOutlivesQueue
PROPERTIES TqsortReturns
CHECK_DEADLOCK FALSE
