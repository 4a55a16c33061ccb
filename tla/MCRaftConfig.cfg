SPECIFICATION Spec
CONSTANTS
  Requests = {r1}
  N = 2
  MaxInstances = 3
  Names <- MCNames
  Ends <- MCEnds
  Objects <- MCObjects
  NilName = NilName
INVARIANTS AckedSurvives OldEndsSilent EnabledMeansConnected FalseOnlyOnFault
PROPERTIES EveryCallReturns DeadServerFreesCaller HandlersEnd
CHECK_DEADLOCK FALSE
