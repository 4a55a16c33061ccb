SPECIFICATION Spec
CONSTANTS
  Histories <- MCHistories
  Keys = {"x", "y"}
CHECK_DEADLOCK FALSE
INVARIANTS
  VerdictCorrect
  LongestIsLongest
  LinksInOrder
PROPERTIES
  CheckReturns
