SPECIFICATION Spec
CONSTANTS
  Programs = {"fork10", "fork11", "fork12", "fork13", "fork14", "fork15", "procmask1",
              "procmask2", "waitforsignal", "sigsuspend", "shellex"}
  N = 4
CHECK_DEADLOCK FALSE
INVARIANTS
  ChildrenAccounted
PROPERTIES
  EveryWaitEnds
