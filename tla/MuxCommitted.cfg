SPECIFICATION Spec
CONSTANTS
  Callers = {g1, g2, g3}
  Tags = {t1, t2}
  Nobody = Nobody
  MaxCalls = 2
  SendMade = FALSE
PROPERTIES EveryCallReturns
CHECK_DEADLOCK FALSE
