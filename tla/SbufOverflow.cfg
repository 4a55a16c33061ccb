SPECIFICATION Spec
CONSTANTS
  N = 2
  Producers = {p1}
  Consumers = {c1}
  Items = {a, b}
  NoItem = NoItem
  IntMax = 3
  MaxInserts = 6
INVARIANT FirstAndLastItem
CHECK_DEADLOCK FALSE
