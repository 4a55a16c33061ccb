SPECIFICATION FairSpec
CONSTANTS
  N = 2
  Producers = {p1, p2}
  Consumers = {c1, c2}
  Items = {a, b}
  NoItem = NoItem
  IntMax = 4
  MaxInserts = 4
INVARIANTS MutualExclusion SlotAccounting RingContents
PROPERTIES ImplementsFIFO EveryItemRemoved
CHECK_DEADLOCK FALSE
