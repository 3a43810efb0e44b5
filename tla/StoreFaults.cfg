CONSTANTS
  Keys = {k1, k2}
  Values = {v1}
  Tombstone = Tombstone
  Torn = Torn
  Merged = Merged
  None = None
  MaxSegmentId = 2
  SegmentCapacity = 2
  Outage = FALSE
  MaxFaults = 2
  MaxRestarts = 1
  MaxWipes = 0
SYMMETRY Interchangeable
SPECIFICATION Spec
INVARIANTS LogIsSound BookkeepingIsExact
PROPERTIES ImplementsDurableMap
