CONSTANTS
  Keys = {k1, k2, k3}
  Values = {v1, v2}
  Tombstone = Tombstone
  Torn = Torn
  Merged = Merged
  None = None
  MaxSegmentId = 2
  SegmentCapacity = 2
  Outage = FALSE
  MaxFaults = 0
  MaxRestarts = 1
  MaxWipes = 1
SYMMETRY Interchangeable
SPECIFICATION Spec
INVARIANTS ReloadsInTime
PROPERTIES ImplementsDurableMap
