CONSTANTS
  Keys = {k1, k2}
  Values = {v1}
  Tombstone = Tombstone
  Torn = Torn
  Merged = Merged
  None = None
  MaxSegmentId = 1
  SegmentCapacity = 2
  Outage = FALSE
  MaxFaults = 1
  MaxRestarts = 0
  MaxWipes = 1
SPECIFICATION Spec
INVARIANTS WriteNoticesLoss
