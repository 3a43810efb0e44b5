CONSTANTS
  Users = {u}
  Keys = {x, y}
  Earlier = {x}
  AwaitsCacheReady = TRUE
  MaxAttempts = 1
  MaxSequence = 2
  MaxInFlight = 2
  Absent = Absent
SPECIFICATION Spec
INVARIANTS NewestWins
CHECK_DEADLOCK FALSE
