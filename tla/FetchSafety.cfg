CONSTANTS
  Users = {u, v}
  Keys = {x, y}
  Earlier = {x, y}
  AwaitsCacheReady = TRUE
  MaxAttempts = 2
  MaxSequence = 4
  MaxInFlight = 2
  Absent = Absent
SYMMETRY Alike
SPECIFICATION Spec
INVARIANTS AnswersInOrder CacheIsKept
PROPERTIES FetchesAreCurrent
CHECK_DEADLOCK FALSE
