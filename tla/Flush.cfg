SPECIFICATION FairSpec
CONSTANTS
    Destinations = {d1, d2}
    Guarded = {d1}
    Events = {e1}
    MaxOperations = 3
    WithResult = {1, 3}
    Closing = {2}
    Timers = {t1, t2, t3}
    Nothing = Nothing
    MaxFailures = 1
    MaxSwitches = 1
INVARIANTS OneOperation NothingStranded ResultsAreTrue
PROPERTIES SettledIsDone EverySettles
CHECK_DEADLOCK FALSE
