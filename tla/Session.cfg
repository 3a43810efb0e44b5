SPECIFICATION Spec
CONSTANTS
    Users = {u}
    ExplicitIds = {x}
    NoValue = NoValue
    SessionTimeout = 2
    Delays = {0, 1}
    MaxTime = 3
    MaxDevices = 2
    MaxFailures = 2
INVARIANTS OptOutHonoured SessionIsKept
PROPERTIES CutOnTime
CHECK_DEADLOCK FALSE
