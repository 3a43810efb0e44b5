SPECIFICATION Spec
CONSTANTS
  Clients = {c1}
  MaxInits = 2
  MaxShutdowns = 1
  MaxFailures = 0
  MaxSwitches = 0
INVARIANTS InitHolds
CHECK_DEADLOCK FALSE
