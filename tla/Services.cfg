CONSTANTS
  StoreKeys = {k}
  Values = {v}
  Tombstone = Tombstone
  Torn = Torn
  MergedLine = MergedLine
  None = None
  MaxSegmentId = 1
  SegmentCapacity = 2
  Outage = TRUE
  MaxFaults = 0
  MaxRestarts = 0
  MaxWipes = 1
  Threads = {t1, t2}
  Ids = {a}
  Listeners = {l}
  Sizes = {1}
  MaxQueued = 2
  MaxQueuedBytes = 2
  MaxRequests = 2
  Nothing = Nothing
  Stores = {events, session}
  Names = {x, y}
  MaxWrites = 2
  MaxKills = 1
  Requesters = {c1, c2}
  Others = {x}
  Failures = {off, failed}
  Refused = off
  MaxEvents = 5
  MaxSwitches = 2
  MaxClears = 1
  Starts = {s1, s2}
  Rounds = {r1, r2}
  InitialFlag = InitialFlag
  NoFlag = NoFlag
  MaxStops = 1
  MaxVersions = 1
  MaxFlagFailures = 1
  MaxDeaths = 0
  Clients = {a1, a2}
  MaxInits = 2
  MaxShutdowns = 1
  MaxFailures = 1
  MaxToggles = 1
SPECIFICATION FairSpec
INVARIANTS BufferHolds
PROPERTIES FlagsCatchUp CallsReturn WorkerServes EventuallyDurable EveryCallReturns InitEnds
CHECK_DEADLOCK FALSE
