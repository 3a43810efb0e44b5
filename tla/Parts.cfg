CONSTANTS
  None = None
  Deleted = Deleted
  Requesters = {c1, c2, c3}
  Others = {x}
  Failures = {off, failed}
  Refused = off
  MaxEvents = 5
  MaxToggles = 2
  MaxClears = 1
  Clients = {a1, a2}
  MaxInits = 2
  MaxShutdowns = 3
  MaxFailures = 1
  MaxSwitches = 1
  Starts = {s1, s2}
  Rounds = {r1, r2}
  InitialFlag = InitialFlag
  NoFlag = NoFlag
  MaxStops = 1
  MaxVersions = 1
  MaxFlagFailures = 1
  MaxDeaths = 1
  FlagKeys = {k1, k2}
  Identities = {u1, u2}
  MaxReads = 2
  StorageKeys = {a, b, c}
  Inner = {b}
  Values = {v1}
  MaxRevision = 4
  MaxReloads = 1
  MaxPublishes = 2
  MaxOptions = 2
  MaxLifecycleFaults = 2
  MaxDocumentEdits = 1
  Features = {f1}
  MaxFileVersion = 2
  MaxCommands = 3
  MaxFileEdits = 2
  MaxGitFaults = 1
  Buttons = {"optOut", "records", "stress"}
  Burst = 2
  MaxJobs = 3
  MaxLabRuns = 2
  Connections = {q1, q2, q3}
  MaxBody = 1
  MaxStarts = 2
  LegacyKeys = {a, b}
  Rejected = {b}
  MaxStorageCalls = 3
  MaxStorageFaults = 2
  MaxStorageDeaths = 1
SPECIFICATION Spec
INVARIANTS LifecycleHolds ReadsHold ReleaseHolds ReplayHolds ExampleHolds MigrationHolds
PROPERTIES TransportHolds FlagsHold BrowserHolds
CHECK_DEADLOCK FALSE
