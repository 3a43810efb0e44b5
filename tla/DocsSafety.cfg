CONSTANTS
  Entries = 2
  Directories = {2}
  Missing = Missing
  Canonical = {c1, c2}
  Processes = 3
  MaxAlive = 2
  MaxKills = 1
  MaxEdits = 1
SYMMETRY Alike
VIEW Followed
SPECIFICATION Spec
INVARIANTS MutualExclusion FilesAreSafe CleanMeansRestored
CHECK_DEADLOCK FALSE
