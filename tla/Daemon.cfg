CONSTANTS
  None = None
  Daemons = {d1, d2}
  Clis = {c1}
  Migrations = 2
  InodeReused = FALSE
  MaxManual = 1
  MaxFaults = 1
  MaxStops = 1
  MaxEdits = 1
SPECIFICATION FairSpec
CHECK_DEADLOCK FALSE
INVARIANTS
  TypeOK
  RecordedDaemonIsKept
  RaceLeavesOne
  CleanupIsExact
  ServesMigrated
PROPERTIES
  EnsureSettles
