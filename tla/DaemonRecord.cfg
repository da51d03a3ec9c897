CONSTANTS
  None = None
  Daemons = {d1, d2}
  Clis = {}
  Migrations = 0
  InodeReused = FALSE
  MaxManual = 2
  MaxFaults = 0
  MaxStops = 1
  MaxEdits = 0
SPECIFICATION Spec
CHECK_DEADLOCK FALSE
PROPERTIES
  ReplacementRecordSurvives
