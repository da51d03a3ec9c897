CONSTANTS
  Texts = {blank, t1, t2}
  Blank = blank
  Gone = gone
  Binary = binary
  None = none
  MaxEdits = 2
  MaxOutside = 1
  MaxFailures = 1
  MaxParked = 1
SPECIFICATION Spec
CHECK_DEADLOCK FALSE
INVARIANTS
  TypeOK
  SavedMeansSaved
  OverwritesOnlySeen
  LeavingFlushes
PROPERTIES
  UnsavedSurvivesReads
  UnsavedSettles
