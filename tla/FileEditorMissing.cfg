CONSTANTS
  Texts = {blank, t1, t2}
  Blank = blank
  Gone = gone
  Binary = binary
  None = none
  MaxEdits = 1
  MaxOutside = 1
  MaxFailures = 0
  MaxParked = 0
SPECIFICATION Spec
CHECK_DEADLOCK FALSE
PROPERTIES
  DraftIsKept
