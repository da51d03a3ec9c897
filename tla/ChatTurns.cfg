CONSTANTS
  MaxTurns = 2
  Slots = {s1}
  MaxCancels = 1
  MaxOther = 1
  MaxEvents = 1
SPECIFICATION FairSpec
CHECK_DEADLOCK FALSE
INVARIANTS
  TypeOK
  TranscriptAgrees
  StopLeavesNothing
PROPERTIES
  ImplementsLedger
  CancelTakesEffect
  StopHitsWhatIsShown
