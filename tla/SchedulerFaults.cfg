CONSTANTS
  None = None
  ScheduleIds = {s1, s2}
  MaxRuns = 2
  CommandIds = {s1, s2}
  Triggers <- OneTimeAndRecurring
  CronNext <- SmallCron
  concurrency = 1
  Policies = {"drain", "cancel"}
  MaxDate = 100
  StateMayThrow = TRUE
  Horizon = 1
  MaxRevision = 1
  MaxManual = 1
SPECIFICATION Spec
SYMMETRY Symmetry
INVARIANTS
  TypeOK
  SameScheduleNeverOverlaps
  OwnershipMatchesWork
  RunningRowsAccounted
  NeverAsleep
  CancelReaches
PROPERTIES
  OutcomeIsFinal
  ShutdownAdmitsNothing
  ImplementsLedger
