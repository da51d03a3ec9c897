CONSTANTS
  None = None
  ScheduleIds = {s1}
  MaxRuns = 2
  CommandIds = {s1}
  Triggers <- OneTimeAndRecurring
  CronNext <- SmallCron
  concurrency = 1
  Policies = {"drain"}
  MaxDate = 100
  StateMayThrow = FALSE
  Horizon = 2
  MaxRevision = 1
  MaxManual = 1
SPECIFICATION Spec
SYMMETRY Symmetry
INVARIANTS
  CommandsNeverOverlap
