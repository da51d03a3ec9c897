CONSTANTS
  None = None
  ScheduleIds = {s1, s2}
  MaxRuns = 2
  CommandIds = {}
  Triggers <- WithHuge
  CronNext <- SmallCron
  concurrency = 1
  Policies = {"drain"}
  MaxDate = 9
  StateMayThrow = FALSE
  Horizon = 2
  MaxRevision = 1
  MaxManual = 0
SPECIFICATION Spec
SYMMETRY Symmetry
INVARIANTS
  WorkConserving
