CONSTANTS
  None = None
  ScheduleIds = {s1, s2}
  MaxRuns = 3
  CommandIds = {}
  Triggers <- OneTime
  CronNext <- SmallCron
  concurrency = 1
  Policies = {"drain", "cancel"}
  MaxDate = 100
  StateMayThrow = FALSE
  Horizon = 1
  MaxRevision = 1
  MaxManual = 1
SPECIFICATION FairSpec
INVARIANTS
  WorkConserving
  StopWaitsForWork
PROPERTIES
  EveryRunEnds
  StopCompletes
  DueIsServed
