CONSTANTS
  None = None
  ScheduleIds = {s1}
  MaxRuns = 4
  CommandIds = {}
  Triggers <- AllKinds
  CronNext <- SmallCron
  concurrency = 1
  Policies = {"drain"}
  MaxDate = 100
  StateMayThrow = FALSE
  Horizon = 4
  MaxRevision = 4
  MaxManual = 1
SPECIFICATION Spec
SYMMETRY Symmetry
INVARIANTS
  NoOccurrenceReplayed
PROPERTIES
  ClaimSkipsBacklog
