CONSTANTS
  Flags <- AllFlags
  MaxCalls = 2
  MaxCrashes = 1
  MaxEdits = 1
  Edits = {"settings", "mode", "protected", "sandbox", "config", "rules", "auth", "definition"}
  MaxSessions = 1
  Slots = {s1, s2}
  MaxRequests = 2
SPECIFICATION BoundedSpec
SYMMETRY SlotSymmetry
INVARIANTS
  MarkerMeansReady
  ChoicesAreKept
  ConfigFollowsChoices
  CommandsStayInBounds
  AgentKeepsOutOfCommands
CHECK_DEADLOCK FALSE
