CONSTANTS
  Folders = {"w", "r", "a", "b", "o"}
  Files = {"rs", "rn", "as", "an", "bs", "bn", "os", "on"}
  Root = "r"
  Workspaces <- Graphs
  Policies <- Choices
  MaxFolders = 4
SPECIFICATION Spec
INVARIANTS
  WalkAgreesWithPi
CHECK_DEADLOCK FALSE
