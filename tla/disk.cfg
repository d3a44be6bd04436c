SPECIFICATION MCSpec
CONSTANTS
  Paths <- MCPaths
  Parent <- MCParent
  Above <- MCAbove
  InitialTrees <- MCTrees
  Root = "/"
  Absent = "absent"
  Dir = "dir"
  Contents = {"old", "new"}
  MaxTx = 2
  MaxOps = 2
  MaxCrashes = 2
  MaxFaults = 1
INVARIANTS CommittedTree NothingLeftBehind UndoRestores
PROPERTIES EventuallyOpens
CHECK_DEADLOCK FALSE
