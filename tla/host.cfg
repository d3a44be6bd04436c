SPECIFICATION MCSpec
CONSTANTS
  FsPaths <- MCFsPaths
  FsOrder <- MCFsOrder
  ChunkSize = 2
  FsBatches <- MCBatches
  FsRemovals <- MCRemovals
  FsCopies <- MCCopies
  CopyBudget = 2
  CopyLimit = 2
  FsData <- MCData
  FsSizes <- MCSizes
  MaxRev = 3
  MaxSeen = 1
  PgTrees <- MCPgTrees
  PgChanges <- MCPgChanges
  PgTables <- MCPgTables
  PgCalls <- MCPgCalls
  PgLinks <- MCPgLinks
  PgLink <- L
  PgPatternMax = 5
  PgMaxChanges = 1
  MtTrees <- MCMtTrees
  MtTables <- MCMtTables
  MtInputs <- MCMtInputs
  MtTargets <- MCMtTargets
  MaxFollows = 2
  RbChunk = 2
  RbLargest = 4
  RbStores <- MCRbStores
  RbCalls <- MCRbCalls
INVARIANTS FsTablesAgree StaleNeverTrusted
INVARIANTS PagesTrue PagesComplete ViewSound ReadsBounded
PROPERTIES SubtreeRevExact FsImplementsTree
CHECK_DEADLOCK FALSE
