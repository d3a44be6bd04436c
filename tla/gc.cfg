CONSTANTS
  MaxObject = 5
  Type <- MCType
  Children <- MCChildren
  MaxPack = 3
  MaxTransfer = 2
  RootTargets <- MCTargets
  Batches <- MCBatches
  PackContents <- MCContents
  GC_GRACE = 1
  RETENTION = 1
  TRANSFER_TTL = 1
  PAGE_ROWS = 2
  EDGE_PAGE = 1
  MaxTime = 3
  MaxEpoch = 3
  MaxGeneration = 3
SPECIFICATION MCSpec
INVARIANTS TypeOK StoreClosed MarkSound PackVerdictsStand
PROPERTIES NoReachableLost GraceFromArrival
CHECK_DEADLOCK FALSE
