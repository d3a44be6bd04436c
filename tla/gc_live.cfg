CONSTANTS
  MaxObject = 3
  Type <- ChainType
  Children <- ChainChildren
  MaxPack = 1
  MaxTransfer = 0
  RootTargets <- ChainTargets
  Batches <- ChainBatches
  PackContents <- ChainBatches
  GC_GRACE = 1
  RETENTION = 0
  TRANSFER_TTL = 1
  PAGE_ROWS = 1
  EDGE_PAGE = 1
  MaxTime = 4
  MaxEpoch = 2
  MaxGeneration = 2
SPECIFICATION LiveSpec
PROPERTIES GarbageCollected
CHECK_DEADLOCK FALSE
