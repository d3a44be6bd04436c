CONSTANTS
  MaxObject = 3
  Type <- ChainType
  Children <- ChainChildren
  MaxPack = 0
  MaxTransfer = 0
  RootTargets <- ChainTargets
  Batches <- ChainBatches
  PackContents = {}
  GC_GRACE = 1
  RETENTION = 0
  TRANSFER_TTL = 1
  PAGE_ROWS = 1
  EDGE_PAGE = 1
  MaxTime = 1
  MaxEpoch = 2
  MaxGeneration = 2
SPECIFICATION ChainSpec
INVARIANTS MaintenanceResumable
CHECK_DEADLOCK FALSE
