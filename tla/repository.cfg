CONSTANTS
  Roots = {"/a", "/b"}
  MaxRepository = 3
  MaxCheckout = 3
  LEASE = 2
  RENEW_WINDOW = 1
  Clones = {k1, k2}
  MaxClock = 4
  Ingests = {i1, i2}
  Incoming <- MCIncoming
  PACK_INGEST_LEASE = 2
  MAX_DELTA_DEPTH = 2
  INDEX_PAGE = 2
  PENDING_PAGE = 2
  MaxPackId = 3
  MaxIngestClock = 3
  Chunks = 1
  Type <- MCType
  Links <- MCLinks
  Packs <- MCPacks
  Responses <- MCResponses
  RefNames = {main}
  None = None
SPECIFICATION MCSpec
INVARIANTS RegistryIntact ClonesOwned IngestOwnsPack CompletePackWhole CorruptOnlyUnresolvable RefsClosed
CHECK_DEADLOCK FALSE
