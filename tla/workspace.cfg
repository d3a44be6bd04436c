SPECIFICATION MCSpec
CONSTANTS
  PathOrder <- MCPathOrder
  Ids <- MCIds
  Branches <- MCBranches
  Ignorable <- MCIgnorable
  ModeOf <- MCModeOf
  TextOf <- MCTextOf
  Relocations <- MCRelocations
  SPARSE_CHECKOUT_PATHS = 2
  MaxCommits = 6
  MaxEdits = 2
INVARIANTS TrackerSound SparseExact CheckoutKeepsWork HardResetExact RemovalsKeepWork
INVARIANTS MergeLosesNothing AbortRestores RebaseFaithful
CHECK_DEADLOCK FALSE
