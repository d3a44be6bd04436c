SPECIFICATION DashSpec
CONSTANTS
  PathOrder <- DashPathOrder
  Ids <- MCIds
  Branches <- MCBranches
  Ignorable <- MCIgnorable
  ModeOf <- MCModeOf
  TextOf <- MCTextOf
  Relocations <- MCRelocations
  SPARSE_CHECKOUT_PATHS = 2
  MaxCommits = 6
  MaxEdits = 1
INVARIANTS CleanMergeComplete
CHECK_DEADLOCK FALSE
