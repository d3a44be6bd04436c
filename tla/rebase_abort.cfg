SPECIFICATION RebaseSpec
CONSTANTS
  PathOrder <- MCPathOrder
  Ids <- MCIds
  Branches <- MCBranches
  Ignorable <- MCIgnorable
  ModeOf <- MCModeOf
  TextOf <- MCTextOf
  Relocations <- MCRelocations
  SPARSE_CHECKOUT_PATHS = 2
  MaxCommits = 6
  MaxEdits = 1
INVARIANTS RebaseAbortable
CHECK_DEADLOCK FALSE
