SPECIFICATION MCSpec
CONSTANTS
  KEY_BITS = 4
  Keys <- MCKeys
  Values = {1, 6}
  Shapes = {"plain", "augmented"}
  Keeps <- MCKeeps
  Merges <- MCMerges
  Junk = {"ref"}
  MaxItems = 3
  EXTRA_BITS = 2
  MAX_SUM = 16
  CELL_BITS = 14
  PfxMaxItems = 0
INVARIANT NothingIsDropped
CHECK_DEADLOCK FALSE
