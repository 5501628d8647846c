CONSTANTS
  MaxHeight = 4
  MaxReorgs = 2
  MaxFaults = 0
  CacheSize = 4
  StartHeight = 0
  Width = 4
  QuietHeights = {}
SPECIFICATION Spec
INVARIANT NothingUndoneTwice
CHECK_DEADLOCK FALSE
