CONSTANTS
  MaxHeight = 3
  MaxReorgs = 1
  MaxFaults = 0
  CacheSize = 3
  StartHeight = 0
  Width = 4
  QuietHeights = {}
SPECIFICATION Spec
INVARIANT TipAgreementSuffices
CHECK_DEADLOCK FALSE
