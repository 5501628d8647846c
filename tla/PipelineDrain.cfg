SPECIFICATION FairSpec
CONSTANTS
  k1 = k1
  v1 = v1
  v2 = v2
  Key = {k1}
  Value = {v1, v2}
  None = None
  TextKeys = {}
  Emits <- MCEmits
  MaxHeight = 2
  MaxMessages = 1
  MaxReorgs = 0
  MaxFaults = 0
  BatchSize = 2
PROPERTY BufferDrains
CHECK_DEADLOCK FALSE
