SPECIFICATION Spec
CONSTANTS
  k1 = k1
  v1 = v1
  v2 = v2
  Key = {k1}
  Value = {v1, v2}
  None = None
  TextKeys = {}
  Emits <- MCEmits
  MaxHeight = 4
  MaxMessages = 2
  MaxReorgs = 2
  MaxFaults = 1
  BatchSize = 3
INVARIANTS TypeOK NothingLost WholeBlocks NothingRejected IInv
PROPERTIES UndoRestores
CHECK_DEADLOCK FALSE
