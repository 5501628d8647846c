SPECIFICATION Spec
CONSTANTS
  MaxRuns = 3
  MaxCalls = 3
  MaxAnswer = 7
  MaxLength = 2
  HashLength = 2
  MaxHeight = 2
INVARIANT BlockHashIsCurrent
CHECK_DEADLOCK FALSE
