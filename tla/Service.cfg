SPECIFICATION Spec
CONSTANTS
  Absent = Absent
  Unreadable = Unreadable
  MaxHeight = 3
  MaxReorgs = 2
  MaxFaults = 2
  MaxStarts = 3
  PerBlock = 2
  Launches <- MCLaunches
  PostgresCalls = {"panic", "return"}
INVARIANTS
  TypeOK
  KafkaNeverPanics
  RestartRepairs
  OneLinePerFailure
  FirstSessionAccepted
  IInv
CHECK_DEADLOCK FALSE
