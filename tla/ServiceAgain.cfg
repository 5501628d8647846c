SPECIFICATION Spec
CONSTANTS
  Absent = Absent
  Unreadable = Unreadable
  MaxHeight = 2
  MaxReorgs = 0
  MaxFaults = 0
  MaxStarts = 2
  PerBlock = 2
  Launches <- MCLaunches
  PostgresCalls = {"return"}
INVARIANT ResendAccepted
CHECK_DEADLOCK FALSE
