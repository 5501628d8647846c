SPECIFICATION FairSpec
CONSTANTS
  MaxHeight = 4
  MaxReorgs = 2
  MaxFaults = 1
  CacheSize = 3
  StartHeight = 0
  Width = 4
  QuietHeights = {2}
INVARIANTS TypeOK CacheOrdered InverseMatchesCache OneVersionPerHeight IInv
PROPERTIES AncestorKept ImplementsStack PollsAgain CatchesUp
CHECK_DEADLOCK FALSE
