SPECIFICATION FairSpec
CONSTANTS
  MaxHeight = 3
  MaxReorgs = 1
  MaxBlocks = 2
  ViewHeights = {1}
  Data = {1}
  Width = 3
INVARIANTS
  TypeOK
  SimulatorIsAChain
PROPERTIES
  ImplementsCalls
  CallReturns
