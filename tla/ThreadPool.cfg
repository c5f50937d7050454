SPECIFICATION FairSpec
CONSTANTS
  NumThreads = 3
  NumNodes = 3
  Kind <- MCKind
  Chunks = 8
  MaxGraphs = 3
INVARIANTS PoolInv NodesInOrder ParametersAreQuiet
PROPERTY CallsReturn
CHECK_DEADLOCK FALSE
