\* Flat iterators over six arrays and three broadcasts; one write.
CONSTANTS
  None = None
  MemSize = 24
  FlatArrays <- MCFlatArrays
  Pairs <- MCPairs
  Copies <- MCCopies
  Indexes <- MCIndexes
  Positions <- MCPositions
  Values <- MCValues
  MaxWrites = 1
  MaxParted = 1
SPECIFICATION Spec
INVARIANTS
  TypeOK
  WalkAsPromised
  IndexAsPromised
  BroadcastAsPromised
