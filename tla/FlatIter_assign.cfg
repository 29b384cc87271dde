\* The pointer of an iterator after a single assignment.
CONSTANTS
  None = None
  MemSize = 24
  FlatArrays <- MCFlatArrays
  Pairs <- MCPairs
  Copies <- MCCopies
  Indexes <- MCIndexes
  Positions <- MCPositions
  Values <- MCValues
  MaxWrites = 1
  MaxParted = 1
SPECIFICATION Spec
INVARIANT PointerNeverLost
