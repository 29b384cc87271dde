\* Two operations on a block of twelve elements and the arrays that view it.
CONSTANTS
  None = None
  Starts <- MCStarts
  Shapes <- MCShapes
  StridesTried <- MCStrides
  Indexes <- MCIndexes
  AssignIndexes <- MCAssignIndexes
  Values <- MCValues
  Garbage = {0, 7}
  MaxSteps = 2
SPECIFICATION Spec
INVARIANTS
  TypeOK
  ShowsAsPromised
  FlagsTrue
  CopiesOnlyIfNeeded
CHECK_DEADLOCK FALSE
