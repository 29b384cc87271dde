\* Strides for two axes that are each inside of the memory.
CONSTANTS
  None = None
  Starts <- MCStarts
  Shapes <- MCShapes
  StridesTried <- FarStrides
  Indexes <- MCIndexes
  AssignIndexes <- MCAssignIndexes
  Values <- MCValues
  Garbage = {0, 7}
  MaxSteps = 2
SPECIFICATION Spec
INVARIANT
  StaysInside
CHECK_DEADLOCK FALSE
