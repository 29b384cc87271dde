\* Lists together with slices that do not start at 0, and with new axes.
CONSTANTS
  None = None
  Starts <- MCStarts
  Shapes <- MCShapes
  StridesTried <- MCStrides
  Indexes <- DocIndexes
  AssignIndexes <- DocIndexes
  Values <- MCValues
  Garbage = {0, 7}
  MaxSteps = 1
SPECIFICATION Spec
INVARIANT
  ShowsAsPromised
CHECK_DEADLOCK FALSE
