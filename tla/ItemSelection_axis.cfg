\* lexsort over the last axis of a transposed array.
CONSTANTS
  None = None
  Arrays <- MCArrays
  Start <- MCStart
  Requests <- LastAxisRequests
  MaxSteps = 1
SPECIFICATION Spec
INVARIANT
  SelectsAsPromised
CHECK_DEADLOCK FALSE
