\* choose fails before it has looked at its output array.
CONSTANTS
  None = None
  Arrays <- MCArrays
  Start <- MCStart
  Requests <- OutputRequests
  MaxSteps = 1
SPECIFICATION Spec
INVARIANT
  OutputsReferenced
CHECK_DEADLOCK FALSE
