\* put to an array that is not writeable.
CONSTANTS
  None = None
  Arrays <- MCArrays
  Start <- MCStart
  Requests <- ReadOnlyRequests
  MaxSteps = 2
SPECIFICATION Spec
PROPERTY
  ReadOnlyKept
CHECK_DEADLOCK FALSE
