\* Two requests after each other of all kinds.
CONSTANTS
  None = None
  Arrays <- MCArrays
  Start <- MCStart
  Requests <- MCRequests
  MaxSteps = 2
SPECIFICATION Spec
INVARIANT
  TypeOK
  SelectsAsPromised
PROPERTY
  ReadOnlyKept
CHECK_DEADLOCK FALSE
