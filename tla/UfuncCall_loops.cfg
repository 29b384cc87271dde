\* Calls on one or two arrays by every loop, with buffers of two to nine elements.
CONSTANTS
  None = None
  Jobs <- MCJobs
  ScalarSlots = 2
SPECIFICATION Spec
INVARIANTS
  TypeOK
  CallAsPromised
  ReferencesKept
