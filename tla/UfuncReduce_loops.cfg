\* Reductions of ten arrays by every loop, with buffers of one to nine elements.
CONSTANTS
  None = None
  Jobs <- MCJobs
  Garbage <- MCGarbage
SPECIFICATION Spec
INVARIANTS
  TypeOK
  CallAsPromised
  ReferencesKept
PROPERTY
  Advances
