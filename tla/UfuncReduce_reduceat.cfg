\* reduceat by its buffered loop, for ufuncs without an identity on the left.
CONSTANTS
  None = None
  Jobs <- ReduceatJobs
  Garbage <- MCGarbage
SPECIFICATION Spec
INVARIANT
  ReduceatReduces
