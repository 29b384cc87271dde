\* reduceat of no index into an array of the caller.
CONSTANTS
  None = None
  Jobs <- EmptyJobs
  Garbage <- MCGarbage
SPECIFICATION Spec
INVARIANT
  EmptyReduceatReturns
