\* Numbers that are cast to objects in more than one row.
CONSTANTS
  None = None
  Jobs <- RowJobs
  ScalarSlots = 2
SPECIFICATION Spec
INVARIANT
  ReferencesKept
