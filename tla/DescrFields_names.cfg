SPECIFICATION Spec
CONSTANTS
  None = None
  Meta = Meta
  Orders <- MCOrders
  Endings <- MCEndings
  Lists <- OneList
  Renamings <- Permuted
  RenameTaken = TRUE
  ReorderTitled = FALSE
  MaxDescrs = 6
  MaxHeld = 1
  MaxSteps = 4
CHECK_DEADLOCK FALSE
INVARIANT FieldsAsPromised
