SPECIFICATION Spec
CONSTANTS
  None = None
  Meta = Meta
  Orders <- MCOrders
  Endings <- MCEndings
  Lists <- MCLists
  Renamings <- FreshNames
  RenameTaken = FALSE
  ReorderTitled = FALSE
  MaxDescrs = 6
  MaxHeld = 1
  MaxSteps = 4
CHECK_DEADLOCK FALSE
INVARIANTS TypeOK RefsExact FieldsAsPromised
PROPERTY ByteorderThroughout
