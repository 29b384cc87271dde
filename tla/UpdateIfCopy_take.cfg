CONSTANTS
  Array = {a}
  Copy = {c1, c2}
  Value = {v, w}
  Kinds = {"take"}
  NoArray = NoArray
  NoCopy = NoCopy
SPECIFICATION Spec
INVARIANT ResultInOut
CHECK_DEADLOCK FALSE
