CONSTANTS
  Array = {a}
  Copy = {c1, c2}
  Value = {v, w}
  Kinds = {"put", "putmask", "argmax", "take"}
  NoArray = NoArray
  NoCopy = NoCopy
SPECIFICATION FairSpec
INVARIANTS
  TypeOK
  WriteBackOnce
  LockHasHolder
PROPERTY EventuallyUnlocked
CHECK_DEADLOCK FALSE
