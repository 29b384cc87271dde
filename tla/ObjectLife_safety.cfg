CONSTANTS
  Obj = {o1, o2, o3}
  Thread = {t1, t2}
  Handle = {h1, h2, h3, h4}
  NoObj = NoObj
  NoHandle = NoHandle
SPECIFICATION FairSpec
INVARIANTS
  TypeOK
  RefcntExact
  HandlesExact
  DerefIsCurrent
PROPERTY EventuallyFreed
CHECK_DEADLOCK FALSE
