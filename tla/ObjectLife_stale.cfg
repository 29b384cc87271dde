CONSTANTS
  Obj = {o1, o2, o3}
  Thread = {t1, t2}
  Handle = {h1, h2, h3, h4}
  NoObj = NoObj
  NoHandle = NoHandle
SPECIFICATION Spec
INVARIANT InterfaceDataLive
CHECK_DEADLOCK FALSE
