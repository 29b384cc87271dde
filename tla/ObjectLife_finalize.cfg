CONSTANTS
  Obj = {o1, o2}
  Thread = {t1, t2}
  Handle = {h1, h2, h3}
  NoObj = NoObj
  NoHandle = NoHandle
SPECIFICATION Spec
INVARIANT FinalizerSeesLiveCore
CHECK_DEADLOCK FALSE
