CONSTANTS
  Thread = {t1, t2, t3}
  Arr = {a, b}
  Iterated = a
  Handle = {h1, h2, h3, h4}
  NoThread = NoThread
  NoHandle = NoHandle
  MaxOwned = 1
SPECIFICATION Spec
SYMMETRY Symmetry
INVARIANTS
  TypeOK
  OwnerSeesStrongHandle
  OneIteratorWrapper
  NoLostCount
PROPERTY AtomicRefcount
CHECK_DEADLOCK FALSE
