CONSTANTS
  a = a  b = b  x = x  y = y  t = t  u = u
  a1 = a1  a2 = a2  b1 = b1  b2 = b2
  v1 = v1  v2 = v2  w1 = w1
  Table <- MCTable
  Name <- MCName
  Datum <- MCDatum
  KeyPtr <- MCKeyPtr
  ValPtr <- MCValPtr
  NameOf <- MCNameOf
  DatumOf <- MCDatumOf
  HashOf <- MCHashOf
  InitialBuckets = {1, 7}
  IdealRatio = 100
  LowerThreshold = 50
  UpperThreshold = 150
  NoDatum = NoDatum
  NoMap = NoMap
  MaxMerges = 1
SPECIFICATION Spec
SYMMETRY Symmetry
INVARIANTS
  TypeOK
  OwnedOnce
  NothingHidden
PROPERTY ImplementsMap
