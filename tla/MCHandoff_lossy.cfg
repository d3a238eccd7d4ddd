CONSTANTS
  p1 = p1  c1 = c1  c2 = c2
  k1 = k1  x1 = x1
  Keys = {k1}
  Procs = {p1, c1, c2}
  Extents = {x1}
  ReceiptLimit = 2
  LastToken = 4
  Producers = {p1}
  Consumers = {c1, c2}
SPECIFICATION Spec
SYMMETRY ReadersSymmetry
INVARIANTS
  StoreTypeOK
  ReadableIsWhole
  OneConsumer
  AckCanBeRetried
  LeaseBacked
  EngineGivesBack
CHECK_DEADLOCK FALSE
