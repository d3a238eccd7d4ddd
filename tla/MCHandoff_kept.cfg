CONSTANTS
  p1 = p1  c1 = c1  c2 = c2
  k1 = k1  x1 = x1
  Keys = {k1}
  Procs = {p1, c1}
  Extents = {x1}
  ReceiptLimit = 2
  LastToken = 3
  Producers = {p1}
  Consumers = {c1}
SPECIFICATION Spec
INVARIANT KeptMeansNotCommitted
CHECK_DEADLOCK FALSE
