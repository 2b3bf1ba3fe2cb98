CONSTANTS
  t1 = t1
  t2 = t2
  t3 = t3
  c1 = c1
  c2 = c2
  Threads = {t1, t2}
  Clients = {c1, c2}
  ClientOf <- SharedPair
  Closers = {}
  InitToken = 2
  RefilToken = 1
  Calls = 1
  MaxTicks = 1
  NoBucket = NoBucket
SPECIFICATION Spec
INVARIANT NoPanic
CHECK_DEADLOCK FALSE
