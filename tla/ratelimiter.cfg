CONSTANTS
  t1 = t1
  t2 = t2
  t3 = t3
  c1 = c1
  c2 = c2
  Threads = {t1, t2, t3}
  Clients = {c1, c2}
  ClientOf <- SharedClient
  Closers = {t1}
  InitToken = 2
  RefilToken = 1
  Calls = 2
  MaxTicks = 2
  NoBucket = NoBucket
SPECIFICATION FairSpec
INVARIANTS TypeOK RateBound BurstBound MapMatchesBuckets
PROPERTIES NoGoroutineLeak
CHECK_DEADLOCK FALSE
