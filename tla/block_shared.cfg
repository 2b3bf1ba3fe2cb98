CONSTANTS
  g = g
  t1 = t1
  t2 = t2
  t3 = t3
  Generators = {g}
  Threads = {t1, t2, t3}
  GenOf <- AllShare
  CallsOf <- TwoCalls
  blkSize = 2
SPECIFICATION Spec
INVARIANTS UniqueIDs
CHECK_DEADLOCK FALSE
