CONSTANTS
  g = g
  h = h
  i = i
  t1 = t1
  t2 = t2
  t3 = t3
  t4 = t4
  Generators = {g, h, i}
  Threads = {t1, t2, t3, t4}
  GenOf <- SafeSharing
  CallsOf <- SafeCalls
  blkSize = 2
  Callers = {1, 2, 3, 4, 5, 6}
  start = 7
SPECIFICATION DemosSpec
INVARIANTS TypeOK UniqueIDs CheckStillHolds RepeatsIffOvertaken
CHECK_DEADLOCK FALSE
