CONSTANTS
  c1 = c1
  c2 = c2
  c3 = c3
  m1 = m1
  m2 = m2
  Callers = {c1, c2, c3}
  CallsOf <- CallsOfEach
  workerCalls <- FewerCalls
  batch = 2
  doubleBatch = 4
  queueCapacity = 1
  MaxFaults = 1
  Machines = {m1, m2}
  On <- OnEach
  chunk = 2
  Pool = {0, 1, 2, 3}
SPECIFICATION FairSpec
INVARIANTS TypeOK FillsApart
PROPERTIES ImplementsFreshIDs CallsReturn QuietAfterClose
CHECK_DEADLOCK FALSE
