CONSTANTS
  m1 = m1
  m2 = m2
  c1 = c1
  c2 = c2
  c3 = c3
  Kinds <- AllKinds
  Gens = {m1, m2}
  Callers = {c1, c2, c3}
  GenOf <- TwoShareOne
  dc <- SameDc
  mac <- TwoMacs
  MaxDc = 1
  MaxMac = 1
  maxseq = 1
  CallsOf <- CallsOfEach
  MaxClock = 2
  MaxSkews = 1
SPECIFICATION FairSpec
INVARIANTS TypeOK UniqueUntilRewound
PROPERTIES ImplementsFreshIDs StateAdvances CallsReturn
CHECK_DEADLOCK FALSE
