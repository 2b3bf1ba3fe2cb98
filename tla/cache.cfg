CONSTANTS
  Keys = {k1, k2}
  TTLs = {0, 2}
  CheckDuration = 2
  ChanCap = 1
  Horizon = 4
  MaxRewind = 1
  MaxSets = 3
  Absent = Absent
SPECIFICATION FairSpec
INVARIANTS TypeOK NoKeyForgotten
PROPERTIES LiveEntryKept ExpiredKeysRemoved SetReturns
