CONSTANTS
  Keys = {k1}
  TTLs = {2}
  CheckDuration = 2
  ChanCap = 1
  Horizon = 3
  MaxRewind = 0
  MaxSets = 1
  Absent = Absent
SPECIFICATION Spec
INVARIANT GetMissesAfterTTL
