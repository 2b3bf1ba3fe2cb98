CONSTANTS
  a = a
  b = b
  c = c
  d = d
  Callbacks = {a, b, c, d}
  Firers = {f, g}
  Nobody = Nobody
  Later <- LaterBC
SPECIFICATION FairSimulation
INVARIANTS TypeOK OnePlace NoStragglers
PROPERTIES ImplementsOneShot CallbacksAwaited CallsReturn
CHECK_DEADLOCK FALSE
