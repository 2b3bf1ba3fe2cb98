CONSTANTS
  Callbacks = {a, b, c}
  Firers = {f, g}
  Nobody = Nobody
SPECIFICATION FairSpec
PROPERTY ImplementsOneShot
CHECK_DEADLOCK FALSE
