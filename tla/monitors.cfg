CONSTANTS
  u1 = u1
  u2 = u2
  u3 = u3
  e1 = e1
  e2 = e2
  h1 = h1
  h2 = h2
  h3 = h3
  h4 = h4
  o1 = o1
  o2 = o2
  p1 = p1
  p2 = p2
  c1 = c1
  c2 = c2
  Users = {u1, u2, u3}
  Events = {e1, e2}
  IdOf <- Ids3
  Nesting = {u3}
  CallsOf <- CallsOfEach
  Hs = {h1, h2, h3, h4}
  Os = {o1, o2}
  Producers = {p1, p2}
  Consumers = {c1, c2}
  queueCalls <- QueueCalls
  capacity = 2
  length = 16
SPECIFICATION FairSpec
INVARIANTS AllTypesOK KeptApart NoLostWakeup RightOrder
PROPERTIES EventsGoFirst RequestsServed
CHECK_DEADLOCK FALSE
