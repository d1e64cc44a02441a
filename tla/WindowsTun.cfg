SPECIFICATION FairSpec
CONSTANTS
  c1 = c1  c2 = c2  r1 = r1  u1 = u1  f1 = f1
  Readers = {r1}
  Users = {u1}
  Forcers = {f1}
  Closers = {c1, c2}
  MTUs = {1, 2}
  EventCap = 1
  RingCap = 1
INVARIANTS SessionSafe MTUInv
PROPERTIES StreamSpec CloseEnds ReadsReturn
CHECK_DEADLOCK FALSE
