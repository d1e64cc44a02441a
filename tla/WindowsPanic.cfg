SPECIFICATION Spec
CONSTANTS
  c1 = c1  c2 = c2  r1 = r1  u1 = u1  f1 = f1
  Readers = {r1}
  Users = {}
  Forcers = {f1}
  Closers = {c1}
  MTUs = {1, 2}
  EventCap = 1
  RingCap = 1
INVARIANT NoPanic
CHECK_DEADLOCK FALSE
