SPECIFICATION ConsumerSpec
CONSTANTS
  c1 = c1  c2 = c2  n1 = n1
  Platforms = {"darwin", "freebsd", "openbsd"}
  Closers = {c1}
  Namers = {n1}
  EventCap = 1
  ErrorCap = 1
  QueueCap = 1
  MaxChanges = 2
INVARIANTS DestroyInv
PROPERTIES StreamSpec CloseEndsStream StateReported
CHECK_DEADLOCK FALSE
