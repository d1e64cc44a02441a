SPECIFICATION Spec
CONSTANTS
  c1 = c1  c2 = c2  r1 = r1  r2 = r2
  Closers = {c1, c2}
  Readers = {}
  EventCap = 2
  ErrorCap = 1
  QueueCap = 1
  MsgsPerDatagram = 2
  MaxChanges = 2
  MaxPackets = 1
SYMMETRY CallerSymmetry
INVARIANTS TypeOK NoPanic CancelIsSilent SockClosedOnce
PROPERTY StreamSpec
CHECK_DEADLOCK FALSE
