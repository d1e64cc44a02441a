SPECIFICATION ConsumerSpec
CONSTANTS
  c1 = c1  c2 = c2  r1 = r1  r2 = r2
  Closers = {c1}
  Readers = {}
  EventCap = 1
  ErrorCap = 1
  QueueCap = 2
  MsgsPerDatagram = 1
  MaxChanges = 2
  MaxPackets = 0
PROPERTY StableDownReported
CHECK_DEADLOCK FALSE
