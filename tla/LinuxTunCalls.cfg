SPECIFICATION CallsSpec
CONSTANTS
  c1 = c1  c2 = c2  r1 = r1  r2 = r2
  Closers = {c1, c2}
  Readers = {r1, r2}
  EventCap = 1
  ErrorCap = 1
  QueueCap = 1
  MsgsPerDatagram = 1
  MaxChanges = 1
  MaxPackets = 1
PROPERTIES CloseReturns ReadersReturn CloseReleasesAll
CHECK_DEADLOCK FALSE
