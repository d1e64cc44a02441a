SPECIFICATION Spec
CONSTANTS
  f = f  g = g  h = h  q = q
  Flow = {f, g, h, q}
  Packet <- MixedPackets
  SeqSpace = 16
  LenSpace = 8
  HdrLen = 2
  PoolSize = 3
  MaxBatch = 3
  MaxWrites = 1
INVARIANT UdpFlowOrder
CHECK_DEADLOCK FALSE
