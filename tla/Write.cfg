SPECIFICATION MCSpec
CONSTANTS
  f = f  g = g  h = h  q = q
  Flow = {f, g, h, q}
  Packet <- AllPackets
  SeqSpace = 16
  LenSpace = 8
  HdrLen = 2
  PoolSize = 4
  MaxBatch = 4
  MaxWrites = 2
SYMMETRY FlowSymmetry
INVARIANTS TypeOK MergesUndone EveryPacketOnce HeadersFit RoundTrips UdpMergeableOrder
           PoolsConserved PoolsLast
CHECK_DEADLOCK FALSE
