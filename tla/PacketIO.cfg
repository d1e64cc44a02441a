SPECIFICATION MCSpec
CONSTANTS
  w1 = w1  w2 = w2  c1 = c1  c2 = c2
  Platforms = {"darwin", "freebsd", "openbsd", "windows", "channel"}
  Writers = {w1, w2}
  Closers = {c1, c2}
  MaxBatch = 2
  RingCap = 2
  MaxOffered = 2
  MaxErrors = 1
INVARIANTS WriteInv ReadsLoseNothing PanicsAreMisuse
PROPERTIES CloseUnblocks StreamSpec
CHECK_DEADLOCK FALSE
