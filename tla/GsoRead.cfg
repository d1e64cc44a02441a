SPECIFICATION Spec
CONSTANTS
  Radix = 4
  SeqSpace = 16
  IdSpace = 16
  Frame <- Frames
  Rooms <- AllRooms
  IdealBatchSize = 2
  MaxReads = 1
INVARIANTS BoundsInv AllOrNothing SplitComplete ChecksumsVerify
CHECK_DEADLOCK FALSE
