SPECIFICATION Spec
CONSTANTS
  Lacing = 2
  PageSegments = 2
  Serial = 7
  FakeBody = 2
  Nominal = 1
  MinPackets = 1
  Foreign = 8
  MaxPackets = 3
  Lengths <- MCLengths
  Granules <- MCGranules
  MaxFaults = 2
INVARIANT TypeOK
INVARIANT OnlyDamagedAreLost
INVARIANT MarksAreOwn
PROPERTY NoPageOverrun
PROPERTY ImplementsPacketStream
CHECK_DEADLOCK FALSE
