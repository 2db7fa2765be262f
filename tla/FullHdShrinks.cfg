SPECIFICATION EncodingSpec
CONSTANTS
  Sizes <- AllSizes
  MaxFrames = 8
INVARIANTS StandardSizesKept
CHECK_DEADLOCK FALSE
