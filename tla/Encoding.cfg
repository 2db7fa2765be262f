SPECIFICATION EncodingSpec
CONSTANTS
  Sizes <- AllSizes
  MaxFrames = 8
INVARIANTS EncodingTypeOK FirstNearest Stable VideoShown
CHECK_DEADLOCK FALSE
