SPECIFICATION EncodingSpec
CONSTANTS
  Sizes <- AllSizes
  MaxFrames = 8
INVARIANTS LoopsUntilAudioEnds
CHECK_DEADLOCK FALSE
