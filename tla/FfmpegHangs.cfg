CONSTANTS
  j1 = j1
  j2 = j2
  w1 = w1
  w2 = w2
  Jobs = {j1}
  Workers = {w1}
  Media <- OneVideo
  ApiBucket = "uploads"
  MaxFaults = 0
SPECIFICATION FairExceptFfmpeg
PROPERTY ProcessingTimesOut
CHECK_DEADLOCK FALSE
