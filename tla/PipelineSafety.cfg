CONSTANTS
  j1 = j1
  j2 = j2
  w1 = w1
  w2 = w2
  Jobs = {j1, j2}
  Workers = {w1}
  Media <- ImageAndRefused
  ApiBucket = "uploads"
  MaxFaults = 1
SPECIFICATION Spec
INVARIANTS
  InputsBeforeMessage
  ReadyMeansEncoded
  AcceptedIsKept
  TmpOwned
CHECK_DEADLOCK FALSE
