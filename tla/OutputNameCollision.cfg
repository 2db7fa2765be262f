CONSTANTS
  j1 = j1
  j2 = j2
  w1 = w1
  w2 = w2
  Jobs = {j1}
  Workers = {w1}
  Media <- OneNamedOutput
  ApiBucket = "uploads"
  MaxFaults = 0
SPECIFICATION Spec
INVARIANT AudioReplaced
CHECK_DEADLOCK FALSE
