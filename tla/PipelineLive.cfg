CONSTANTS
  j1 = j1
  j2 = j2
  w1 = w1
  w2 = w2
  Jobs = {j1, j2}
  Workers = {w1, w2}
  Media <- VideoAndRejected
  ApiBucket = "uploads"
  MaxFaults = 2
SPECIFICATION FairSpec
INVARIANTS
  AtMostOnce
  IInv
PROPERTIES
  ImplementsLifecycle
  CommandEnds
  TasksEnd
  GoodJobsDelivered
CHECK_DEADLOCK FALSE
