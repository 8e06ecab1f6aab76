CONSTANTS
  t1 = t1  t2 = t2  t3 = t3  w = w
  Task <- MCTask
  NumPriorityLevels = 2
  WaitQ <- MCWaitQ
  NULL = NULL
  InversionFree = TRUE
SPECIFICATION RingSpec
SYMMETRY TaskSymmetry
INVARIANT NobodyLost
CHECK_DEADLOCK FALSE
