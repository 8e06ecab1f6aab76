CONSTANTS
  t1 = t1  t2 = t2  t3 = t3  w = w
  Task <- MCTask
  NumPriorityLevels = 3
  WaitQ <- MCWaitQ
  NULL = NULL
  InversionFree = FALSE
SPECIFICATION Spec
SYMMETRY TaskSymmetry
INVARIANT TopPriorityRuns
CHECK_DEADLOCK FALSE
