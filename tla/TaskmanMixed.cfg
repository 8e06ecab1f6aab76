CONSTANTS
  t1 = t1  t2 = t2  t3 = t3  w = w
  Task <- MCTask
  NumPriorityLevels = 3
  WaitQ <- MCWaitQ
  NULL = NULL
  InversionFree = TRUE
SPECIFICATION Spec
PROPERTY SharingMasked
CHECK_DEADLOCK FALSE
