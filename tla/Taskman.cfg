CONSTANTS
  t1 = t1  t2 = t2  t3 = t3  w = w
  Task <- MCTask
  NumPriorityLevels = 2
  WaitQ <- MCWaitQ
  NULL = NULL
  InversionFree = TRUE
SPECIFICATION RingFairSpec
INVARIANTS OnOneQueue RunningIsHead TopPriorityRuns PendingCoversReady
INVARIANTS WaitersSorted RingsMatch
PROPERTIES WakesBestWaiter SchedSpec RoundRobin
CHECK_DEADLOCK FALSE
