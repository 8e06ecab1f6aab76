CONSTANTS
  slice = slice  uart = uart  mask = mask
  nap1 = nap1  nap2 = nap2  shot = shot  poll = poll
  NULL = NULL
  Timer <- MCTimer
  timeout <- MCTimeout
  Periodic <- MCPeriodic
  Maskable <- MCMaskable
  Sleeper <- MCSleeper
  LatchMax = 3
  Careful = TRUE
SPECIFICATION FairSpec
INVARIANTS ListSorted OnTime NoSleeperForgotten
PROPERTIES KeepsFiring SleepEnds
