CONSTANTS
  slice = slice  uart = uart  mask = mask
  nap1 = nap1  nap2 = nap2  shot = shot  poll = poll
  NULL = NULL
  Timer <- MCTimerPoll
  timeout <- MCTimeoutPoll
  Periodic <- MCPeriodicPoll
  Maskable <- MCNone
  Sleeper <- MCNone
  LatchMax = 7
  Careful = FALSE
SPECIFICATION Spec
INVARIANT OnTime
