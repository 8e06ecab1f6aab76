CONSTANTS
  N = 8
  Profile <- MCAnyClient
  Data = Data
  NotHeld = NotHeld
SPECIFICATION Spec
INVARIANT PrevSizeHolds
CHECK_DEADLOCK FALSE
