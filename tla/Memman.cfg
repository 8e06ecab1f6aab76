CONSTANTS
  N = 8
  Profile <- MCProfile
  Data = Data
  NotHeld = NotHeld
SPECIFICATION Spec
INVARIANTS BlocksTile ClientsApart NoBlockLost CarefulLinksHold NeverStarves
CHECK_DEADLOCK FALSE
