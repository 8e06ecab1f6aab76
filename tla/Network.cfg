CONSTANTS
  a = a  b = b
  NumRecv = 2  NumXmit = 2  MaxFrames = 4
  Careful = TRUE
SPECIFICATION NetworkSpec
INVARIANTS StreamInOrder NothingForgotten FramesAndDatagramsWhole FramesInOrder
CHECK_DEADLOCK FALSE
