SPECIFICATION Spec
CONSTANTS
  w1 = w1
  Wheel = {w1}
  Messages <- NoNewlineHost
  RxSize = 2
  Lossy = FALSE
  BufSize = 8
  ClockMod = 1
  ControlPeriod = 0
  MoveTimeout = 0
  DoneHold = 1
  MaxPass = 0
PROPERTIES
  StopHonoured
