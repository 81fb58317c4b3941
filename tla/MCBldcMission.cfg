SPECIFICATION FairSpec
CONSTANTS
  w1 = w1
  Wheel = {w1}
  Messages <- TypedHost
  RxSize = 1
  Lossy = TRUE
  BufSize = 4
  ClockMod = 6
  ControlPeriod = 2
  MoveTimeout = 2
  DoneHold = 2
  MaxPass = 1
INVARIANTS
  TypeOK
  MoveBounded
PROPERTIES
  TimeoutNotEarly
  DoneNotBeforeHold
  MoveEnds
