SPECIFICATION Spec
CONSTANTS
  Thread = {1, 2}
  Required = 3
  Interval = 4
  Message <- Messages
  Sine <- WheelSine
  Cosine <- WheelCosine
  PwmMax = 2
  PwmRef = 4
  Call = {1, 2}
  Timer = {1, 2}
  NoTimer = 0
  StopAfter = 1
  Depth = 2
  WireSize = 3
  MaxWheelCmd = 2
  MinEffectiveCmd = 2
  IntMod = 8
  BenchLines <- MonitorLines
  MaxLag = 1
INVARIANTS
  TypeOK
  OneArming
  RestsInTime
  CarriesOut
PROPERTIES
  NoCaptureLost
  EnterArms
