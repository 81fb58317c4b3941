SPECIFICATION RobotSpec
CONSTANTS
  Lines <- AnyHost
  RxSize = 2
  Modes = {"raw_wheels"}
  Commands <- OneCommand
  Targets = {}
  IoPeriod = 1
  IoLate = 1
  Timeout = 1
  Reconnect = 5
  CmdAgeCap = 2
  RestAgeCap = 9
  IntMod = 8
  MaxPwm = 2
  DefaultPwm = 1
  DefaultPulse = 1
  MinPulse = 1
  MaxPulse = 2
  Watchdog = 1
  ClockMod = 3
  MaxPass = 1
INVARIANTS
  RunBounded
  PulseFollowsKinematics
  WheelsRest
