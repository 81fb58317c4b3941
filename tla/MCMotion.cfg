SPECIFICATION MotionSpec
CONSTANTS
  Modes = {"da", "raw_wheels"}
  Commands <- AimCommands
  Targets = {0}
  MaxPwm = 3
  IoPeriod = 1
  IoLate = 1
  Timeout = 2
  Reconnect = 2
  WireSize = 1
  CmdAgeCap = 3
  RestAgeCap = 3
  Aims <- TwoAims
  MaxBody <- Limits
  Unit = 2
  MaxCmd = 3
  ControlPeriod = 1
  ControlLate = 0
  AimTimeout = 1
  StaleAgeCap = 5
INVARIANTS
  StopsInTime
  HeadingKept
  StaleTargetStops
