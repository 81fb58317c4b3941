SPECIFICATION Spec
CONSTANTS
  Modes = {"da"}
  Commands = {}
  Targets <- OneTarget
  MaxPwm = 1
  IoPeriod = 1
  IoLate = 1
  Timeout = 2
  Reconnect = 3
  WireSize = 1
  CmdAgeCap = 3
  RestAgeCap = 3
INVARIANT
  StopDelivered
