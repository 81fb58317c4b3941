SPECIFICATION Spec
CONSTANTS
  NumWheels = 2
  MaxWheelCmd = 4
  MinEffectiveCmd = 2
  BrakeWhenStopped = TRUE
  Requests <- MCRequests
INVARIANTS
  SettledBetweenCalls
  EnabledAsRequested
PROPERTIES
  NeverSwitchesEnergised
  StopReachesEveryWheel
