SPECIFICATION Spec
CONSTANTS
  Stream = {"depth", "color"}
  NumSensors = 2
  SensorOf <- SensorOfStream
  Supported <- Profiles
  Settings <- UserSettings
  Overrides <- GivenAtLaunch
  Aligned = {"color"}
  LaunchEnabled = {"depth", "color"}
  LaunchAlign = TRUE
  LaunchOther = TRUE
  InitialReset = TRUE
  MaxInputs = 2
CHECK_DEADLOCK FALSE
INVARIANTS
  TypeOK
  ServesWanted
  InvalidReverted
PROPERTIES
  ChangesApplied
  Reconnects
