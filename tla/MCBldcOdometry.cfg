SPECIFICATION OdometrySpec
CONSTANTS
  NumWheels = 2
  Half = 2
  MaxSeen = 2
INVARIANTS
  EveryPulseCounted
