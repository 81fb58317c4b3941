SPECIFICATION Spec
CONSTANTS
  Stream = {"depth"}
  Temperatures = "temp"
  NoStream = "none"
  Window = 2
  Rate = 1
  Period = 1
  Late = 0
  MaxFrames = 1
  Leaf <- Leaves
  Group = {"g"}
  Kind <- Kinds
  Matches <- MatchesOf
  Timeout <- Timeouts
  DiscardStale <- Discarding
  NumItems <- Expected
  Members <- MembersOf
  Early <- EarlyOf
  Other = "other"
  OtherTimeout = 2
  OtherAsErrors = FALSE
  Critical = TRUE
  BasePath = TRUE
  Config <- Configs
  PubPeriod = 1
  PubLate = 0
  NotCached = NotCached
  MaxInputs = 4
INVARIANTS
  TypeOK
  TasksAlive
  Routed
  SilenceShown
CHECK_DEADLOCK FALSE
