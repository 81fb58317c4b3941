SPECIFICATION RemoteSpec
CONSTANTS
  c1 = c1
  c2 = c2
  Camera = {c1, c2}
  SafetyCamera = {c2}
  Streaming = {c1}
  Scripts <- MCScripts
  MaxRequests = 3
  MaxDrops = 2
  MaxInputs = 3
INVARIANTS
  RemoteTypeOK
  FrameKept
PROPERTIES
  RepliesOnce
  AbortReaches
  RequestsAnswered
CHECK_DEADLOCK FALSE
