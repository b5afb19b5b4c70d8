SPECIFICATION Spec
CONSTANTS
  r1 = r1
  r2 = r2
  Io = Io
  NoReq = NoReq
  NoReply = NoReply
  Reqs <- TwoRequests
  MaxSecond = 2
  PerSecond = 2
  MayGoaway = FALSE
CHECK_DEADLOCK FALSE
INVARIANTS
  OwnReply
