SPECIFICATION FairSpec
CONSTANTS
  r1 = r1
  r2 = r2
  Io = Io
  NoReq = NoReq
  NoReply = NoReply
  Reqs <- TwoRequests
  MaxSecond = 2
  PerSecond = 1
  MayGoaway = TRUE
CHECK_DEADLOCK FALSE
INVARIANTS
  TypeOK
  AnsweredOnce
  CallbackOnce
  OwnReply
  Reachable
PROPERTIES
  EveryRequestAnswered
  ImplementsReply
