SPECIFICATION Spec
CONSTANTS
  Base = 32
  LittleEndian = TRUE
  MaxData = 1024
  ByteBits = 2
  V4Bytes = 2
  V6Bytes = 3
  Unparsed = unparsed
  NoPrefix = noPrefix
  BadPrefix = badPrefix
  Second = 2
  DefaultRate = 1
  DefaultBurst = 2
  FallbackRate = 3
  FallbackBurst = 3
  Frames <- SomeFrames
  MuxSends <- SomeMuxSends
  Flows <- SomeFlows
  Replies <- SomeReplies
  Clients <- SomeClients
  Calls <- SomeCalls
  Requests <- SomeRequests
  Loads <- SomeLoads
INVARIANTS
  FramesReadBack
  AgentReadsFrames
  AllowlistExact
  RateHonoured
  RequestsDecided
  CertificateFresh
