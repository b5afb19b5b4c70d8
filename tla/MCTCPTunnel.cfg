SPECIFICATION Spec
CONSTANTS
  Conns = {c1}
  Garbled = garbled
  Window = 2
  ReadMax = 2
  MaxUp = 3
  MaxDown = 2
  MaxSessions = 2
INVARIANTS
  TypeOK
  ReaderAttached
  CounterCovers
  OneWindowOnly
PROPERTIES
  UpstreamInOrder
  DownstreamInOrder
  EndNoticed
CHECK_DEADLOCK FALSE
