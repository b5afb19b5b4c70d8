SPECIFICATION Spec
CONSTANTS
  Conns = {c1}
  Garbled = garbled
  Window = 2
  ReadMax = 2
  MaxUp = 3
  MaxDown = 1
  MaxSessions = 1
INVARIANTS
  NoByteDropped
CHECK_DEADLOCK FALSE
