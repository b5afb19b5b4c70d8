SPECIFICATION FairSpec
CONSTANTS
  t1 = t1
  t2 = t2
  c1 = c1
  c2 = c2
  NoConn = NoConn
  NoTunnel = NoTunnel
  Tunnels <- TwoTunnels
  BootTunnels <- OneTunnel
  Conns <- TwoConns
  MaxAgents = 1
  MayStop = TRUE
CHECK_DEADLOCK FALSE
INVARIANTS
  TypeOK
  CapacityRespected
  NoStaleEntry
  HandshakeOrder
  DeadEntryLeaving
PROPERTIES
  DeadAgentLeaves
  HandshakeDecides
  ImplementsDirectory
