SPECIFICATION FairSpec
CONSTANTS
  t1 = t1
  t2 = t2
  c1 = c1
  c2 = c2
  NoConn = NoConn
  NoTunnel = NoTunnel
  Tunnels <- OneTunnel
  BootTunnels <- OneTunnel
  Conns <- OneConn
  MaxAgents = 1
  MayStop = TRUE
CHECK_DEADLOCK FALSE
PROPERTIES
  ShutdownCompletes
