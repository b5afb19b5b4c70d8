SPECIFICATION Spec
CONSTANTS
  Tunnels = {t0}
  BootTunnel = t0
  BootToken = tnl
  NewTokens = {k1, k2}
  NoToken = noToken
  NoTunnel = noTunnel
  Requests = {r1, r2}
  Grace = 1
  Day = 2
  Year = 4
  MaxTime = 3
INVARIANTS
  TypeOK
  OneNamePerToken
  ListedKeepsNewest
PROPERTIES
  RefusedStaysRefused
  ImplementsLedger
CHECK_DEADLOCK FALSE
