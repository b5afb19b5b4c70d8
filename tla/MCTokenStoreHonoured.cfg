SPECIFICATION Spec
CONSTANTS
  Tunnels = {t0}
  BootTunnel = t0
  BootToken = tnl
  NewTokens = {k1, k2}
  NoToken = noToken
  NoTunnel = noTunnel
  Requests = {r1}
  Grace = 1
  Day = 2
  Year = 4
  MaxTime = 0
INVARIANTS
  TokensHonoured
CHECK_DEADLOCK FALSE
