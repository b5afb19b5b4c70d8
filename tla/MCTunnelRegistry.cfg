SPECIFICATION Spec
CONSTANTS
  Tunnels = {t1, t2}
  Configs = {c1, c2, bad}
  Invalid = {bad}
  Callers = {caller}
  Backup = backup
  Ttl = 0
  MaxTime = 1
SYMMETRY TunnelSymmetry
INVARIANTS
  BackupWhole
CHECK_DEADLOCK FALSE
