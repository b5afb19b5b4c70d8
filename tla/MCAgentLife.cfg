SPECIFICATION Spec
CONSTANTS
  Streams <- MCStreams
  FirstStream = 1
  Interval = 1
  Timeout = 2
  InitialDelay = 1
  MaxDelay = 4
  MaxSessions = 3
INVARIANTS
  TypeOK
  Attended
  NoUseAfterStop
  GivesUpOnlySilent
PROPERTIES
  LossNoticed
  SilenceEnds
  SignalObeyed
CHECK_DEADLOCK FALSE
