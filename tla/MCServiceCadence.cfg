SPECIFICATION Spec
CONSTANTS
  Configured <- MCConfigured
  Interval <- MCInterval
  Delay <- MCDelay
  ReceiveInterval = 2
  Gate = 4
INVARIANTS
  TypeOK
  PingKeepsPace
  KeepsPaceInQuiet
  ReportedWasObserved
CHECK_DEADLOCK FALSE
