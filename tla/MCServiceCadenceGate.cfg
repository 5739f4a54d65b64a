SPECIFICATION Spec
CONSTANTS
  Configured <- MCConfigured
  Interval <- MCInterval
  Delay <- MCDelay
  ReceiveInterval = 2
  Gate = 4
INVARIANTS
  HeartbeatGateHonest
CHECK_DEADLOCK FALSE
