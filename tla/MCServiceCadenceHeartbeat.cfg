SPECIFICATION FairSpec
CONSTANTS
  Configured <- MCConfigured
  Interval <- MCInterval
  Delay <- MCDelay
  ReceiveInterval = 2
  Gate = 4
PROPERTIES
  HeartbeatMaintained
CHECK_DEADLOCK FALSE
