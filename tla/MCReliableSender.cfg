SPECIFICATION FairSpec
CONSTANTS
  MaxPending = 2
  CacheLimit = 2
  ResendAfter = 2
  MaxAttempts = 3
  SplitSpace = 2
  IndexSpace = 12
  FragmentCounts <- MCFragmentCounts
  MaxMessages = 2
  UnreliableBelow = 1
INVARIANTS
  TypeOK
  NoFalseRelease
  AnyCopyReleases
  RetryBudget
  FragmentsTogether
PROPERTIES
  ChannelSpec
  EveryFrameSettles
CHECK_DEADLOCK FALSE
