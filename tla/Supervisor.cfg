SPECIFICATION FairSpec
CONSTANTS
  BackoffBase = 1
  BackoffMax = 4
  HeartbeatMax = 1
  StateTTL = 2
  PingEvery = 2
  PingTimeout = 1
  BridgeTries = 2
  SuspendAfter = 7
  NoCopy = NoCopy
INVARIANTS EndpointsTruthful StaysAwake
PROPERTY EngineReturns
