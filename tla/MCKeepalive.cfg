SPECIFICATION Spec
CONSTANTS
  a1 = a1
  a2 = a2
  UID <- OneClient
  Addr <- TwoAddrs
  DEF_EXPIRATION_SEC = 3
  TicksPerSec = 1
  MaxLag = 0
  DEF_PING_TIMEOUT = 2
  MaxDelay = 1
  MaxFaults = 3
INVARIANT TypeOK
INVARIANT Available
INVARIANT ForgetsStopped
INVARIANT FollowsMove
INVARIANT OwnAddress
INVARIANT RecoversInTime
PROPERTY Recovers
