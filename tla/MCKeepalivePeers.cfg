SPECIFICATION Spec
CONSTANTS
  a1 = a1
  a2 = a2
  UID <- TwoClients
  Addr <- TwoAddrs
  DEF_EXPIRATION_SEC = 3
  TicksPerSec = 1
  MaxLag = 0
  DEF_PING_TIMEOUT = 2
  MaxDelay = 0
  MaxFaults = 1
INVARIANT ForgetsOthers
PROPERTY Reclaims
