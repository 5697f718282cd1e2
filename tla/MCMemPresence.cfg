SPECIFICATION Spec
CONSTANTS
  a1 = a1
  a2 = a2
  UID <- MCUID
  Addr <- MCAddr
  DEF_EXPIRATION_SEC = 1
  TicksPerSec = 2
  MaxLag = 1
  NoAddr = NoAddr
  NoAnswer = NoAnswer
  MaxClock = 5
INVARIANT TypeOK
PROPERTY ImplementsRegistry
PROPERTY SweepHalves
