SPECIFICATION Spec
CONSTANTS
  a1 = a1
  UID <- MCUID
  Addr <- MCAddr
  DEF_EXPIRATION_SEC = 1
  TicksPerSec = 1
  MaxLag = 1
  NoAddr = NoAddr
  NoAnswer = NoAnswer
  End = End
  MaxClock = 3
INVARIANT SweepOK
INVARIANT NeverHangs
PROPERTY EveryCallReturns
PROPERTY ImplementsMemPresence
PROPERTY TurnsRunOut
