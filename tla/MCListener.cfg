SPECIFICATION Spec
CONSTANTS
  c1 = c1
  p1 = p1
  UID <- MCUID
  Conn <- MCConn
  Peer <- MCPeer
  Addr <- MCAddr
  Owner <- MCOwner
  UDP = UDP
  Leftover = Leftover
  Unset = Unset
  NoAddr = NoAddr
  NoAnswer = NoAnswer
  DEF_EXPIRATION_SEC = 1
  TicksPerSec = 1
  MaxLag = 0
  SIZE_UID = 2
  MaxIn = 6
  MaxQueue = 1
INVARIANT TypeOK
INVARIANT Truthful
INVARIANT NoReplyLost
PROPERTY PingAnswered
PROPERTY HandlesFreed
PROPERTY CallbacksRunOut
