SPECIFICATION Spec
CONSTANTS
  Proc = {p1, p2}
  NoProc = NoProc
INVARIANTS
  TypeOK
  OneReceiver
  FailureIsTold
PROPERTY
  ServesOrEnds
