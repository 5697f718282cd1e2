SPECIFICATION Spec
CONSTANTS
  N = 3
  Base = 2
  Dashes <- MCDashes
  MaxText = 8
INVARIANTS
  TypeOK
  ParsesPairs
  RoundTrip
