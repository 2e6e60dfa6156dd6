SPECIFICATION Spec
CONSTANTS
  Caller = {p1, p2}
  Closer = {c1, c2}
  Interval = 4
  Late = 1
  TouchLimit = 9
INVARIANTS
  OneLoop
  ClosedIsQuiet
  IdleIsBounded
PROPERTIES
  CloseReturns
  OneOfTwoTicksTriesAgain
