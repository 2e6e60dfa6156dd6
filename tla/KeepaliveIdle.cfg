SPECIFICATION Spec
CONSTANTS
  Caller = {p1}
  Closer = {c1}
  Interval = 4
  Late = 1
  TouchLimit = 4
INVARIANTS
  TouchedOnceIdle
