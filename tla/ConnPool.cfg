SPECIFICATION Spec
CONSTANTS
  Goroutine = {g1, g2, g3}
  Long = {g1}
  Conn = {c1, c2}
  NoConn = NoConn
  MaxIdle = 1
SYMMETRY Symmetric
INVARIANTS
  BadConnOnlyWhenPinned
  RepeatedOnlyWhenTorn
