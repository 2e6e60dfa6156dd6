SPECIFICATION Spec
CONSTANTS
  Goroutine = {g1}
  Long = {g1}
  Conn = {c1}
  NoConn = NoConn
  MaxIdle = 1
INVARIANTS
  ExecutedAtMostOnce
