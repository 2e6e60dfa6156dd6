----------------------------- MODULE MCConnPool -----------------------------
(* ConnPool on small instances.  Goroutines that execute short texts only   *)
(* are interchangeable, and so are connections; the properties checked here *)
(* are invariants.                                                          *)
EXTENDS ConnPool, TLC

Symmetric == Permutations(Goroutine \ Long) \cup Permutations(Conn)
=============================================================================
