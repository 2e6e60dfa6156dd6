----------------------------- MODULE MCHranaConn -----------------------------
(* HranaConn on small instances.  Nodes, streams and statements are         *)
(* interchangeable, and the properties checked here are invariants.         *)
EXTENDS HranaConn, TLC

Symmetry == Permutations(Node) \cup Permutations(Stream) \cup Permutations(Stmt)
=============================================================================
