SPECIFICATION Spec
CONSTANTS
  Node = {n1}
  Entry = entry
  Stream = {s1, s2, s3}
  Stmt = {a, b, c}
  NoBaton = NoBaton
  NoUrl = NoUrl
  NoReply = NoReply
  NotIssued = NotIssued
  KeepIdle = {FALSE}
  StepFails = {FALSE, TRUE}
  Chunks = 2
  MaxSessions = 1
  MaxTx = 1
  MaxReqs = 6
  MaxFaults = 0
SYMMETRY Symmetry
INVARIANTS
  ChunkedExecIsAtomic
