SPECIFICATION Spec
CONSTANTS
  Node = {n1}
  Entry = entry
  Stream = {s1, s2, s3}
  Stmt = {a, b, c}
  NoBaton = NoBaton
  NoUrl = NoUrl
  NoReply = NoReply
  NotIssued = NotIssued
  KeepIdle = {FALSE}
  StepFails = {FALSE}
  Chunks = 2
  MaxSessions = 2
  MaxTx = 2
  MaxReqs = 6
  MaxFaults = 1
SYMMETRY Symmetry
INVARIANTS
  TypeOK
  TxEffectsNeedCommit
  AcksAreTruthful
  CommitIsAtomic
  ChunkedExecIsAtomic
PROPERTY
  ImplementsTxStore
