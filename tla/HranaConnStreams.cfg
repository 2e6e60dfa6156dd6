SPECIFICATION Spec
CONSTANTS
  Node = {n1, n2}
  Entry = entry
  Stream = {s1, s2, s3}
  Stmt = {a, b}
  NoBaton = NoBaton
  NoUrl = NoUrl
  NoReply = NoReply
  NotIssued = NotIssued
  KeepIdle = {FALSE, TRUE}
  StepFails = {FALSE}
  Chunks = 1
  MaxSessions = 2
  MaxTx = 1
  MaxReqs = 5
  MaxFaults = 2
SYMMETRY Symmetry
INVARIANTS
  SessionsAreIsolated
  GivenUpStreamsAreLeftAlone
  BatonsGoHome
  OrphansComeFromFaults
