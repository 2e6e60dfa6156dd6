SPECIFICATION ExecSpec
CONSTANTS
  MaxStmts = 5
  ChunkSize = 2
INVARIANTS
  NothingRunsAfterAFailure
  FailureLeavesNoTransaction
  EnclosedTextIsAtomic
  SuccessIsComplete
  PanicsOnlyWithoutStatements
  ReadsEveryResult
  EachStatementOnceInOrder
  LongTextReportedIsDurable
  ReadsFollowWrites
