SPECIFICATION Spec
CONSTANTS
  MaxSocks = 3
  MaxStmts = 2
  MaxTx = 1
  MaxFaults = 2
  FailureRollsBack = {FALSE, TRUE}
INVARIANTS
  TypeOK
  AnswersAreOwn
  NoSocketLeftOpen
  RepeatedByFaultsOnly
  TxTellsTheTruth
PROPERTY
  ImplementsTxStore
