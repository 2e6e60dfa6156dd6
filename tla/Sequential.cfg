SPECIFICATION SequentialSpec
CONSTANTS
  MaxPieces = 4
  MaxInner = 6
  Texts <- MCTexts
  Name = {a, b}
  NoName = NoName
  MaxStmts = 2
  MaxParams = 2
  MaxArgs = 4
  MaxNamed = 2
  Tokens = {A, B}
  Unset = Unset
  MaxOptions = 2
  User = {u1, u2, u3, u4}
  NoId = NoId
  IdLimit = 5
INVARIANTS
  LooksAhead
  SplitsAtEveryEnd
  DealtOnceInOrder
  TidyTextsBindAsInSqlite
  NamesReachTheirStatements
  OptionWins
  EntryPointsAgree
PROPERTIES
  KeepsPromise
