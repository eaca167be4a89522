SPECIFICATION CommandsSpec
CONSTANTS
  Source = {s1}
  SerialSource = {s1}
  QueryId = {q1, q2}
  Console = {}
  Limits = {1}
  MaxGeneration = 2
  Attempt = {a1, a2}
  NoAttempt = NoAttempt
  MaxVersion = 1
  MaxStatements = 2
  Statement = {w1, w2}
  Selects = {w1}
  NoStatement = NoStatement
  MaxProcess = 2
  MaxRequestId = 3
  MaxRows = 3
  RowLimit = 3
  ByteLimit = 3
  ChunkRows = 2
  DriverBytes = 3
  ChunkBytes = 2
  Capacity = 1
INVARIANTS
  CommandsTypeOK
  OneQueryAtATime
  CancellationReachesWaiters
  AnswersAreTrue
PROPERTIES
  NothingStartsAfterRetirement
  TransactionsAreKept
  EveryCommandIsAnswered
CHECK_DEADLOCK FALSE
