SPECIFICATION JdbcSpec
CONSTANTS
  Statement = {w1, w2}
  Selects = {w1}
  NoStatement = NoStatement
  MaxProcess = 2
  MaxRequestId = 4
INVARIANT
  NoImplicitCommit
CHECK_DEADLOCK FALSE
