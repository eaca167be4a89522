SPECIFICATION ConnectSpec
CONSTANTS
  Source = {s1, s2}
  SerialSource = {}
  QueryId = {q1}
  Console = {}
  Limits = {1}
  MaxGeneration = 2
  Attempt = {a1, a2}
  NoAttempt = NoAttempt
  MaxVersion = 2
SYMMETRY Symmetry
INVARIANTS
  PendingIsOwned
  DeletedStaysOffline
  RuntimeMatchesSaved
PROPERTIES
  UsesTable
  PingSparesOccupied
CHECK_DEADLOCK FALSE
