SPECIFICATION TasksSpec
CONSTANTS
  Source = {s1, s2}
  SerialSource = {s1}
  QueryId = {t1, t2}
  Console = {}
  Limits = {1}
  MaxGeneration = 2
  MaxSchema = 2
  NoWalk = NoWalk
  Capacity = 2
  MaxTotal = 3
INVARIANTS
  ClearingIsBarrier
  IndexSafety
  IndexWithinTotal
PROPERTIES
  KeepsLifecycle
  EveryTaskEnds
CHECK_DEADLOCK FALSE
