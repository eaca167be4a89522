SPECIFICATION ConsoleSpec
CONSTANTS
  Source = {s1}
  SerialSource = {}
  QueryId = {q1}
  Console = {k1}
  Limits = {1}
  MaxGeneration = 2
  Command = {c1, c2}
INVARIANTS
  PhaseCoversTransaction
CHECK_DEADLOCK FALSE
