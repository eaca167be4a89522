SPECIFICATION ConsoleSpec
CONSTANTS
  Source = {s1}
  SerialSource = {}
  QueryId = {q1}
  Console = {k1}
  Limits = {1}
  MaxGeneration = 1
  Command = {c1}
PROPERTIES
  DeadPrimarySparesConsoles
CHECK_DEADLOCK FALSE
