SPECIFICATION ConnectSpec
CONSTANTS
  Source = {s1}
  SerialSource = {}
  QueryId = {}
  Console = {}
  Limits = {1}
  MaxGeneration = 1
  Attempt = {a1, a2}
  NoAttempt = NoAttempt
  MaxVersion = 1
PROPERTIES
  CancelledAttemptInstallsNothing
CHECK_DEADLOCK FALSE
