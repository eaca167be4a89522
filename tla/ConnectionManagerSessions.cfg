\* Three sources compete for one or two session slots; a query or a console
\* transaction may occupy a session.
SPECIFICATION Spec
CONSTANTS
  Source = {s1, s2, s3}
  SerialSource = {}
  QueryId = {q1}
  Console = {c1}
  Limits = {1, 2}
  MaxGeneration = 3
SYMMETRY Symmetry
INVARIANTS
  StatusMatchesRuntime
  GenerationsIdentifyConnections
PROPERTIES
  GrowsWithinLimit
  OccupiedSessionsSurvive
CHECK_DEADLOCK FALSE
