\* One console of one Data Source that is connected, lost and connected again
\* while two commands, a primary query and the idle worker act on it.
SPECIFICATION ConsoleSpec
CONSTANTS
  Source = {s1}
  SerialSource = {}
  QueryId = {q1}
  Console = {k1}
  Limits = {1}
  MaxGeneration = 2
  Command = {c1, c2}
SYMMETRY Symmetry
INVARIANTS
  ConsoleTypeOK
  OccupancyIsOwned
  PhaseCoversUnlessMisreported
PROPERTIES
  UsesTable
  WorkIsSettledOrLostKnowingly
CHECK_DEADLOCK FALSE
