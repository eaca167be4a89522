SPECIFICATION InputsSpec
CONSTANTS
  MaxText = 4
  MaxRecords = 2
  MaxRecordBytes = 8
  SampleRows = 1
  Targets <- TwoColumns
  Null = Null
  BatchSize = 2
  CheckEvery = 2
  MaxRows = 3
  MaxEdits = 1
  MaxPreviews = 2
  MaxPreviewCancels = 2
  Scripts <- SmallScripts
  MaxPairs = 2
  MaxValue = 2
  MaxHost = 5
  Native = {n1}
  Jdbc = {j1, j2}
  Address = {a1, a2}
  Url = {u1, u2}
  Forwardable = {u1}
  Password = {p1, p2}
  Secret = {s1}
  Target = {f1, f2}
  Memory = Memory
  Command = {c1, c2}
  NoTarget = NoTarget
  Profile = {r1, r2}
  Custom = {d1}
  Package = {i1}
  Nothing = Nothing
  NoRecord = NoRecord
  MaxCommands = 3
INVARIANTS
  ScriptsAreUnderstood
  ImportsAreTrue
  ConnectionsAreUnderstood
PROPERTIES
  EditsLeaveConnectionsAlone
CHECK_DEADLOCK FALSE
