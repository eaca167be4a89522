SPECIFICATION StoresSpec
CONSTANTS
  Source = {s1}
  SerialSource = {}
  QueryId = {q1, q2}
  Console = {}
  Limits = {1}
  MaxGeneration = 2
  MaxSchema = 2
  Object = {o1, o2}
  NoKey = NoKey
  MaxEntries = 1
  Record = {r1, r2}
  Secret = {k1, k2, k3}
  NoSecret = NoSecret
  Operation = {x1, x2}
  MasterKeys = {m1, m2, m3, m4}
  NoMasterKey = NoMasterKey
  Torn = Torn
  Launch = {l1, l2}
  Nobody = Nobody
  Olds = {0, 8, 12}
  MaxStarts = 3
  SavedConnection = {c1, c2}
  RowWriter = {w1}
  GroupId = {g1, g2}
  NoGroup = NoGroup
  GroupKey = {n1, n2}
  NoName = NoName
  MaxOrder = 2
  Document = {d1, d2}
  Text = {t1, t2}
  Missing = Missing
  Undecodable = Undecodable
  Draft = {f1, f2}
  MaxDrafts = 1
  Entry = {e1, e2, e3}
  MaxHistory = 1
  HistorySlack = 2
  MaxClock = 2
SYMMETRY Symmetry
INVARIANTS
  StoresTypeOK
  InvalidationIsBarrier
  ServesPresentConnection
  SecretsAreKept
  SavedStateIsTrue
CHECK_DEADLOCK FALSE
