SPECIFICATION ServicesSpec
CONSTANTS
  Caller = {c1, c2, c3}
  MaxRequests = 2
  Export = {e1, e2}
  NoWriter = NoWriter
  Foreign = Foreign
  ChannelPlaces = 1
  MaxChunks = 2
  Installation = {i1, i2}
  Client = {d1}
  NoInstallation = NoInstallation
  JarCount = 2
  Tunnel = {n1, n2}
  Port = {p1, p2}
  NoListener = NoListener
  Stranger = Stranger
  MaxAttempts = 2
INVARIANTS
  ServicesTypeOK
  ExportSafety
  LibrarySafety
  ServicesEndClean
PROPERTIES
  EveryCallIsAnswered
CHECK_DEADLOCK FALSE
