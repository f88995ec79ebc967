SPECIFICATION PartsSpec
CHECK_DEADLOCK FALSE
CONSTANTS
  s1 = s1  s2 = s2  x1 = x1  w1 = w1  p1 = p1  p2 = p2  i1 = i1  i2 = i2
  Searcher = {s1}
  Indexer = {x1}
  Watcher = {}
  Process = {p1, p2}
  Home <- TwoHomes
  Identity = {i1}
  StartIdentity = i1
  MaxContent = 3
  ChunkFree = {1}
  Reverts = FALSE
  StatusCalls = FALSE
  OnSearch = TRUE
  Faults = {"scan", "reject", "commit", "cancel", "crash", "outage"}
  MaxFaults = 1
  NoTable = NoTable
  NoTask = NoTask
  d1 = d1  d2 = d2  h1 = h1  h2 = h2
  Doc = {d1, d2}
  Hook = {h1, h2}
  MaxOpen = 1
  ChangeSync = TRUE
  MaxText = 1
  MaxSends = 4
  NoDoc = NoDoc
  ATask = ATask
SYMMETRY Alike
INVARIANTS
  RunsAreSerial
  DocTypeOK
  
  OpenSetBounded
PROPERTIES
  TableIsKept
  ProtocolKept
  PublicationsAreHeard
