SPECIFICATION SearchSpec
CONSTANTS
  s1 = s1  s2 = s2  x1 = x1  w1 = w1  p1 = p1  p2 = p2  i1 = i1  i2 = i2
  Searcher = {s1}
  Indexer = {x1}
  Watcher = {}
  Process = {p1}
  Home <- OneHome
  Identity = {i1}
  StartIdentity = i1
  MaxContent = 2
  ChunkFree = {}
  Reverts = FALSE
  StatusCalls = FALSE
  OnSearch = TRUE
  Faults = {"walk", "cancel", "gap", "outage"}
  MaxFaults = 1
  NoTable = NoTable
  NoTask = NoTask
PROPERTIES
  EventuallyServed
