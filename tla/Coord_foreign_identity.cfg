SPECIFICATION Spec
CONSTANTS
  s1 = s1  s2 = s2  x1 = x1  w1 = w1  p1 = p1  p2 = p2  i1 = i1  i2 = i2
  Searcher = {s1}
  Indexer = {x1}
  Watcher = {}
  Process = {p1, p2}
  Home <- TwoHomes
  Identity = {i1, i2}
  StartIdentity = i1
  MaxContent = 1
  ChunkFree = {}
  Reverts = FALSE
  StatusCalls = FALSE
  OnSearch = TRUE
  Faults = {"crash", "reconfigure"}
  MaxFaults = 1
  NoTable = NoTable
  NoTask = NoTask
INVARIANTS
  AnswerHasIdentity
