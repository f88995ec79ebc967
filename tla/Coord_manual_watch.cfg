SPECIFICATION LiveSpec
CONSTANTS
  s1 = s1  s2 = s2  x1 = x1  w1 = w1  p1 = p1  p2 = p2  i1 = i1  i2 = i2
  Searcher = {s1}
  Indexer = {x1}
  Watcher = {w1}
  Process = {p1}
  Home <- OneHome
  Identity = {i1, i2}
  StartIdentity = i1
  MaxContent = 3
  ChunkFree = {}
  Reverts = FALSE
  StatusCalls = TRUE
  OnSearch = FALSE
  Faults = {"crash", "reconfigure", "lock", "walk", "scan", "reject", "commit", "gap"}
  MaxFaults = 2
  NoTable = NoTable
  NoTask = NoTask
INVARIANTS
  AnswerHasIdentity
PROPERTIES
  EventuallyFreshWatched
