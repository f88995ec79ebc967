SPECIFICATION PartsSpec
CHECK_DEADLOCK FALSE
CONSTANTS
  s1 = s1  s2 = s2  x1 = x1  w1 = w1  p1 = p1  p2 = p2  i1 = i1  i2 = i2
  Searcher = {s1, s2}
  Indexer = {}
  Watcher = {}
  Process = {p1}
  Home <- OneHome
  Identity = {i1}
  StartIdentity = i1
  MaxContent = 3
  ChunkFree = {}
  Reverts = FALSE
  StatusCalls = TRUE
  OnSearch = TRUE
  Faults = {"walk", "scan", "cancel", "gap"}
  MaxFaults = 1
  NoTable = NoTable
  NoTask = NoTask
  n1 = n1  n2 = n2  n3 = n3  n4 = n4
  Node = {n1, n2, n3, n4}
  Seed = {n1}
  Connective = {n4}
  Proposing = {n3}
  K = 1
  MaxStops = 1
  MaxCalls = 3
  MaxSteers = 1
  None = None
  Unasked = Unasked
  Menu <- Graphs
  Budgets <- Caps
INVARIANTS
  PartsTypeOK
  CheckedAnswerIsFresh
  StampsAreSound
  QueueIsWhole
  PricesAreExact
  BoundKeepsTheTopRanks
  PausesChangeNothing
PROPERTIES
  ThrottledAnswerIsBounded
  BudgetIsKept
