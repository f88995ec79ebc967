SPECIFICATION PartsSpec
CHECK_DEADLOCK FALSE
CONSTANTS
  c1 = c1  j1 = j1  t1 = t1  t2 = t2  i1 = i1  f1 = f1
  Client = {c1}
  Job = {j1}
  Token = {t1, t2}
  MaxContent = 2
  MaxVanish = 1
  MaxFaults = 1
  NoToken = NoToken
  NoOne = NoOne
  Indexer = {i1}
  Searcher = {f1}
  MaxAttempts = 2
  Window = 2
  Batches = 2
INVARIANTS
  PartsTypeOK
  PassesMatchTheRegistry
  EarlyWatchAnswerHolds
  BreakerIsFair
PROPERTIES
  UnwatchedWorkEnds
  WatchedCatchesUp
  UsedAgain
