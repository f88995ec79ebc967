SPECIFICATION WatchSpec
CONSTANTS
  c1 = c1  j1 = j1  t1 = t1  t2 = t2
  Client = {c1}
  Job = {j1}
  Token = {t1, t2}
  MaxContent = 2
  MaxVanish = 1
  MaxFaults = 0
  NoToken = NoToken
  NoOne = NoOne
INVARIANTS WatchAnswerHolds
CHECK_DEADLOCK FALSE
