SPECIFICATION PartsSpec
CHECK_DEADLOCK FALSE
CONSTANTS
  w1 = w1  p1 = p1  c1 = c1  c2 = c2  s1 = s1  s2 = s2
  f1 = f1  l1 = l1  l2 = l2  r1 = r1  r2 = r2
  Workspace = {w1}
  Provider = {p1}
  Watching = {p1}
  Caller = {c1, c2}
  Session = {s1, s2}
  MaxTree = 1
  None = None
  File = {f1}
  Server = {l1}
  Request = {r1}
  Task = Task
  MaxEdits = 4
  MaxAlarms = 2
  Unknown = Unknown
  Gone = Gone
  NoOne = NoOne
SYMMETRY Alike
INVARIANTS
  PartsTypeOK
  AnswersAreNotOlderThanTheCheck
  SyncedWhileInUse
  
  ReportedReachesServersFirst
PROPERTIES
  SessionsMoveForward
