SPECIFICATION PartsSpec
CHECK_DEADLOCK FALSE
CONSTANTS
  c1 = c1  c2 = c2  c3 = c3  p1 = p1  p2 = p2
  w1 = w1  a1 = a1  a2 = a2  s1 = s1  s2 = s2  n1 = n1  n2 = n2
  q1 = q1
  Caller = {c1, c2, c3}
  Home <- TwoHomes
  NoKeeper = NoKeeper
  Workspace = {w1}
  Provider = {p1, p2}
  Toucher = {a1, a2}
  Stopper = {s1, s2}
  Warm = {n1, n2}
  Absent = Absent
  Tombstone = Tombstone
  NoSession = NoSession
  Request = Request
  All = All
  Nowhere = Nowhere
  Rpc = {q1}
  InCap = 1
  OutCap = 1
  MaxSaid = 2
  NoWrite = NoWrite
INVARIANTS
  PartsTypeOK
  WarmStopsAreFinal
  NoneIsForgotten
PROPERTIES
  ImplementsIndexLock
  WaitersAreServed
  StopEnds
  NothingAfterAHalfFrame
  
