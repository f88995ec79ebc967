SPECIFICATION TravSpec
CHECK_DEADLOCK FALSE
CONSTANTS
  n1 = n1  n2 = n2  n3 = n3  n4 = n4
  Node = {n1, n2, n3, n4}
  Seed = {n1}
  Connective = {n4}
  Proposing = {n3}
  K = 1
  MaxStops = 1
  MaxCalls = 3
  MaxSteers = 0
  None = None
  Unasked = Unasked
  Menu <- Graphs
  Budgets <- Caps
INVARIANTS BoundFixesTheTopSet
