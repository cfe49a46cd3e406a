SPECIFICATION MCSpec
CONSTANTS
  u1 = u1
  u2 = u2
  c1 = c1
  c2 = c2
  c3 = c3
  c4 = c4
  w1 = w1
  w2 = w2
  w3 = w3
  w4 = w4
  Users = {u1, u2}
  Nobody = Nobody
  Callers = {u1, u2}
  NoThread = NoThread
  Clients = {c1, c2, c3, c4}
  MaxCount = 2
  MaxCalls = 5
  Workers = {w1, w2, w3, w4}
  Loop = Loop
  Origin = Origin
  ThreadCounts = {0, 1, 2}
  ServerCalls = 3
INVARIANTS InTurn NoOrphans ClosedFirst NeverDeaf
PROPERTIES EveryCallReturns CallsReturn
CHECK_DEADLOCK FALSE
