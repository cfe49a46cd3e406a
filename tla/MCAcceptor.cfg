SPECIFICATION FairSpec
CONSTANTS
  Connections = {c1, c2, c3, c4, c5}
  IoThreads = {t1, t2}
  MaxConnections = 1
  None = None
INVARIANTS NoGhosts Owned OneAccept
PROPERTY Finishes
CHECK_DEADLOCK FALSE
