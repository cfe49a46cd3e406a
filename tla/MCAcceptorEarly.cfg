SPECIFICATION Spec
CONSTANTS
  Connections = {c1, c2, c3}
  IoThreads = {t1}
  MaxConnections = 1
  None = None
INVARIANT NoDead
