SPECIFICATION Spec
CONSTANTS
  t1 = t1
  t2 = t2
  a1 = a1
  a2 = a2
  Null = Null
  Threads = {t1, t2}
  MaxSessions = 2
  MaxLives = 4
  MaxBlocks = 2
  MaxOut = 1
  Addresses = {a1, a2}
SYMMETRY Alike
INVARIANTS TypeOK Reported ReadsOn OwnData CleanStop
PROPERTIES SilentAfterShutdown
CHECK_DEADLOCK FALSE
