SPECIFICATION MCSpec
CONSTANTS
  SepSize = 1
  OptBufsize = 4
  OptMaxbuf = 5
  OptMinbuf = 3
  MaxSize = 8
  FirstAsIs = TRUE
  DefBufsize = 5
  DefMinbuf = 2
  Sizes <- MCSizes
  Slacks <- MCSlacks
  MaxBytes = 10
  Threads = {t1, t2, t3, t4}
  MaxCalls = 6
INVARIANTS Accounting InOrder NoIdleBacklog Exclusion Owed
PROPERTIES EventuallyWritten Refinement EventuallyServed
CHECK_DEADLOCK FALSE
