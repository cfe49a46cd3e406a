SPECIFICATION Spec
CONSTANTS
  SepSize = 1
  OptBufsize = 4
  OptMaxbuf = 5
  OptMinbuf = 3
  MaxSize = 8
  FirstAsIs = TRUE
  DefBufsize = 5
  DefMinbuf = 2
  Sizes <- MCSizes
  Slacks <- MCSlacks
  MaxBytes = 10
INVARIANT Retries
