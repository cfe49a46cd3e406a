SPECIFICATION FairSpec
CONSTANTS
  cr = cr
  lf = lf
  t1 = t1
  t2 = t2
  Options <- MCOptions
  Alphabet <- MCAlphabet
  DefBufsize = 5
  Junk = Junk
  Threads = {t1, t2}
  Nobody = Nobody
  MaxBytes = 7
INVARIANTS TypeOK InOrder Complete Kept WindowOwned
PROPERTIES EventuallyHandled
