SPECIFICATION Spec
CONSTANTS
  cr = cr
  lf = lf
  t1 = t1
  t2 = t2
  Options <- MCReusedOnly
  Alphabet <- MCAlphabet
  DefBufsize = 5
  Junk = Junk
  Threads = {t1, t2}
  Nobody = Nobody
  MaxBytes = 6
INVARIANTS Complete
