SPECIFICATION Spec
CONSTANTS
  Threads = {t1, t2}
  Callbacks = {h1, h2}
  Copies = {c1, c2, c3}
  Ids = {id1}
  Lives = {l1, l2, l3, l4, l5}
  None = None
SYMMETRY Alike
INVARIANTS AnsweredOnce ReportedLast Answered LifeEnds
