SPECIFICATION Spec
CONSTANTS
  IoThreads = {t1}
  Options <- MCDuplex
  Beyond = TRUE
INVARIANT UnavailableUntilAnswer
CHECK_DEADLOCK FALSE
