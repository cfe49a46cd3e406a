SPECIFICATION FairSpec
CONSTANTS
  IoThreads = {t1, t2}
  Options <- MCAllModes
  Beyond = FALSE
INVARIANTS OneWay ConnectedMeansSession KeepsPinging
PROPERTIES StopIsFinal EventuallyConnected
CHECK_DEADLOCK FALSE
