CONSTANTS
  w1 = w1
  w2 = w2
  s1 = s1
  f1 = f1
  f2 = f2
  Main = Main
  InitCond = InitCond
  CrewQ = CrewQ
  NIL = NIL
  Solo <- MCSolo
  Helper <- w1
  CacheThd <- w2
  Flushes <- MCOneFlush
SPECIFICATION FairSpec
CHECK_DEADLOCK FALSE
PROPERTIES SomeWorkerStarts LateThreadRuns
