CONSTANTS
  t1 = t1
  t2 = t2
  t3 = t3
  t4 = t4
  NIL = NIL
  Garbage = Garbage
  Threads <- MCThreads
  Overlap = FALSE
  MaxDepth = 2
  MaxWaits = 5
SPECIFICATION Spec
\* A null pointer ends the process, and all threads may be blocked or waiting.
CHECK_DEADLOCK FALSE
INVARIANTS MonitorExcludes ThreadCountDrifts WaitSetIsAList
PROPERTIES BlockedForEver ReleaseReturnsOnlyOnce NotifiedWakes
