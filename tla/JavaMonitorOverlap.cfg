CONSTANTS
  t1 = t1
  t2 = t2
  t3 = t3
  t4 = t4
  NIL = NIL
  Garbage = Garbage
  Threads <- MCTwo
  Overlap = TRUE
  MaxDepth = 2
  MaxWaits = 2
SPECIFICATION Spec
CHECK_DEADLOCK FALSE
INVARIANT MonitorExcludes
