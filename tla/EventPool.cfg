CONSTANTS
  e1 = e1
  e2 = e2
  e3 = e3
  t1 = t1
  t2 = t2
  t3 = t3
  t4 = t4
  NIL = NIL
  Node <- MCNode
  Order <- MCOrder
  Threads <- MCThreads
SPECIFICATION Spec
INVARIANTS OneEventForAll RingsStayClosed PoolNeverRunsOut
