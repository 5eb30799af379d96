CONSTANTS
  obj = obj
  cls = cls
  clsA = clsA
  clsB = clsB
  arr = arr
  t1 = t1
  t2 = t2
  NIL = NIL
  Classes <- MCClasses
  ObjectName = obj
  ClassName = cls
  ArrayName = arr
  ArrayBase = clsA
  Threads <- MCThreads
  Main = t1
  Worlds <- MCWorlds
  Asks <- MCAsks
  MaxObjects = 5
  MaxDepth = 9
SPECIFICATION Spec
\* A superclass that is its own ends the process.
CHECK_DEADLOCK FALSE
INVARIANTS LoadedOnce LinksComplete DeferredIsUnsound VersionIsOverwritten OnlySuperCyclesOverflow
PROPERTY LoadingEnds
