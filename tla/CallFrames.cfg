CONSTANTS
  Programs <- MCPrograms
  OpStackSize = 6
  Block = 4
  MaxFrames = 8
SPECIFICATION Spec
\* Threads end.
CHECK_DEADLOCK FALSE
INVARIANTS NeverPastACallOnObject FramesLeak FramesStayValid
PROPERTIES StandsStill EveryRunEndsBadly
