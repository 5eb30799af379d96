CONSTANTS
  W = 4
  B = 2
  OpStackSize = 7
  MaxStack = 6
  LocalCount = 2
  Values = {1, 3}
  Doubles <- MCDoubles
  MaxLength = 5
SPECIFICATION Spec
\* Memory outside the stack has been written, or the bound is reached.
CHECK_DEADLOCK FALSE
INVARIANTS StackIsExact TopDrifts
