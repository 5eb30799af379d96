CONSTANTS
  c1 = c1
  c2 = c2
  Clients <- MCOneClient
  MinTag = 1
  BlockTag = 2
  MaxTag = 3
  MaxPools = 2
SPECIFICATION Spec
\* The process ends when the allocator does.
CHECK_DEADLOCK FALSE
INVARIANTS BlocksFillThePool BuddiesAreMerged ListsHoldFreeBlocks EmptyPoolIsWhole
VIEW MCView
