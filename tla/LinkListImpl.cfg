\* Four data pointers on up to four nodes: rings of one to four nodes,
\* every position of the deleted node, the head and the tail among them.
CONSTANTS
  n1 = n1
  n2 = n2
  n3 = n3
  n4 = n4
  d1 = d1
  d2 = d2
  d3 = d3
  d4 = d4
  NIL = NIL
  NONE = NONE
  Node <- MCNode
  Data <- MCData
  MaxMisses = 2
SPECIFICATION Spec
INVARIANTS RingIsClosed QueueNeverHidesItems CountDriftsByMisses
PROPERTY ImplementsLinkList
SYMMETRY MCSymmetry
