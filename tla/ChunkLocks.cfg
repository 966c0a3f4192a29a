SPECIFICATION Spec
CONSTANTS
  ChunkIds = {1, 2, 3, 4}
  Peers = {p1, p2}
  toutdiff = 1
  LSIZE_INCREMENT = 2
  MaxTime = 4
INVARIANTS
  FreeElement
  CleanupExact
PROPERTY
  ImplementsLockSet
