SPECIFICATION WalkSpec
CONSTANTS
  Peers = {p1}
  TransIdMod = 4
  MaxLifetime = 1
  Rate = 2
  MaxTime = 3
  MaxOffers = 6
  Cells = {c1, c2, c3, c4, c5}
  NULL = NULL
CHECK_DEADLOCK FALSE
INVARIANTS
  OpenIdsDistinct
  BoundedList
  ListKept
  NoDangling
