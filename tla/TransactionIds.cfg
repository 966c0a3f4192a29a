SPECIFICATION Spec
CONSTANTS
  Peers = {p1}
  TransIdMod = 4
  MaxLifetime = 1
  Rate = 2
  MaxTime = 3
  MaxOffers = 6
INVARIANT
  ValidIds
