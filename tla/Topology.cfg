SPECIFICATION FairSpec
CONSTANTS
  Peers = {a, b, c}
  Leavers = {b, c}
  MaxEchoes = 1
  neighbourhood_target_size = 2
  DiscardTenths = 5
  peer_timeout = 10
INVARIANTS
  OneStructPerPeer
  NoDanglingLock
  SignalledExactly
  Refilled
PROPERTIES
  UpdateStaysInTarget
  GoneForGood
