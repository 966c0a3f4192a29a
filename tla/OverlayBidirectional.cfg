SPECIFICATION Spec
CONSTANTS
  Nodes = {a, b, c}
  MaxInFlight = 1
  neighbourhood_target_size = 2
  DiscardTenths = 5
  peer_timeout = 10
INVARIANT
  Bidirectional
