SPECIFICATION Spec
CONSTANTS
  Nodes = {a, b}
  Senders = {a}
  Sizes <- MCSizes
  frag_size = 2
  buffer_size = 4
  max_pkt_age = 2
  PidMod = 5
  NetDelay = 1
  QueueDelay = 2
  RequestIds = {0, 1, 2}
  Rate = 1
  MaxTime = 5
  MaxTroubles = 1
CHECK_DEADLOCK FALSE
INVARIANTS
  QueueSound
  HeapSound
  ReceivedWhole
  NothingStranded
