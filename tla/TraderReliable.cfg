SPECIFICATION FairSpec
CONSTANTS
  Nodes = {s, a, b}
  Source = s
  TransIdMod = 4
  MaxLifetime = 4
  MaxChunk = 1
  cb_size = 2
  chunks_per_peer_offer = 2
  source_multiplicity = 1
  MaxTrans = 1
  MaxInFlight = 2
  MaxFaults = 0
  LockTimeouts = FALSE
  SourceKnown = TRUE
  Joined = TRUE
INVARIANTS
  NoParallelRequest
PROPERTY
  EveryChunkEverywhere
CHECK_DEADLOCK FALSE
