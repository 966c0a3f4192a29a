SPECIFICATION Spec
CONSTANTS
  Nodes = {s, a}
  Source = s
  TransIdMod = 4
  MaxLifetime = 4
  MaxChunk = 1
  cb_size = 1
  chunks_per_peer_offer = 1
  source_multiplicity = 1
  MaxTrans = 1
  MaxInFlight = 3
  MaxFaults = 2
  LockTimeouts = TRUE
  SourceKnown = FALSE
  Joined = FALSE
INVARIANTS
  TypeOK
  BmapSound
  DeliveredOnce
  LockedNotHeld
CHECK_DEADLOCK FALSE
