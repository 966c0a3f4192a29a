SPECIFICATION FairSpec
CONSTANTS
  delta = 3
  offer_interval = 4
  OfferIntervals = {1, 4}
  DEFAULT_DATA_INTERVAL = 2
  UPDATE_EPOCH = 10
  MaxGap = 3
  MaxLate = 2
  MaxSocket = 2
  MaxQueue = 2
CHECK_DEADLOCK FALSE
INVARIANTS
  WaitsAsTold
  NotSleptThrough
  OverdueFires
PROPERTIES
  EveryDatagramRead
  WorkGoesOn
  UpdatesGoOn
