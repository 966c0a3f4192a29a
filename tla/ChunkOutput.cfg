SPECIFICATION Spec
CONSTANTS
  Ids <- MCIds
  outbuff_size = 3
  MaxOut = 3
INVARIANTS
  OutputIncreasing
  NothingLost
  NothingWithheld
PROPERTIES
  NoOverwrite
  Refinement
