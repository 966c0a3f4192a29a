SPECIFICATION FairSpec
CONSTANTS
  Keys <- MCKeys
  Tags = {x, y}
  InitSize = 1
  ORD_SET_INC_SIZE = 1
  MaxElements = 4
INVARIANTS
  Sorted
  SearchRight
  InBounds
  
PROPERTIES
  SearchEnds
  ImplementsKeyedSet
