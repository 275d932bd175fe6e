SPECIFICATION FairSpec
CONSTANTS
  MaxBuffer = 3
  MaxFile = 3
  Apple = TRUE
CHECK_DEADLOCK FALSE
INVARIANTS
  TypeOK
  InOrder
  CompleteIsWhole
PROPERTIES
  RefinesStream
  ResponseEnds
