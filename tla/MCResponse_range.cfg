SPECIFICATION Spec
CONSTANTS
  MaxCalls = 1
  MaxMessage = 1
  MaxFile = 3
CHECK_DEADLOCK FALSE
INVARIANTS
  RegionIsASlice
