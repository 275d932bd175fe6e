SPECIFICATION Spec
CONSTANTS
  MaxCalls = 3
  MaxMessage = 2
  MaxFile = 3
  MaxBuffer = 12
  Apple = TRUE
CHECK_DEADLOCK FALSE
INVARIANTS
  OneHeader
  StatusLineFirst
  FramingHonest
  ClientCanTell
PROPERTIES
  KeepsTheContract
  EndedIsFinal
