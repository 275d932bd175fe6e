SPECIFICATION Spec
CONSTANTS
  Apps <- MCApps
  Requests <- MCRequests
  Decode <- MCDecode
  LongMax = 7
  MaxRouter = 2
  Methods = {"GET", "POST"}
  MaxMessage = 2
  MaxFile = 3
INVARIANTS
  MarksArrive
  CorsDecides
  CookiesRight
  RangeKept
PROPERTY
  EveryRequestAnswered
CHECK_DEADLOCK FALSE
