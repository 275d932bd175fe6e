SPECIFICATION Spec
CONSTANTS
  Messages <- MCMessages
  Decode <- MCDecode
  IntMax = 3
  SizeMax = 15
INVARIANTS
  TypeOK
  BodyIsWhole
  LengthsAgree
  PairsRight
PROPERTY
  Served
CHECK_DEADLOCK FALSE
