SPECIFICATION Spec
CONSTANTS
  Messages <- MCMessages
  Decode <- MCDecode
  IntMax = 3
  SizeMax = 15
PROPERTY
  WorkersComeBack
CHECK_DEADLOCK FALSE
