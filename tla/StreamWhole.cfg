SPECIFICATION Spec
CONSTANTS
  MAX_LEN = 2
  Capacity = 5
  Bodies <- MCBodies
INVARIANTS
  BodyArrives
PROPERTY
  StreamEnds
CHECK_DEADLOCK FALSE
