SPECIFICATION Spec
CONSTANTS
  MAX_LEN = 8
  Messages <- MCLengthMessages
INVARIANT LengthRespected
CHECK_DEADLOCK FALSE
