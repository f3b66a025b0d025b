SPECIFICATION FairSpec
CONSTANTS
  MAX_LEN = 2
  NFDS = 2
  TIME_OUT = 1
  a = a  b = b  d = d
  Conns = {a, b}
  Script <- MCScript
  Blocks <- MCStream
PROPERTIES LifecycleRespected WholeRequestEnds
CHECK_DEADLOCK FALSE
