SPECIFICATION Spec
CONSTANTS
  MAX_LEN = 2
  NFDS = 2
  TIME_OUT = 1
  a = a  b = b  d = d
  Conns = {a, b}
  Script <- MCScript
  Blocks <- MCSmall
INVARIANT Survives
CHECK_DEADLOCK FALSE
