SPECIFICATION Spec
CONSTANTS
  MAX_LEN = 2
  NFDS = 2
  TIME_OUT = 1
  a = a  b = b  d = d
  Conns = {a, b, d}
  Script <- MCPipelined
  Blocks <- MCStream
INVARIANTS TypeOK DescriptorsAgree OwnBytes OneDescriptor
PROPERTY StreamNotRestarted
CHECK_DEADLOCK FALSE
