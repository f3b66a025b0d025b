SPECIFICATION FairSpec
CONSTANTS
  a = a  b = b  z = z
  Conns = {a, b, z}
  NFDS = 2
  ROOM = 1
  Programs = {"chat", "echo"}
  Scripts <- MCScripts
INVARIANTS TableAgrees LinesKept EchoesBack
PROPERTIES ServesRoom EachServed
CHECK_DEADLOCK FALSE
