SPECIFICATION FairSpec
CONSTANTS
  NFDS = 3
  TIME_OUT = 1
  RLEN = 2
  ROOM = 1
  a = a  b = b
  Conns = {a, b}
  Scripts <- MCScripts
  Asks <- MCAsks
  Blocks <- MCBlocks
  ErrorFolder <- MCErrorFolder
  ErrorName <- MCErrorName
  Ending <- MCEnding
  Directories <- MCDirectories
  CgiTypes = {".php", ".bla"}
  InitialFiles <- MCFiles
INVARIANTS DescriptorsKept SetsAgree TurnHeld Authorised
PROPERTIES OwnRequests MethodsKept EachAnswered
CHECK_DEADLOCK FALSE
