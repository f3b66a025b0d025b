SPECIFICATION Spec
CONSTANTS
  PipeSize = 4
  Calls <- MCCalls
  Scripts <- MCScripts
INVARIANTS
  TypeOK
  ReturnsOnlyIfFits
  LinesKept
  DescriptorsBack
PROPERTY
  CgiReturns
CHECK_DEADLOCK FALSE
