SPECIFICATION StartSpec
CONSTANTS
  Texts <- MCTexts
  ValidPorts = {"8080", "9090"}
  Path <- MCPath
  Size <- MCSize
  Servers <- MCServers
  Requests <- MCRequests
  InitialFiles <- MCFiles
  Directories <- MCDirectories
  Writable <- MCWritable
INVARIANTS
  LongestLocation
  OwnResponse
PROPERTIES
  MethodsRespected
  Independent
  TakenOrRefused
CHECK_DEADLOCK FALSE
