SPECIFICATION Spec
CONSTANTS
  Clients <- MethodClients
  Tree <- MCTree
  CgiPrefix <- MCCgiPrefix
  IndexName <- MCIndexName
  Cap = 16
  MaxSegs = 8
  MaxBuf = 36
  HdrMax = 1
  HeaderLen = 2
  PageLen = 1
INVARIANT
  OnlyGetRuns
