SPECIFICATION LiveSpec
CONSTANTS
  Clients <- MCClients
  Tree <- MCTree
  CgiPrefix <- MCCgiPrefix
  IndexName <- MCIndexName
  Cap = 16
  MaxSegs = 8
  MaxBuf = 36
  HdrMax = 1
  HeaderLen = 2
  PageLen = 1
INVARIANTS
  ExTypeOK
  PointersInOrder
  BufferIsStream
  ParsesAsReference
  OverflowOnlyTooLong
  RightAnswers
  ServedUnderRoot
  WireInOrder
  NothingLeaks
  NormalisedSoFar
PROPERTIES
  Answered
