SPECIFICATION LiveSpec
CONSTANTS
  Scripts <- MCScripts
  HdrCap = 6
  BodyCap = 7
  LineCap = 4
  OutLimit = 9
CHECK_DEADLOCK FALSE
INVARIANTS
  CgiTypeOK
  ReadsOnlyWhenSent
  WellFramed
  Delivered
  CompleteWhenDone
PROPERTY Completes
