SPECIFICATION Spec
CONSTANTS
  r1 = r1
  r2 = r2
  n1 = n1
  n2 = n2
  n3 = n3
  n4 = n4
  n5 = n5
  Reqs <- MCReqs
  Nodes <- MCNodes
  Timeouts = {1, 3}
  PqSize = 1
  Horizon = 3
  None = None
  Fired = Fired
SYMMETRY Symmetry
CHECK_DEADLOCK FALSE
INVARIANTS
  TqTypeOK
  HeapOrder
  NoOversleep
PROPERTIES
  ExpireComplete
  TimerSpec
