SPECIFICATION IdleSpec
CONSTANTS
  N = 3
  MaxSignals = 2
CHECK_DEADLOCK FALSE
INVARIANTS
  MasterTypeOK
  EveryWorkerTold
  LeftPerSignal
PROPERTY OneDownAllDown
