SPECIFICATION IdleSpec
CONSTANTS
  N = 2
  MaxSignals = 2
CHECK_DEADLOCK FALSE
PROPERTY NoOrphan
