SPECIFICATION LiveSpec
CONSTANTS
  Threads = {1, 2, 3}
  Tasks = {t1, t2, t3}
  Idle = Idle
CHECK_DEADLOCK FALSE
INVARIANTS
  PoolTypeOK
  RunsOnce
  DestroyedClean
  NoSleepOverWork
PROPERTIES
  DestroyReturns
  TasksRun
