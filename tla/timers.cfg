SPECIFICATION Spec
CONSTANTS
  Timers = {rebuild, t1, t2, t3}
  Repeating = {rebuild, t3}
  Rebuild = rebuild
  Ids = {1, 2}
  Main = main
  TimerThread = thread
  Apps = {app}
  None = none
  HighWater = 2
INVARIANTS
  TypeOK
  RightProcessor
  KeepsTicking
  NoDeadTimer
PROPERTIES
  ExpiryProcessed
  ThreadExits
CHECK_DEADLOCK FALSE
