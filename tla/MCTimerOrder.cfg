\* The order in which timers run, against ThreadPool.h:518.
SPECIFICATION Spec
CONSTANTS
  t1 = t1
  t2 = t2
  t3 = t3
  None = None
  Timers <- ThreeTimers
  FirstPoint <- Points
  delay <- Periods
  LastTick = 2
PROPERTIES
  EarliestFirst
CHECK_DEADLOCK FALSE
