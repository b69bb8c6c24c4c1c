\* A periodic timer and one that is due once.
SPECIFICATION FairSpec
CONSTANTS
  t1 = t1
  t2 = t2
  t3 = t3
  None = None
  Timers <- TwoTimers
  FirstPoint <- TwoPoints
  delay <- TwoPeriods
  LastTick = 3
INVARIANTS
  TimersNotLost
  QueuedOnce
  OneLateRun
PROPERTIES
  DueRuns
  StopsWithTimers
CHECK_DEADLOCK FALSE
