\* Every submitted task runs, against FutureTest.cpp:84-86.
SPECIFICATION FairSpec
CONSTANTS
  Submitters = {s1}
  Waiters = {}
  Workers = {w1}
  Tasks = {t1, t2}
  Spawning = {}
  None = None
  coreThreadSize_ = 1
  maxThreadSize_ = 1
  QueueCapacity = 1
  BacklogLimit = 0
PROPERTIES
  SubmittedRuns
CHECK_DEADLOCK FALSE
