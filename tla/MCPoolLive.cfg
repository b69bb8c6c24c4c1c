\* Liveness: two submitters, a task that submits the other one, DestoryPool.
SPECIFICATION FairSpec
CONSTANTS
  Submitters = {s1, s2}
  Waiters = {}
  Workers = {w1, w2}
  Tasks = {t1, t2}
  Spawning = {t1}
  None = None
  coreThreadSize_ = 1
  maxThreadSize_ = 1
  QueueCapacity = 1
  BacklogLimit = 0
PROPERTIES
  BusyWorkerKeepsUp
  BusyWorkerStops
  AddTaskReturns
CHECK_DEADLOCK FALSE
