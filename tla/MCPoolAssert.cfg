\* The assertion of ~Worker, ThreadPool.h:300-303.
SPECIFICATION Spec
CONSTANTS
  Submitters = {s1}
  Waiters = {}
  Workers = {w1, w2}
  Tasks = {t1, t2, t3}
  Spawning = {}
  None = None
  coreThreadSize_ = 1
  maxThreadSize_ = 2
  QueueCapacity = 1
  BacklogLimit = 0
SYMMETRY TaskSymmetry
INVARIANTS
  DestroyedEmpty
CHECK_DEADLOCK FALSE
