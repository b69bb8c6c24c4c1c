\* The largest number of threads, against ThreadPool.h:595.
SPECIFICATION Spec
CONSTANTS
  Submitters = {s1, s2}
  Waiters = {}
  Workers = {w1, w2}
  Tasks = {t1, t2}
  Spawning = {}
  None = None
  coreThreadSize_ = 1
  maxThreadSize_ = 1
  QueueCapacity = 1
  BacklogLimit = 0
SYMMETRY TaskSymmetry
INVARIANTS
  MaxThreads
CHECK_DEADLOCK FALSE
