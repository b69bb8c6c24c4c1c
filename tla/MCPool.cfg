\* Safety: a submitter, a caller of Wait, a task that submits the other one.
SPECIFICATION Spec
CONSTANTS
  Submitters = {s1}
  Waiters = {x1}
  Workers = {w1, w2}
  Tasks = {t1, t2}
  Spawning = {t1}
  None = None
  coreThreadSize_ = 1
  maxThreadSize_ = 2
  QueueCapacity = 1
  BacklogLimit = 0
SYMMETRY Symmetry
INVARIANTS
  TasksConserved
  ScansStayValid
  AllJoined
  CoreDrained
PROPERTIES
  TaskBagSpec
CHECK_DEADLOCK FALSE
