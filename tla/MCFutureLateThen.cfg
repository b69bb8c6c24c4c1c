\* then() on a future that is already ready, against README.md:5.
SPECIFICATION FairSpec
CONSTANTS
  Calls = {c1, c2}
  Values = {v1}
  None = None
  ExecutorThrows = FALSE
PROPERTIES
  AcceptedRuns
CHECK_DEADLOCK FALSE
