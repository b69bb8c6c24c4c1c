\* Three concurrent calls, two values, an executor that may throw.
SPECIFICATION FairSpec
CONSTANTS
  Calls = {c1, c2, c3}
  Values = {v1, v2}
  None = None
  ExecutorThrows = TRUE
INVARIANTS
  DeliveredOnce
  AnsweredFromStore
  NoStrandedWaiter
  OneContinuation
  NoContinuationLost
PROPERTIES
  OneShotSpec
  NotifierSpec
  WaitersReturn
  InstalledRuns
CHECK_DEADLOCK FALSE
