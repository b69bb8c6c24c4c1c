\* Three links of any kind, two of which share a future; the executor may throw.
SPECIFICATION FairSpec
CONSTANTS
  N <- Three
  awaits <- SharedChain
  Mixes <- ValueRival
  Read = {1}
  ExecutorThrows = TRUE
INVARIANTS
  NeverBlocks
  ErrorsTravel
  ClaimedByOne
  GuardedStores
  ResumedSuspended
PROPERTIES
  SuspendedResumes
CHECK_DEADLOCK FALSE
