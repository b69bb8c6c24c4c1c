\* when_any of a when_all of two inputs, one shared, and of two other futures.
SPECIFICATION FairSpec
CONSTANTS
  N = 2
  Shared = {1}
  M = 3
INVARIANTS
  AllMeansAll
  IndexIsReady
  GivingUpIsSafe
  FailsOnlyInDelivery
  AnyMeansAll
PROPERTIES
  NoRevival
  AllCompletes
  DeliveredOnce
  AnyCompletes
CHECK_DEADLOCK FALSE
