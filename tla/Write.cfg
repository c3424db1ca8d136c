CONSTANTS
  alice = alice
  bob = bob
  Users <- TwoUsers
  kMaxPendingWrites = 2
  MaxWrites = 3
  MaxDisruptions = 2
  MaxWaiters = 1
  AcksBeforeStatus = TRUE
SPECIFICATION FairSpec
CHECK_DEADLOCK FALSE
INVARIANTS
  PipelineInStep
  OutcomesAreTrue
PROPERTIES
  ImplementsDurableWrites
  QueueIsServed
