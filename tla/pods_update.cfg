\* Two replicas, two changes by the user, any two faults.
SPECIFICATION FairSpec
CONSTANTS
  Kinds = {"Default", "SearchHead", "Indexer"}
  MaxReplicas = 2
  MaxRevision = 2
  MaxChanges = 2
  FaultKinds = {"api", "rest", "claim", "finalize", "restart", "crash"}
  MaxFaults = 2
INVARIANT CleanScaleUp
PROPERTIES DrainedBeforeRemoval OneAtATime EventuallyReady
