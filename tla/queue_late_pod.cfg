\* An IndexerCluster is created, and its second peer becomes ready just before
\* the StatefulSet is fetched again.
SPECIFICATION Spec
CHECK_DEADLOCK FALSE
CONSTANTS
  Setups <- LatePod
  Secrets = {1}
  MaxReplicas = 2
  MaxSettings = 1
  Invalid = {}
  MaxVersion = 5
  MaxEvents = 1
INVARIANT StatusIsApplied
