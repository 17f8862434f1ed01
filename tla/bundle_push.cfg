\* A cluster manager, or a deployer with Enterprise Security, and two cluster
\* scoped apps, with every fault.
SPECIFICATION FairSpec
CONSTANTS
  ClusterApps = {c1, c2}
  EsApps = {e1}
  Kinds = {"ClusterManager", "SearchHeadCluster"}
  FaultKinds = {"mkdir", "copy", "exec", "cleanup", "push", "second", "crash"}
  MaxFaults = 2
INVARIANT InstalledIsPushed
PROPERTIES EventuallyPushed ComesToRest
