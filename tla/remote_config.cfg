\* Every kind of resource that has a remote configuration.
SPECIFICATION Spec
CHECK_DEADLOCK FALSE
CONSTANTS
  Setups <- All
  Secrets = {1}
  MaxReplicas = 2
  MaxSettings = 3
  Invalid = {2}
  MaxVersion = 5
  MaxEvents = 3
INVARIANT StatusIsApplied
PROPERTIES PushIsCurrent ConfigReachesInstances
