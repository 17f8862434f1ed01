\* A fan-out CR with two pods, errors and lost copies on the pods.
SPECIFICATION Spec
CONSTANTS
  Apps = {a1}
  PremiumApps = {}
  Replicas = 2
  FanOut = TRUE
  MaxRetries = 0
  MaxConcurrent = 1
  PromptExit = TRUE
  FaultKinds = {"storage", "exec", "podPkg"}
  MaxFaults = 1
  MaxCrashes = 0
INVARIANT NoLostReplica
PROPERTIES ImplementsDelivery PackageKeptWhileNeeded
