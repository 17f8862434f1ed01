\* Progress of a fan-out CR whose work fits the yield interval.
SPECIFICATION QuickSpec
CONSTANTS
  Apps = {a1}
  PremiumApps = {}
  Replicas = 2
  FanOut = TRUE
  MaxRetries = 0
  MaxConcurrent = 1
  PromptExit = TRUE
  FaultKinds = {"storage", "exec", "operatorPkg", "podPkg"}
  MaxFaults = 0
  MaxCrashes = 0
PROPERTY ReplicasEventuallySettled
