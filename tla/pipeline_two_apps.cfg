\* One pod, two apps that compete for its install slot.
SPECIFICATION Spec
CONSTANTS
  Apps = {a1, a2}
  PremiumApps = {}
  Replicas = 1
  FanOut = FALSE
  MaxRetries = 0
  MaxConcurrent = 1
  PromptExit = TRUE
  FaultKinds = {"mkdir"}
  MaxFaults = 1
  MaxCrashes = 0
SYMMETRY AppSymmetry
INVARIANTS InstallSlotExclusive NoDoubleRun
