\* One pod, a premium app, errors, lost packages and an operator restart.
SPECIFICATION FairSpec
CONSTANTS
  Apps = {a1}
  PremiumApps = {a1}
  Replicas = 1
  FanOut = FALSE
  MaxRetries = 1
  MaxConcurrent = 1
  PromptExit = TRUE
  FaultKinds = {"storage", "exec", "operatorPkg", "podPkg"}
  MaxFaults = 1
  MaxCrashes = 1
INVARIANTS TypeOK CompleteMeansInstalled NoOrphanWorker RetriesBounded NoLostWork
PROPERTIES ImplementsDelivery EntryEnds EventuallySettled
