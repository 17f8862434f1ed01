SPECIFICATION Spec
CONSTANTS
  Clusters = {"SearchHead", "Indexer"}
  Replicas = 2
  Together = FALSE
  KeepVersions = 2
  MaxChanges = 3
  MaxVersions = 5
  MaxLag = 1
  Hazards = {"exec", "rest", "crash", "api", "early", "lost", "revert"}
  MaxHazards = 2
INVARIANT ReadyIsInSync
INVARIANT MountedCopyIsKept
INVARIANT RestartInMaintenance
INVARIANT SyncKeepsAccess
PROPERTY SecretsSettle
