SPECIFICATION Spec
CHECK_DEADLOCK FALSE
CONSTANTS
  Apps = {1, 2, 3}
  Sources = {"local", "cluster"}
  SourceOf <- Placement
  ClusterScoped = {"cluster"}
  EndsWith <- Hidden
  MinInterval = 60
  MaxInterval = 86400
  PageSize = 2
  Setups <- All
  MaxVersion = 2
  MaxEvents = 3
INVARIANTS DeployedIsTrue RefCountRestored
PROPERTIES NoListingDuringPush RepoConverges
