SPECIFICATION Spec
CHECK_DEADLOCK FALSE
CONSTANTS
  Deployments <- Instances
  Consoles = {"mc", "other"}
  Workers = 2
  FirstNine = 2
  Changes = {"scale", "move"}
  Faults = {"crash", "pod"}
  MaxEvents = 2
INVARIANT ReadyIsTrue
PROPERTY AllSettle
