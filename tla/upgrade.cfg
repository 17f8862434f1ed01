SPECIFICATION Spec
CHECK_DEADLOCK FALSE
CONSTANTS
  Deployments <- Tiers
  Consoles = {"mc"}
  Workers = 2
  FirstNine = 2
  Changes = {"upgrade", "delete"}
  Faults = {"api", "get"}
  MaxEvents = 2
PROPERTY UpgradeInOrder
PROPERTY AllSettle
