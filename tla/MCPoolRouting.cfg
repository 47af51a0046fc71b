SPECIFICATION Spec
CONSTANTS
  None = None
  N = 3
  NeighborhoodSize = 2
  InitialHost <- Identity
  Requests <- Ask3
  Migrations <- Move2
  MaxActive = 1
  MaxCrashes = 1
  SharedConf = FALSE
INVARIANT RoutingInv
PROPERTIES  AllSettle
CHECK_DEADLOCK FALSE
