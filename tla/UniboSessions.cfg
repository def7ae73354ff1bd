SPECIFICATION Spec
CONSTANTS
  Node <- MCNode
  MaxPosixTime = 100
  LocalNode = 1
  Destination <- LastNode
  ContactLink <- Mesh
  RangeLink <- NoLink
  PlanTime <- MCPlanTime
  ClockTime <- MCClockTime
  RefTime <- FixedReference
  Lapses <- NoLapse
INVARIANT RoutesSound
PROPERTIES RoutesCurrent NeighborsExact
