SPECIFICATION PlanSpec
CONSTANTS
  Node <- MCNode
  MaxPosixTime = 100
  ContactLink <- OneLink
  RangeLink <- OneLink
  PlanTime <- MCPlanTimeWide
  ClockTime <- MCClockTime
  RefTime <- MCRefTime
  Lapses <- NoLapse
INVARIANTS PlanTypeOK NoOverlap Addressable ExpiryBound
PROPERTIES SweepExact AgentView
CHECK_DEADLOCK FALSE
