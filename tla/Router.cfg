SPECIFICATION Spec
CONSTANTS
  Bundle <- MCBundle
  Link <- MCLink
  Remote <- MCRemote
  Planned <- MCPlanned
  Destination <- MCDestination
  PrevHop <- MCPrevHop
  Critical <- MCCritical
  Custody <- MCCustody
  AlwaysOn <- FirstLink
  Existing <- FirstLink
  QueueHigh = 1
  QueueLow = 1
  MaxEvents = 2
  MaxFaults = 2
INVARIANTS QueuesSound NoneLost NoneForgotten
CHECK_DEADLOCK FALSE
