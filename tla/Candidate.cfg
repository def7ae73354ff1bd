CONSTANTS
  Gig = 3
  MaxVolume = 1000
  Plan <- MCPlan
  Bundle <- MCBundle
  Time <- MCTime
SPECIFICATION Spec
INVARIANTS BacklogExact CandidateExact LightTimeFound
CHECK_DEADLOCK FALSE
