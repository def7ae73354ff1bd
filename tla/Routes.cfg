SPECIFICATION Spec
CONSTANTS
  Network <- MCNetworkThree
  LocalNode = 1
  Destination = 4
  Agent <- MCAgent
INVARIANTS MemorySound CompleteIfEnabled NoDuplicates EarliestFound
PROPERTY CallsEnd
