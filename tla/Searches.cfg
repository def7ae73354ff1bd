SPECIFICATION Spec
CONSTANTS
  Network <- MCNetwork
  LocalNode = 1
  Destination = 4
  Time <- MCTime
INVARIANT SearchSound
PROPERTY SearchEnds
