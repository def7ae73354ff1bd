SPECIFICATION Spec
CONSTANTS
  Node <- MCNode
  Source = 1
  Dest = 4
  Contact <- MCContact
  Unread = {}
  Features <- MCFeatures
  MsrLowerBound = 1
  MaxViable = 4
  MaxSends = 6
INVARIANT RecordSound
PROPERTY LoopsAvoided
CHECK_DEADLOCK FALSE
