SPECIFICATION Spec
CONSTANTS
  Node <- MCNode
  MaxPosixTime = 100
  TimeZero = 10
  ContactLists <- MCContactLists
  RangeLists <- MCRangeLists
  ClockTime <- MCClockTime
  MaxEdits = 2
INVARIANT InSync
PROPERTIES UnchangedKept CallsEnd
CHECK_DEADLOCK FALSE
