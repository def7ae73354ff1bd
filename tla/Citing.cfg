SPECIFICATION Spec
CONSTANTS
  Contact <- MCContact
  Receiver <- MCReceiver
  Path <- MCPath
  Node <- MCNode
  Route <- MCRoute
  Neighbors <- MCNeighbors
INVARIANT PointersSound
PROPERTIES DeletedOnPurpose WalkAdvances
