SPECIFICATION Spec
CONSTANTS
  Contact <- MCContact
  RegionOf <- MCRegionOf
  Capacity <- MCCapacity
  Near <- MCNear
  Route <- MCRoute
  Bundle <- MCBundle
  PriorityOf <- MCPriorityOf
  RegionTo <- MCRegionTo
  Critical = {"critical"}
  Recorded <- MCRecorded
  Unsteady = {"h"}
  Arriving <- MCArriving
  CopyId <- MCCopyId
  CloneFragments = FALSE
  MaxEvents = 4
INVARIANTS RefillExact VolumeCovered InstancesSound
CHECK_DEADLOCK FALSE
