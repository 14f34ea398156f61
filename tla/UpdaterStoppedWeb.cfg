SPECIFICATION Spec
CONSTANTS
  Versions <- OneUpdate
  TaskIds = {t1}
  Faults <- AllFaults
  None = None
  MaxCrashes = 0
INVARIANTS StoppedWebIsRestored
