SPECIFICATION Spec
CONSTANTS
  Versions <- OneUpdate
  TaskIds = {t1}
  Faults <- NoFaults
  None = None
  MaxCrashes = 1
INVARIANTS CleanupSurvivesCrash
