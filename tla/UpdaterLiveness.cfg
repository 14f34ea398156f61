SPECIFICATION FairSpec
CONSTANTS
  Versions <- OneUpdate
  TaskIds = {t1, t2}
  Faults <- PlatformFaults
  None = None
  MaxCrashes = 2
INVARIANTS TaskIsAttended
PROPERTIES EveryTaskEnds WebComesBack
