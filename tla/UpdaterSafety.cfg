SPECIFICATION Spec
CONSTANTS
  Versions <- MCVersions
  TaskIds = {t1, t2}
  Faults <- AllFaults
  None = None
  MaxCrashes = 2
SYMMETRY Symmetry
INVARIANTS TypeOK OriginalRetained JournalIsWrittenAhead
PROPERTIES MigrationsAreGuarded OnlyReplacedImageIsRemoved OutcomesAreTruthful ImplementsUpgrade
