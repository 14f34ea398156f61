SPECIFICATION Spec
CONSTANTS
  Tabs = {a, b}
  Requests = {r1, r2}
  TaskIds = {t1, t2}
  Releases <- OneRelease
  None = None
  StoreFails = TRUE
  MaxFaults = 1
SYMMETRY Symmetric
INVARIANTS TypeOK AcceptedIsPersisted StartedTasksAreReserved AuditIsTruthful ActiveIsPolled
PROPERTIES AuditIsFinal
