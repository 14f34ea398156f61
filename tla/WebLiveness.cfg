SPECIFICATION Spec
CONSTANTS
  Tabs = {a}
  Requests = {r1, r2}
  TaskIds = {t1, t2}
  Releases <- OneRelease
  None = None
  StoreFails = FALSE
  MaxFaults = 1
PROPERTIES WatchedTaskIsSeenToEnd WatchedEndIsAudited
