SPECIFICATION Spec
CONSTANTS
  Tabs = {a, b}
  Requests = {r1, r2}
  TaskIds = {t1, t2}
  Releases <- TwoReleases
  None = None
  StoreFails = TRUE
  MaxFaults = 1
PROPERTIES ConfirmedVersionIsStarted
