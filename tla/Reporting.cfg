SPECIFICATION FairReportingSpec
CONSTANTS
  Invoices = {i1, i2}
  Funds = {f1}
  Sessions = {s1, s2}
  None = None
  Face <- TwoCents
  Parties <- FirstParty
  Periods <- Months
  Calendar <- Calendars
  Amounts <- WholeAmounts
  Corrections <- AllOrNone
  MaxRecs = 2
  MaxBatches = 1
  Dated <- RecordDays
  Due <- DueDays
  FirstDay = 3
  LastDay = 4
  AgingStep = 1
INVARIANTS NoDayOverAllocates ReportsAgree
PROPERTIES PastReportsStand EveryRequestEnds
CHECK_DEADLOCK FALSE
