SPECIFICATION Spec
CONSTANTS
  Invoices = {i1}
  Funds = {f1, f2}
  Sessions = {s1, s2}
  None = None
  Face <- TwoCents
  Parties <- OneParty
  Periods <- OneParty
  Calendar <- Dates
  Amounts <- SplitAmounts
  Corrections <- AnyInvoices
  MaxRecs = 1
  MaxBatches = 1
INVARIANTS DraftsExcludeOccupied
CHECK_DEADLOCK FALSE
