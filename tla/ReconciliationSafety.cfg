SPECIFICATION Spec
CONSTANTS
  Invoices = {i1, i2}
  Funds = {f1}
  Sessions = {s1, s2}
  None = None
  Face <- TwoCents
  Parties <- OneParty
  Periods <- Months
  Calendar <- Dates
  Amounts <- SplitAmounts
  Corrections <- AnyInvoices
  MaxRecs = 2
  MaxBatches = 1
INVARIANTS TypeOK NoOverAllocation DecisionsAreCurrent BatchesAreSettledOnce DeadlocksStayInOneTable SuggestionsAreExact
PROPERTIES ShownAmountsAreCurrent LedgerSpec
SYMMETRY Symmetry
CHECK_DEADLOCK FALSE
