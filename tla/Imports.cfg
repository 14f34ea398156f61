SPECIFICATION Spec
CONSTANTS
  Sessions = {a, b}
  i1 = i1
  i2 = i2
  t1 = t1
  t2 = t2
  None = None
  Shas <- MCShas
  Statements <- MCStatements
  Invoices = {i1, i2}
  Transactions = {t1, t2}
  Parsed <- MCParsed
  MaxUploads = 3
  MaxCrashes = 1
SYMMETRY Symmetric
INVARIANTS TypeOK LedgerIsTraceable NoRowIsDropped BalancesAgree FilesAreOwned
PROPERTIES StatusMovesForward
CHECK_DEADLOCK FALSE
