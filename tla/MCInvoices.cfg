SPECIFICATION Spec
CONSTANTS
  Handlers = {h1, h2}
  InvoiceIds = {i1, i2}
  Totals <- MCTotals
  Amounts <- MCAmounts
  Years <- MCYears
  MaxPayments = 2
  MaxContended = 1
  MaxCrashes = 1
INVARIANTS
  TypeOK
  NumbersAreUnique
  NumbersHaveNoGap
  BooksMatchPayments
PROPERTIES
  ImplementsContract
  IssueIsAnnounced
CHECK_DEADLOCK FALSE
