SPECIFICATION Spec
CONSTANTS
  Handlers = {h1, h2}
  QuoteIds = {q1}
  InvoiceIds <- MCInvoiceIds
  Nil = Nil
  Totals <- MCTotals
  MaxContended = 1
  MaxCrashes = 0
INVARIANTS
  OneInvoicePerQuote
CHECK_DEADLOCK FALSE
