SPECIFICATION Spec
CONSTANTS
  Handlers = {h1, h2}
  QuoteIds = {q1, q2}
  InvoiceIds <- MCInvoiceIds
  Nil = Nil
  Totals <- MCTotals
  MaxContended = 1
  MaxCrashes = 1
INVARIANTS
  TypeOK
  LinkIsSound
  BilledOnce
PROPERTIES
  ImplementsContract
  ConversionIsAnnounced
CHECK_DEADLOCK FALSE
