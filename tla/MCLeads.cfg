SPECIFICATION Spec
CONSTANTS
  Handlers = {h1, h2}
  LeadIds <- MCLeadIds
  DealIds <- MCDealIds
  Forms = {f1}
  Nil = Nil
  Gone = Gone
  MaxContended = 1
SYMMETRY AnyHandler
INVARIANTS
  TypeOK
  ConvertedOnce
CHECK_DEADLOCK FALSE
