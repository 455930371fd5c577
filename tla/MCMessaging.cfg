SPECIFICATION Spec
CONSTANTS
  Handlers = {h1, h2}
  T = T
  someone = someone
  Contexts = {T, Nil}
  Records <- MCRecords
  Deals <- MCDeals
  Subjects = {someone}
  Nil = Nil
  Gone = Gone
  InitialRecords <- MCInitialRecords
  InitialDeals <- MCInitialDeals
  MaxRequests = 3
  MaxImport = 2
  Rules <- MCRules
  InitialRules <- MCInitialRules
  Triggers = {"moved"}
  ActionLists <- MCActionLists
  Payloads <- MCPayloads
SYMMETRY AnyHandler
INVARIANTS
  TypeOK DealsFollow ImportAddsNoDuplicate
  LinksStayInTenant AckedIsStored NoActionSkipped
CHECK_DEADLOCK FALSE
