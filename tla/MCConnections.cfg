SPECIFICATION Spec
CONSTANTS
  Handlers = {h1, h2}
  Rows <- MCRows
  Providers <- MCProviders
  Invoices = {i}
  Drafts = {i}
  Nil = Nil
  Gone = Gone
  InitialProviders <- MCInitial
  MaxRequests = 4
  MaxStates = 2
  MaxTokens = 3
  MaxExpiries = 1
SYMMETRY AnyHandler
INVARIANTS
  TypeOK
  TokenIsLive
  OneDocument
PROPERTIES
  GrantIsKept
CHECK_DEADLOCK FALSE
