SPECIFICATION Spec
CONSTANTS
  Handlers = {h1, h2}
  Tokens <- MCTokens
  Nil = Nil
  MaxOverlapped = 1
INVARIANTS
  TypeOK
  RotatedOnce
  ReuseRevokesWhatExisted
PROPERTIES
  ReuseIsPunished
CHECK_DEADLOCK FALSE
