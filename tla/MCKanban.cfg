SPECIFICATION BoardSpec
CONSTANTS
  Slots = {h1, h2}
  Users = {u}
  Managers = {}
  Seller = u
  Deals <- MCDeals
  a = a
  b = b
  c = c
  x = x
  P = P
  Q = Q
  Stages = {a, b, c, x}
  Pipelines = {P, Q}
  PipelineOf <- MCPipelineOf
  InitialStages <- MCInitialStages
  InitialKind <- MCInitialKind
  FirstStage = a
  InitialDeals = 2
  None = None
  RankGap = 6
  MinGap = 6
  Precision = 1
  MaxRequests = 3
SYMMETRY AnySlot
INVARIANTS
  BoardTypeOK
  OrderIsTotal
  LogTellsTheStory
CHECK_DEADLOCK FALSE
