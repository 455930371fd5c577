SPECIFICATION Spec
CONSTANTS
  Events = {e1}
  Subs = {s1, s2}
  Deletable = {s2}
  Dispatchers = {p1}
  Workers = {w1, w2}
  Schedule <- MCSchedule
  Nil = Nil
  MaxPosts = 2
  MaxFaults = 1
INVARIANTS
  TypeOK
  PostsAreCounted
  ProcessedOnce
PROPERTIES
  EveryoneIsServed
CHECK_DEADLOCK FALSE
