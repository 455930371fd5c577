SPECIFICATION Spec
CONSTANTS
  Events = {e1}
  Subs = {s1}
  Deletable = {}
  Dispatchers = {p1}
  Workers = {w1}
  Schedule <- MCSchedule
  Nil = Nil
  MaxPosts = 2
  MaxFaults = 0
INVARIANTS
  FirstRetryAfterAMinute
CHECK_DEADLOCK FALSE
