\* Violated: two group threads, one of which also locks exclusively.
CONSTANTS
  Threads = {e1, g1, g2}
  Exclusive = {e1, g1}
  Group = {g1, g2}
  NULL = NULL
  YieldLimit = 0
  Spurious = {}
  UnlockAllAtRest = TRUE
  QueueBound = 0
SPECIFICATION Spec
INVARIANT SomeoneAwake
