\* Violated: two group threads and two exclusive threads.
CONSTANTS
  Threads = {e1, e2, g1, g2}
  Exclusive = {e1, e2}
  Group = {g1, g2}
  NULL = NULL
  YieldLimit = 0
  Spurious = {}
  UnlockAllAtRest = TRUE
  QueueBound = 0
SPECIFICATION Spec
INVARIANT MutualExclusion
