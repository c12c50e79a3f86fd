\* Violated: two exclusive threads, the code's own YIELD_LIMIT.
CONSTANTS
  Threads = {e1, e2}
  Exclusive = {e1, e2}
  Group = {}
  NULL = NULL
  YieldLimit = 10
  Spurious = {}
  UnlockAllAtRest = FALSE
  QueueBound = 0
SPECIFICATION FairSpec
PROPERTY SleepersWake
