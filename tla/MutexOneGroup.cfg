\* Three threads that lock exclusively, one of which also uses the group lock;
\* park() may return to the other two without an unpark.
CONSTANTS
  Threads = {e1, e2, eg}
  Exclusive = {e1, e2, eg}
  Group = {eg}
  NULL = NULL
  YieldLimit = 1
  Spurious = {e1, e2}
  UnlockAllAtRest = FALSE
  QueueBound = 2
SPECIFICATION Spec
SYMMETRY Symmetry
INVARIANTS
  MutualExclusion
  NoPanic
  SomeoneAwake
  RegisteredOnce
PROPERTY Refines
