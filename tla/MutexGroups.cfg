\* One exclusive thread and two group threads; no symmetry, for the liveness.
CONSTANTS
  Threads = {e1, g1, g2}
  Exclusive = {e1}
  Group = {g1, g2}
  NULL = NULL
  YieldLimit = 0
  Spurious = {}
  UnlockAllAtRest = TRUE
  QueueBound = 0
SPECIFICATION FairSpec
INVARIANTS
  TypeOK
  GroupCounted
  RegisteredOnce
PROPERTIES
  ParkingListsComeFree
  UnlocksWakeSleepers
