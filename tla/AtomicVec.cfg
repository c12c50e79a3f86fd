\* Three threads, three items alive at once; no symmetry, for the liveness properties.
CONSTANTS
  Threads = {t1, t2, t3}
  Items = {a, b, c}
  NULL = NULL
SPECIFICATION FairOrderSpec
INVARIANTS
  TypeOK
  LockExclusive
  HandlesCounted
  Conservation
  LenAccounts
  ListOrder
PROPERTIES
  Refines
  LockComesFree
