\* Three threads on two keys of the same bucket; three items alive at once.
CONSTANTS
  NULL = NULL
  Threads = {t1, t2, t3}
  Items = {x1, x2, x3}
  k1 = k1
  k2 = k2
  Keys = {k1, k2}
  BucketCount = 1
  Hash <- Hashes
  UMax = 9
SPECIFICATION Spec
SYMMETRY Symmetry
INVARIANTS
  Conservation
  LenAccounts
  GuardedValues
  YieldedValues
PROPERTY Refines
