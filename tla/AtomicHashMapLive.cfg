\* Two threads on two keys in one bucket each; no symmetry, for the liveness
\* properties.
CONSTANTS
  NULL = NULL
  Threads = {t1, t2}
  Items = {x1, x2, x3}
  k1 = k1
  k2 = k2
  Keys = {k1, k2}
  BucketCount = 2
  Hash <- Hashes
  UMax = 9
SPECIFICATION FairSpec
INVARIANTS
  TypeOK
  IterCoversMap
  HandlesCounted
PROPERTIES
  BucketsComeFree
  IterReachesEnd
