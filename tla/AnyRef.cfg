\* Three handles; the counts pass MAX_REFCOUNT and stay below usize::MAX.
CONSTANTS
  Handles = {h1, h2, h3}
  Readers = {h1}
  MaxRefcount = 2
  UMax = 8
  Types = {T, U}
  NONE = NONE
SPECIFICATION FairSpec
INVARIANTS
  TypeOK
  CastsSafe
  LockCounted
PROPERTIES
  Refines
  LockReturned
