\* Four handles; the counts pass MAX_REFCOUNT and stay below usize::MAX.
CONSTANTS
  Handles = {h1, h2, h3, h4}
  Readers = {h1}
  MaxRefcount = 3
  AbortAbove = 2
  UMax = 10
SPECIFICATION FairSpec
INVARIANTS
  TypeOK
  CountsExact
  FreedWithLast
  ValueWithStrong
  GuardsExclude
PROPERTIES
  UniqueMeansAlone
  LastFinishes
