\* Violated: len is not the number of items.
CONSTANTS
  Threads = {t1, t2}
  Items = {a, b}
  NULL = NULL
SPECIFICATION OrderSpec
INVARIANT LenExactWhenQuiet
