\* Violated: try_unwrap gives the value out and drops it too.
CONSTANTS
  Handles = {h1, h2, h3}
  Readers = {h1}
  MaxRefcount = 3
  AbortAbove = 2
  UMax = 10
SPECIFICATION Spec
INVARIANT DestroyedOnce
