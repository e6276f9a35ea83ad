\* Three request rows with elision on: enough for a running batch of two, a
\* filter that reorders positions, and a prefill merged behind it.
CONSTANTS
  Rows = {r1, r2, r3}
  NoRow = none
  Elide = TRUE
  MaxClock = 3
SYMMETRY RowSymmetry
SPECIFICATION Spec
INVARIANTS ElisionExact
PROPERTIES NoClobber KeepsPromise
CHECK_DEADLOCK FALSE
