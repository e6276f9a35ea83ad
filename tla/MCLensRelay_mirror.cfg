\* With the host mirror of the lengths and, as served, without it, where the
\* scheduler never waits; the debug build's poisoning of consumed rows.
CONSTANTS
  PoolRows = {1, 2}
  NeedsCpu = {TRUE, FALSE}
  Debug = TRUE
  MaxForward = 5
SPECIFICATION LensSpec
INVARIANTS GatherExact MirrorExact NoRace
CHECK_DEADLOCK FALSE
