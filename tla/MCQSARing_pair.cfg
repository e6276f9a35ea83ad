\* Two request slots, the tightest ring the code admits (3 + 2 - 1 = 4 rows),
\* enough length for the ring to wrap and enough forwards for a slot's reuse.
CONSTANTS
  NumReqs = 2
  Ratio = 2
  RingSize = 4
  Width = 3
  PageSize = 4
  CaptureBs = 2
  HostLayout = FALSE
  MaxLen = 7
  MaxTurn = 4
SPECIFICATION Spec
INVARIANTS RowsSeeHistory PendingGroupKept
PROPERTY CommittedGroupsFinal
CHECK_DEADLOCK FALSE
