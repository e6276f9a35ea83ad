\* One live request next to padding rows laid out on the host: the padding
\* rows store into the live request's ring.
CONSTANTS
  NumReqs = 1
  Ratio = 2
  RingSize = 4
  Width = 3
  PageSize = 4
  CaptureBs = 2
  HostLayout = TRUE
  MaxLen = 7
  MaxTurn = 4
SPECIFICATION Spec
INVARIANTS RowsSeeHistory
CHECK_DEADLOCK FALSE
