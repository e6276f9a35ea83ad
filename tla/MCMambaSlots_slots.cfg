\* Two requests and a prefix cache share the seven slots that two requests take
\* together with one donation, under overlap; without it five would do.  Each
\* request may cross two multiples of the interval.
CONSTANTS
  NumSlots = 7
  Reqs = {1, 2}
  Overlaps = {TRUE, FALSE}
  Interval = 4
  Width = 2
  Chunks = {3, 4}
  MaxLen = 9
  MaxId = 2
SPECIFICATION Spec
INVARIANTS SlotsConserved MainExact TrackedExact CachedExact
CHECK_DEADLOCK FALSE
