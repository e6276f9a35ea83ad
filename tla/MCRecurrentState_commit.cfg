SPECIFICATION Spec
CONSTANTS
  Modes = {"decode", "chain", "tree", "replay"}
  Reqs = {1, 2}
  NumRows = 2
  NumSlots = 5
  MaxDraft = 4
  Drafts = {2, 4}
  Win = 2
  Interval = 3
  EosAt = {1, 3}
  Chunks = {1, 3, 4}
  Prompt = 4
  MaxLen = 6
  MaxRetract = 1
INVARIANT StateExact
INVARIANT TrackExact
INVARIANT GramsExact
\* A bounded service stops when every request is done.
CHECK_DEADLOCK FALSE
