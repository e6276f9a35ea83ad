SPECIFICATION TreeSpec
CONSTANTS
  Vocab = 8
  Segments = 2
  Extra = 2
  DraftK = 4
  Grid = 6
  Tenths = 10
  Servers <- MCServers
  Words = {0, 1}
  DraftRows <- MCDraftRows
  TargetRows <- MCTargetRows
  Params <- MCParams
  Hashes = {0, 3, 6}
INVARIANTS GreedyExact FrontExact SampleExact LawExact
CHECK_DEADLOCK FALSE
