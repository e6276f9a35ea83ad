SPECIFICATION Spec
CONSTANTS
  Servers <- MCServers
  Rows = {1, 2}
  HeadRows = 3
  MaxPrompt = 1
  MaxLen = 5
  MaxId = 3
INVARIANTS ReplayExact SharedExact HandoffExact
CHECK_DEADLOCK FALSE
