\* Two requests, trees of two branches; pools whose host copies are complete are
\* also offloaded.  When both requests hold one token, their round needs a page
\* more than there is.
CONSTANTS
  Kinds = {"mha", "quantized", "fp4", "mxfp8", "mla", "dsa", "hybrid", "qsa", "minimax"}
  Offloaded = {"mha", "mxfp8", "mla", "dsa", "hybrid"}
  Reqs = {1, 2}
  NumPages = 7
  PageSlots = 2
  TreeTopk = 2
  Steps = 2
  DraftTokens = 4
  Cap = 2
  ChunkSize = 2
  Prompt <- MCPrompt
  MaxTokens = 2
  MaxRetract = 1
SPECIFICATION PoolSpec
INVARIANTS Whole BranchesWhole WorkspaceExact
CHECK_DEADLOCK FALSE
