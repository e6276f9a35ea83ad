\* Adaptive steps 0 to 3; _draft_probs_out is the one of two steps.
CONSTANTS
  Rows = {1, 2}
  StepChoices = {0, 1, 2, 3}
  StackSteps = 2
  MaxPrompt = 3
  MaxLen = 8
  MaxClock = 6
SPECIFICATION Spec
INVARIANTS TargetExact DraftExact SeedExact ProposalExact
CHECK_DEADLOCK FALSE
