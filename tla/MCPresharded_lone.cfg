\* A rank fails alone while the ranks dump.
CONSTANTS
  LastRank = 1
  Configs = {"c1"}
  Weights <- MCWeights
  MaxCrash = 1
  FailAt = {"dump"}
  MaxFail = 1
  MaxRot = 0
SPECIFICATION Spec
INVARIANT ReadyMeansWhole
CHECK_DEADLOCK FALSE
