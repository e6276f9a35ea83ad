\* Two ranks, two configs that meet in one directory, launches killed at any
\* point, a rank lost while it loads or serves, and a tensor damaged on disk.
CONSTANTS
  LastRank = 1
  Configs = {"c1", "c2"}
  Weights <- MCWeights
  MaxCrash = 2
  FailAt = {"load", "done"}
  MaxFail = 1
  MaxRot = 1
SPECIFICATION Spec
INVARIANTS ReadyMeansWhole ServesItsWeights OnePath
PROPERTY EventuallyServes
