SPECIFICATION Spec
CONSTANTS
  Namespaces = {n1}
  NVersions = 2
  Reverts = TRUE
  Rollouts = {g1, g2}
  MaxReplicas = 2
  MaxGen = 2
  MaxEdits = 2
  MaxFaults = 0
  MaxCrashes = 0
INVARIANT AlwaysAPipeline
CHECK_DEADLOCK FALSE
