SPECIFICATION Spec
CONSTANTS
  Namespaces = {n1, n2}
  NVersions = 2
  Reverts = FALSE
  Rollouts = {g1, g2}
  MaxReplicas = 2
  MaxGen = 1
  MaxEdits = 1
  MaxFaults = 0
  MaxCrashes = 0
PROPERTY RetiresOwnPipeline
CHECK_DEADLOCK FALSE
