SPECIFICATION FairSpec
CONSTANTS
  Namespaces = {n1}
  NVersions = 3
  Reverts = FALSE
  Rollouts = {g1, g2}
  MaxReplicas = 2
  MaxGen = 2
  MaxEdits = 2
  MaxFaults = 1
  MaxCrashes = 1
INVARIANTS TypeOK AlwaysAPipeline
PROPERTIES ScaleSettles DeploysInOrder RolloutFinishes OneReplicaIsEnough
CHECK_DEADLOCK FALSE
