SPECIFICATION FairSpec
CONSTANTS
  Specs <- MCSpecs
  MaxReplicas = 1
  MaxFaults = 1
INVARIANTS
  TypeOK
  DeployedIsChain
  PhaseIsWorst
  IdleIsServedButAliased
PROPERTIES LastSpecIsServedButAliased DeploysInOrder
