SPECIFICATION Spec
CONSTANTS
  Specs <- MCUnitSpecs
  MaxReplicas = 1
  MaxFaults = 0
INVARIANT IdleIsServed
