SPECIFICATION FairSpec
CONSTANTS
  NVersions = 3
  Valid = {1, 3}
  Finalized = {"isbsvc"}
  MaxFaults = 1
  MaxOutside = 1
  MaxCrashes = 1
INVARIANTS TypeOK NothingMissing
PROPERTIES Converges SpecNeverGoesBack
