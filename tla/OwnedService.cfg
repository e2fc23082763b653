SPECIFICATION FairSpec
CONSTANTS
  NVersions = 1
  Valid = {1}
  Finalized = {}
  MaxFaults = 1
  MaxOutside = 0
  MaxCrashes = 0
PROPERTY PipelineServiceFollows
