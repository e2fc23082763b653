SPECIFICATION Spec
CONSTANTS
  NMessages = 2
  Undecodable = {}
  ReadBatchSize = 1
  Flags <- MCDropFlags
  MaxAborts = 0
INVARIANT DroppedStaysDropped
CHECK_DEADLOCK FALSE
