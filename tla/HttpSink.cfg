SPECIFICATION FairSpec
CONSTANTS
  NMessages = 5
  Undecodable = {2}
  ReadBatchSize = 3
  Flags <- MCFlags
  MaxAborts = 2
INVARIANTS
  TypeOK
  NoFalseAck
  OnlyDropBlocks
PROPERTIES
  CallReturns
  WrittenAloneIsAcked
CHECK_DEADLOCK FALSE
