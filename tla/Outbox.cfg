SPECIFICATION FairSpec
CONSTANTS
  Kinds = {"outbox", "online"}
  NoPost = NoPost
  Limit = 1
  SendRetries = 1
  MaxMutations = 2
  MaxQueue = 2
  MaxFaults = 2
  MaxFreezes = 1
  MaxRefused = 1
INVARIANTS
  DecidedOnceInOrder
  LeavesOnlyShown
  OnlineTellsTheTruth
PROPERTIES
  OutboxDrains
CHECK_DEADLOCK FALSE
