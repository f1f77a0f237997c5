SPECIFICATION FairSpec
CONSTANTS
  Slices = {"a", "b"}
  Wants = {"a", "b"}
  Grants <- MCGrants
  Mutations <- MCErasing
  Failures = {FALSE, TRUE}
  Conns = {c1, c2}
  NoConn = NoConn
  NoView = NoView
  MaxPosition = 2
  MaxGroup = 2
  MaxBacklog = 1
  ColdBatch = 1
  MaxDrops = 1
  MaxGeneration = 1
INVARIANTS
  ViewsHold
  StreamIsExact
  NoLostWakeup
  NoStaleTokenStreams
PROPERTIES ClientCatchesUp
