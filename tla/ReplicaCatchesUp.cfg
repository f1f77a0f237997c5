SPECIFICATION FairSpec
CONSTANTS
  s1 = s1
  s2 = s2
  Slices = {s1, s2}
  NoView = NoView
  NoResume = NoResume
  NoCall = NoCall
  NoFeed = NoFeed
  Histories <- Short
  Grants <- OneOrNone
  Builds <- WantsAll
  CutLag = 0
  TailMax = 1
  Faults = {"open", "tail", "page"}
  MaxFaults = 1
  MaxGrants = 1
  MaxInbox = 1
  MaxWork = 1
PROPERTIES CatchesUp
CHECK_DEADLOCK FALSE
