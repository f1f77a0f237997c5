SPECIFICATION Spec
CONSTANTS
  s1 = s1
  s2 = s2
  Slices = {s1, s2}
  NoView = NoView
  NoResume = NoResume
  NoCall = NoCall
  NoFeed = NoFeed
  Histories <- Short
  Grants <- OnlyAll
  Builds <- MoreOrFewer
  CutLag = 0
  TailMax = 1
  Faults = {"restart"}
  MaxFaults = 3
  MaxGrants = 0
  MaxInbox = 1
  MaxWork = 1
INVARIANTS ViewIsTold
CHECK_DEADLOCK FALSE
