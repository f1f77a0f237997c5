SPECIFICATION Spec
CONSTANTS
  s1 = s1
  s2 = s2
  Slices = {s1, s2}
  NoView = NoView
  NoResume = NoResume
  NoCall = NoCall
  NoFeed = NoFeed
  Histories <- Apart
  Grants <- OneMoreOrNone
  Builds <- WantsEach
  CutLag = 1
  TailMax = 1
  Faults = {}
  MaxFaults = 0
  MaxGrants = 2
  MaxInbox = 1
  MaxWork = 1
INVARIANTS KeepsNothingUnseen
CHECK_DEADLOCK FALSE
