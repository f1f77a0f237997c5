SPECIFICATION FocusedSpec
CONSTANTS
  s1 = s1
  s2 = s2
  Slices = {s1, s2}
  NoView = NoView
  NoResume = NoResume
  NoCall = NoCall
  NoFeed = NoFeed
  Histories <- LivesAndErasures
  Grants <- AnyPart
  Builds <- MoreOrFewer
  CutLag = 1
  TailMax = 1
  Faults = {"open", "tail", "page", "drop", "restart"}
  MaxFaults = 1
  MaxGrants = 2
  MaxInbox = 1
  MaxWork = 1
INVARIANTS Consistent ViewIsTold EngineNeverFails
PROPERTIES MirrorsHistory
CHECK_DEADLOCK FALSE
