SPECIFICATION MCSpec
SYMMETRY ContentSymmetry
CONSTANTS
  Slices = {sa, sb}
  Fields = {fa, fb}
  Values = {v1}
  Absent = Absent
  Deleted = Deleted
  Untouched = Untouched
  Mutations <- MCUnnumbered
  Invalid <- MCInvalid
  Series = {"s", "cron"}
  NoSeries = NoSeries
  NoExpect = NoExpect
  Boot = Boot
  MaxPosition = 3
  MaxWrites = 2
  MaxQueue = 1
  MaxCrashes = 0
  Callers = {1, 2}
  TokenLife = 5
  RefreshAfter = 2
  ExpiryLead = 2
  Delay = 1
  SendRetries = 1
  MaxMishaps = 1
  SessionTimes = {2, 3, 4, 5, 6}
  Kids = {1, 2}
  KeyTimes = {0, 2, 3, 5}
  Rotation = 2
  Grace = 2
  Lifetime = 2
  NoKey = NoKey
  NoMint = NoMint
  Schedules <- MCSchedules
  CronCap = 2
  WholeMinute = 2
  WallTimes = {0, 1, 2, 3, 4, 5, 6, 7}
  MaxSteps = 3
  Calls = {c1, c2, c3}
  Refusing = {c1}
  Workers = {1}
  QueuePlaces = 1
  NoJob = NoJob
INVARIANTS
  TablesAgree
  ReadsOwnWrites
  SessionHolds
  LiveTokensVerify
  CronHolds
  PoolHolds
PROPERTIES
  CommitsWhatWasWritten
