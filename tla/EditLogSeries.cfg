SPECIFICATION Spec
CONSTANTS
  Slices = {"a"}
  Fields = {"f"}
  Values = {v1}
  Absent = Absent
  Deleted = Deleted
  Untouched = Untouched
  Mutations <- MCNumbered
  Invalid <- MCInvalid
  Series = {"s", "cron"}
  NoSeries = NoSeries
  NoExpect = NoExpect
  Boot = Boot
  MaxPosition = 3
  MaxWrites = 1
  MaxQueue = 2
  MaxCrashes = 1
INVARIANTS
  TypeOK
  CarriedOutOnce
  OkIsDurable
  RejectedLeavesNothing
  ExpectationHolds
PROPERTIES
  CommittedPositionsStand
