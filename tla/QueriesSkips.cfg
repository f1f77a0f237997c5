SPECIFICATION Spec
CONSTANTS
  Keys = {1, 2, 3}
  Slices = {"a", "b"}
  SliceOf <- MCSliceOf
  x = x
  y = y
  Values = {x, y}
  Absent = Absent
  Deleted = Deleted
  Untouched = Untouched
  Undefined = Undefined
  NoResult = NoResult
  FirstBatch = 2
  MaxBatch = 2
  Mutations = {"drop", "clear"}
  Predictor <- MCPredictor
  Queries = {"p"}
  Programs <- MCPrograms
  ConnectionKey = 101
  OutboxKey = 102
  Bases <- MCBases
  Stored <- MCStored
  MaxEdits = 1
INVARIANTS QueriesShowTheView
CHECK_DEADLOCK FALSE
