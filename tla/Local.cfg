SPECIFICATION MCSpec
CONSTANTS
  Keys = {1, 2, 3}
  Slices = {"a", "b"}
  SliceOf <- MCSliceOf
  x = x
  y = y
  Values = {x, y}
  Absent = Absent
  Deleted = Deleted
  Untouched = Untouched
  Undefined = Undefined
  NoResult = NoResult
  FirstBatch = 1
  MaxBatch = 1
  Mutations = {"drop", "clear"}
  Predictor <- MCPredictor
  Queries = {"p"}
  Programs <- MCPrograms
  ConnectionKey = 101
  OutboxKey = 102
  Bases <- MCBases
  Stored <- MCStored
  MaxEdits = 2
  Bang = 1
  Comma = 3
  Colon = 5
  Prefix <- MCPrefix
  Universe <- MCUniverse
  StoredKeySets <- MCStoredKeys
  Updates <- MCUpdates
  Patterns <- MCPatterns
  Budgets = {0, 1}
  Limits = {2}
  ListKeys = {1, 2, 3, 4, 5, 6, 7, 8, 9}
  Block = 3
  Share = 3
  Changes <- MCChanges
  People = {"p1", "p2", "p3"}
  LoginNames = {"alice", "bob"}
  Clerk = "clerk"
  Isbns = {"e"}
  Copies = {"b", "c", "d"}
  Catalog <- MCCatalog
  Readers <- MCReaders
  HoldIds = {1, 2}
  CheckoutIds = {1}
  Times = {0}
  HoldTime = 1
  CheckoutTime = 1
  MaxHolds = 1
  MaxOverdue = 1
  MaxSent = 5
  WireTypes <- MCWireTypes
  WireValues <- MCWireValues
  MaxDepth = 3
  BufferSize = 8
  ChunkSizes = {7, 30}
  Tags <- MCTags
  Streams <- MCStreams
  Anys <- MCAnys
  Blobs <- MCBlobs
  Epoch <- MCEpoch
  Position <- MCPosition
  Changed <- MCChanged
  PageOps = 2
  PageBytes = 9
  MaxOperation = 12
  MaxDownloads = 3
INVARIANTS ConvertsWhatItIs DownloadsAreWhole LibraryHolds QueriesShowTheView GraphHolds StoreHolds
CHECK_DEADLOCK FALSE
