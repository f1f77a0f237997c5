SPECIFICATION MCSpec
CONSTANTS
  Docker <- MCDocker
  Pre <- MCPre
  Post <- MCPost
  CommandKeys = {"G"}
  NoSlot = NoSlot
  Faults = {"step", "child", "follower", "docker", "write", "panic", "killed", "mismatch", "slow"}
  MaxFaults = 2
  MaxKeys = 3
  MaxEvents = 4
  Streams = {"console", "ui"}
  Console = "console"
  CR = 13
  LF = 10
  Chunks <- MCChunks
  MaxInputs = 5
  Widths = {3, 4, 6}
  Height = 2
  Deltas <- MCDeltas
INVARIANTS NothingForgotten BooksAreRight LogHolds
PROPERTIES BootsInOrder WalksToTarget ScrollsByRows
CHECK_DEADLOCK FALSE
