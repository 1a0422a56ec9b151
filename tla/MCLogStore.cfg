CONSTANTS
  Processes = {api, web}
  None = None
  Capacity = 2
  MaxLines = 2
  MemoryLimit = 4
  DiskLines = 1
  DiskBytes = 4
  Overhead = 1
  Chunk = 1
  Cadence = 1
  MaxMade = 3
  MaxFaults = 1
  MaxCrashes = 1
  Streams = {out, err}
  Stdout = out
  Stderr = err
  Killed = Killed
  NoLine = NoLine
  Room = 1
  Budget = 1
  MaxPrinted = 2
SPECIFICATION MCSpec
INVARIANTS
  MemoryAccounted
  TailMatchesHistory
  ReportsInOrder
PROPERTIES
  FeedSpec
  OnlyTheOldestGo
  EveryLineIsHeard
  RunEnds
CHECK_DEADLOCK FALSE
