CONSTANTS
  Processes = {api, web}
  None = None
  Capacity = 2
  MaxLines = 2
  MemoryLimit = 4
  DiskLines = 1
  DiskBytes = 4
  Overhead = 1
  Chunk = 1
  Cadence = 1
  MaxMade = 0
  MaxFaults = 0
  MaxCrashes = 0
  Streams = {out, err}
  Stdout = out
  Stderr = err
  Killed = Killed
  NoLine = NoLine
  Room = 1
  Budget = 1
  MaxPrinted = 2
SPECIFICATION MCSpec
INVARIANTS
  PrintedIsReported
  SucceedsWithZero
CHECK_DEADLOCK FALSE
