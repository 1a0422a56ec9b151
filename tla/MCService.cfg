CONSTANTS
  HasReadyCheck = TRUE
  HasStopCommand = TRUE
  HasKillCommand = TRUE
  UsesPty = TRUE
  LogMayBlock = FALSE
  SpawnMayFail = TRUE
  MayNotExpand = TRUE
  ClientPolls = TRUE
  StopTimeout = 2
  ReadyTimeout = 2
  ProbeInterval = 1
  MinDelay = 1
  MaxDelay = 2
  MaxRuns = 4
  MaxReloads = 1
SPECIFICATION Spec
INVARIANTS
  ReadinessSettlesOncePerSpawn
  EveryStopIsBounded
  NothingStranded
PROPERTIES
  NoEarlyKill
