CONSTANTS
  HasReadyCheck = TRUE
  HasStopCommand = TRUE
  HasKillCommand = TRUE
  UsesPty = TRUE
  LogMayBlock = FALSE
  SpawnMayFail = FALSE
  MayNotExpand = TRUE
  ClientPolls = FALSE
  StopTimeout = 2
  ReadyTimeout = 2
  ProbeInterval = 1
  MinDelay = 1
  MaxDelay = 2
  MaxRuns = 3
  MaxReloads = 0
SPECIFICATION FairSpec
PROPERTIES
  CrashedServiceRespawns
  EveryStopEnds
