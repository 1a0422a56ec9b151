CONSTANTS
  HasReadyCheck = FALSE
  HasStopCommand = FALSE
  HasKillCommand = FALSE
  UsesPty = TRUE
  LogMayBlock = FALSE
  SpawnMayFail = FALSE
  MayNotExpand = FALSE
  ClientPolls = TRUE
  StopTimeout = 2
  ReadyTimeout = 2
  ProbeInterval = 1
  MinDelay = 1
  MaxDelay = 2
  MaxRuns = 2
  MaxReloads = 0
SPECIFICATION FairSpec
PROPERTY
  CrashedServiceRespawns
