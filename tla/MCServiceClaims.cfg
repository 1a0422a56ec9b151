CONSTANTS
  HasReadyCheck = TRUE
  HasStopCommand = TRUE
  HasKillCommand = FALSE
  UsesPty = TRUE
  LogMayBlock = TRUE
  SpawnMayFail = FALSE
  MayNotExpand = FALSE
  ClientPolls = TRUE
  StopTimeout = 2
  ReadyTimeout = 2
  ProbeInterval = 1
  MinDelay = 1
  MaxDelay = 2
  MaxRuns = 2
  MaxReloads = 1
SPECIFICATION Spec
\* what the documentation says and the code does not do; tlc -continue finds every one
INVARIANTS
  CleanupOnlyBeforeASpawn
  ProbesNeverOverlap
  StopHookIsBounded
  ReloadedServiceIsWatched
  RunningOnlyAfterZeroExit
  NothingStranded
