\* NothingLeftUndone also fails with HasReadyCheck = {} and MayNotExpand <- MCMayNotExpand:
\* a group none of whose tasks expands stays Running.
CONSTANTS
  db = db
  api = api
  edge = edge
  lint = lint
  docs = docs
  pg = pg
  http = http
  proxy = proxy
  build = build
  fmt = fmt
  Groups <- Small
  DependsOn <- SmallDependsOn
  StartupTasks <- MCStartupTasks
  OnChangeTasks <- MCOnChangeTasks
  Services <- MCServices
  HasReadyCheck = {http}
  HasDelay = {}
  HasCleanup = {}
  TaskOnly = TRUE
  SpawnMayFail = FALSE
  MayNotExpand = {}
  RequestKinds = {}
  MaxFailures = 0
  MaxExits = 0
  MaxChanges = 0
  MaxRequests = 0
SPECIFICATION Spec
INVARIANTS
  NothingLeftUndone
  TaskOnlyStartsNothing
