CONSTANTS
  db = db
  api = api
  edge = edge
  lint = lint
  docs = docs
  pg = pg
  http = http
  proxy = proxy
  build = build
  fmt = fmt
  Groups <- Large
  DependsOn <- LargeDependsOn
  StartupTasks <- ApartTasks
  OnChangeTasks <- MCOnChangeTasks
  Services <- ApartServices
  HasReadyCheck = {pg}
  HasDelay = {}
  HasCleanup = {}
  TaskOnly = TRUE
  SpawnMayFail = FALSE
  MayNotExpand = {}
  RequestKinds = {}
  MaxFailures = 2
  MaxExits = 0
  MaxChanges = 0
  MaxRequests = 0
SPECIFICATION FairSpec
INVARIANTS
  NothingLeftUndone
PROPERTIES
  CommandEnds
