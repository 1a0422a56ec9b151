CONSTANTS
  db = db
  api = api
  edge = edge
  lint = lint
  docs = docs
  pg = pg
  http = http
  proxy = proxy
  build = build
  fmt = fmt
  Groups <- Large
  DependsOn <- LargeDependsOn
  StartupTasks <- MCStartupTasks
  OnChangeTasks <- MCOnChangeTasks
  Services <- MCServices
  HasReadyCheck = {pg, http}
  HasDelay = {}
  HasCleanup = {http}
  TaskOnly = FALSE
  SpawnMayFail = FALSE
  MayNotExpand <- MCMayNotExpand
  RequestKinds = {}
  MaxFailures = 1
  MaxExits = 1
  MaxChanges = 0
  MaxRequests = 0
SPECIFICATION FairSpec
PROPERTIES
  OrderedStartSpec
