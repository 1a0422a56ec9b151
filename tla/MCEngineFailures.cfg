CONSTANTS
  db = db
  api = api
  edge = edge
  lint = lint
  docs = docs
  pg = pg
  http = http
  proxy = proxy
  build = build
  fmt = fmt
  Groups <- Small
  DependsOn <- SmallDependsOn
  StartupTasks <- MCStartupTasks
  OnChangeTasks <- MCOnChangeTasks
  Services <- MCServices
  HasReadyCheck = {pg}
  HasDelay = {http}
  HasCleanup = {proxy}
  TaskOnly = FALSE
  SpawnMayFail = TRUE
  MayNotExpand <- MCMayNotExpand
  RequestKinds = {"status", "group", "service", "reload"}
  MaxFailures = 0
  MaxExits = 1
  MaxChanges = 0
  MaxRequests = 1
SPECIFICATION Spec
INVARIANTS
  ServicesStaySupervised
