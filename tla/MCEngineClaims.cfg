CONSTANTS
  db = db
  api = api
  edge = edge
  lint = lint
  docs = docs
  pg = pg
  http = http
  proxy = proxy
  build = build
  fmt = fmt
  Groups <- Small
  DependsOn <- SmallDependsOn
  StartupTasks <- MCStartupTasks
  OnChangeTasks <- MCOnChangeTasks
  Services <- MCServices
  HasReadyCheck = {pg}
  HasDelay = {http}
  HasCleanup = {}
  TaskOnly = FALSE
  SpawnMayFail = FALSE
  MayNotExpand = {proxy}
  RequestKinds = {"reload", "all", "status"}
  MaxFailures = 0
  MaxExits = 0
  MaxChanges = 0
  MaxRequests = 1
SPECIFICATION Spec
INVARIANTS
  NobodyWaitsInVain
  ServicesFollowTasks
  EveryServiceIsKeptAlive
PROPERTIES
  ReloadRunsNoTask
  WaitersFollowDependencies
