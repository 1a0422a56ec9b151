CONSTANTS
  db = db
  api = api
  edge = edge
  lint = lint
  docs = docs
  pg = pg
  http = http
  proxy = proxy
  build = build
  fmt = fmt
  Groups <- Small
  DependsOn <- SmallDependsOn
  StartupTasks <- MCStartupTasks
  OnChangeTasks <- MCOnChangeTasks
  Services <- MCServices
  HasReadyCheck = {pg}
  HasDelay = {}
  HasCleanup = {}
  TaskOnly = FALSE
  SpawnMayFail = FALSE
  MayNotExpand = {}
  RequestKinds = {"group", "task", "service", "all"}
  MaxFailures = 1
  MaxExits = 0
  MaxChanges = 1
  MaxRequests = 1
SPECIFICATION FairSpec
INVARIANTS
  NobodyWaitsInVain
  ServicesFollowTasks
PROPERTIES
  EveryGroupComesToRest
