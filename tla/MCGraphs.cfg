CONSTANTS
  api = api
  db = db
  proto = proto
  docs = docs
  auth = auth
  feed = feed
  web = web
  Groups <- MCGroups
  DependsOn <- MCDependsOn
  Names = {api, db, auth, web}
SPECIFICATION GraphsSpec
INVARIANTS
  AcceptsTheWellFounded
  SortsDependenciesFirst
  SkipsTheLeastClosure
  NobodyWaitsInVain
PROPERTIES
  OrderedStartSpec
  StartSettles
\* each of the three comes to an end
CHECK_DEADLOCK FALSE
