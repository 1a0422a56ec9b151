CONSTANTS
  api = api
  web = web
  Sockets = {api, web}
  Processes = {p1, p2, p3}
  Users = {u1}
  Attempts = 1
  MaxCommands = 1
  MaxCrashes = 1
  None = None
  Order <- MCOrder
  Tokens = {t1, t2}
  MaxRequests = 1
SPECIFICATION WorkspaceSpec
SYMMETRY Symmetry
\* what the documentation says and the code does not do; tlc -continue finds every one
INVARIANTS
  FailedBootLeavesNothing
PROPERTIES
  StoppedCleanly
  StopsOnlyItsOwn
CHECK_DEADLOCK FALSE
