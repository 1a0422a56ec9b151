CONSTANTS
  Limit = 1
  PageSize = 1
  MaxPages = 1
  MaxLocal = 2
  Height = 1
  CommandRoom = 1
  LogRoom = 1
  PageRoom = 1
  MinDelay = 1
  MaxDelay = 2
  PrintedBy <- MCPrintedBy
  LinesPerMs = 1
  MaxLast = 5
  Kept = 1
  MaxOutages = 0
  api = api
  db = db
  web = web
  Sides = {"log"}
  Layouts <- MCLayouts
  Processes = {api, db, web}
  Noisy = {api}
  Whole = Whole
  Nobody = Nobody
  Counts = {0, 4}
  Heights <- MCHeights
  Undrawn = 2
  Word = 16
SPECIFICATION MCSpec
INVARIANTS
  ClearedStayHidden
  NewLinesShow
CHECK_DEADLOCK FALSE
