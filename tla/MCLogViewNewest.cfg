\* Lines of one millisecond are lost, too, with fewer than the limit of them:
\* Limit = 3, MaxLast = 2, LinesPerMs = 2.
CONSTANTS
  Limit = 2
  PageSize = 1
  MaxPages = 1
  MaxLocal = 3
  Height = 1
  CommandRoom = 1
  LogRoom = 1
  PageRoom = 1
  MinDelay = 1
  MaxDelay = 2
  PrintedBy <- MCPrintedBy
  LinesPerMs = 1
  MaxLast = 3
  Kept = 3
  MaxOutages = 0
  api = api
  db = db
  web = web
  Sides = {"log"}
  Layouts <- MCLayouts
  Processes = {api, db, web}
  Noisy = {api}
  Whole = Whole
  Nobody = Nobody
  Counts = {0, 4}
  Heights <- MCHeights
  Undrawn = 2
  Word = 16
SPECIFICATION MCSpec
PROPERTIES
  NewestArrives
CHECK_DEADLOCK FALSE
