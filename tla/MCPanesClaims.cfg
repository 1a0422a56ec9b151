CONSTANTS
  Limit = 3
  PageSize = 1
  MaxPages = 1
  MaxLocal = 4
  Height = 1
  CommandRoom = 1
  LogRoom = 1
  PageRoom = 1
  MinDelay = 1
  MaxDelay = 2
  PrintedBy <- MCPrintedBy
  LinesPerMs = 1
  MaxLast = 3
  Kept = 2
  MaxOutages = 1
  api = api
  db = db
  web = web
  Sides = {"panes", "tree"}
  Layouts <- Shrinking
  Processes = {api, db, web}
  Noisy = {api}
  Whole = Whole
  Nobody = Nobody
  Counts = {0, 4}
  Heights <- MCHeights
  Undrawn = 2
  Word = 16
SPECIFICATION MCSpec
INVARIANTS
  RestartsNothingHidden
PROPERTIES
  KeysStayInTheGrid
  FocusIsRemembered
  ScrollingStopsFollowing
CHECK_DEADLOCK FALSE
