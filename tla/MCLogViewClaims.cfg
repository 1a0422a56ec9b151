\* The temporal ones are looked at one at a time.  QuitStopsTheDaemon fails without an
\* outage too, PendingEnds with queues of any length.
CONSTANTS
  Limit = 3
  PageSize = 1
  MaxPages = 1
  MaxLocal = 1
  Height = 1
  CommandRoom = 1
  LogRoom = 1
  PageRoom = 1
  MinDelay = 1
  MaxDelay = 2
  PrintedBy <- QuietFirst
  LinesPerMs = 1
  MaxLast = 3
  Kept = 3
  MaxOutages = 1
  api = api
  db = db
  web = web
  Sides = {"log"}
  Layouts <- MCLayouts
  Processes = {api, db, web}
  Noisy = {api}
  Whole = Whole
  Nobody = Nobody
  Counts = {0, 4}
  Heights <- MCHeights
  Undrawn = 2
  Word = 16
SPECIFICATION MCSpec
\* what the documentation says and the code does not do; tlc -continue finds every one
INVARIANTS
  ClearedStayGone
  TailIsInPlace
PROPERTIES
  PendingEnds
  QuitStopsTheDaemon
CHECK_DEADLOCK FALSE
