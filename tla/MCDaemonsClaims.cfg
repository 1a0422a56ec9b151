CONSTANTS
  Sockets = {web}
  Processes = {p1, p2}
  Users = {u1, u2}
  Attempts = 2
  MaxCommands = 3
  MaxCrashes = 0
  None = None
SPECIFICATION Spec
\* what the documentation says and the code does not do; tlc -continue finds every one
INVARIANTS
  OneAtATime
  StoppedBeforeStarted
CHECK_DEADLOCK FALSE
