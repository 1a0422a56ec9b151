CONSTANTS
  Services = {s1, s2}
  WithStopCommand = {s1}
  WithKillCommand = {}
  InPty = {s2}
  StopTimeout = 1
SPECIFICATION Spec
\* what the documentation says and the code does not do; tlc -continue finds every one
INVARIANTS
  EveryServiceIsStopped
  StopHooksAreWaitedFor
