CONSTANTS
  Services = {s1, s2}
  WithStopCommand = {s1}
  WithKillCommand = {s2}
  InPty = {s1}
  StopTimeout = 2
  web = web
  api = api
  lib = lib
  src = src
  tmp = tmp
  gen = gen
  Groups <- MCGroups
  Paths = {src, tmp, gen}
  Configs <- MCConfigs
  DefaultIgnored = {tmp}
  Unhurried = {api}
  MaxWindow = 2
  MaxWrites = 3
  MaxReloads = 2
  None = None
SPECIFICATION MCSpec
\* what the documentation says and the code does not do; tlc -continue finds every one
INVARIANTS
  DefaultsAreIgnored
  WindowIsConfigured
PROPERTIES
  IgnoresAreTheGroupsOwn
