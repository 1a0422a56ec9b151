CONSTANTS
  Services = {s1, s2, s3}
  WithStopCommand = {s1}
  WithKillCommand = {s2}
  InPty = {s1, s2}
  StopTimeout = 2
  web = web
  api = api
  lib = lib
  src = src
  tmp = tmp
  gen = gen
  Groups <- MCGroups
  Paths = {src, tmp, gen}
  Configs <- MCConfigs
  DefaultIgnored = {tmp}
  Unhurried = {api}
  MaxWindow = 2
  MaxWrites = 3
  MaxReloads = 2
  None = None
SPECIFICATION MCSpec
INVARIANTS
  ForcedOnceAfterItsWindow
  NoneLeftUnforced
PROPERTIES
  ShutdownEnds
  HandsOverInTime
  EveryChangeIsHandedOver
