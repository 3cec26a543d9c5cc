CONSTANTS
  a = a
  b = b
  c = c
  u = u
  applets = applets
  Host = Host
  NoName = NoName
  Applets = applets
  Name = {a, b}
  Url = {}
  Event = {applets}
  MaxId = 2
  MaxMid = 3
  MaxCalls = 1
  MaxApps = 2
  MaxResources = 1
  QueueCap = 1
  Requests <- PairRequests
  AppEvents = {}
  AppNames = {b}
  Failures = {}
SPECIFICATION Spec
INVARIANT ResponseHasReceiver
CHECK_DEADLOCK FALSE
