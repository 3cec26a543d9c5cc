CONSTANTS
  a = a
  b = b
  c = c
  u = u
  applets = applets
  Host = Host
  NoName = NoName
  Applets = applets
  Name = {a, b}
  Url = {u}
  Event = {applets}
  MaxId = 2
  MaxMid = 3
  MaxCalls = 0
  MaxApps = 2
  MaxResources = 1
  QueueCap = 1
  Requests <- AnswerRequests
  AppEvents = {}
  AppNames = {}
  Failures = {"timers"}
SPECIFICATION Spec
INVARIANT InstalledHasThread
CHECK_DEADLOCK FALSE
