CONSTANTS
  a = a
  b = b
  c = c
  u = u
  applets = applets
  Host = Host
  NoName = NoName
  Applets = applets
  Name = {a, b, c}
  Url = {}
  Event = {applets}
  MaxId = 3
  MaxMid = 3
  MaxCalls = 1
  MaxApps = 2
  MaxResources = 1
  QueueCap = 2
  Requests <- LifecycleRequests
  AppEvents = {applets}
  AppNames = {}
  Failures = {"build", "thread", "announce"}
SPECIFICATION Spec
INVARIANTS AnsweredOnce WithinLimit FreedIsGone HostViewCurrent
PROPERTY ServiceSpec
CHECK_DEADLOCK FALSE
