CONSTANTS
  a = a
  b = b
  c = c
  u = u
  applets = applets
  Host = Host
  NoName = NoName
  Applets = applets
  Name = {a, b}
  Url = {u}
  Event = {applets}
  MaxId = 2
  MaxMid = 3
  MaxCalls = 2
  MaxApps = 2
  MaxResources = 1
  QueueCap = 1
  Requests <- TrafficRequests
  AppEvents = {}
  AppNames = {}
  Failures = {"thread", "timers"}
SPECIFICATION Spec
INVARIANTS TypeOK AnsweredOnce FreedIsGone RightRecipient
PROPERTY NoReturn
CHECK_DEADLOCK FALSE
