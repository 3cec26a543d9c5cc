CONSTANTS
  a = a
  b = b
  c = c
  u = u
  applets = applets
  Host = Host
  NoName = NoName
  Applets = applets
  Name = {a, b}
  Url = {u}
  Event = {applets}
  MaxId = 3
  MaxMid = 3
  MaxCalls = 1
  MaxApps = 2
  MaxResources = 1
  QueueCap = 1
  Requests <- AnswerRequests
  AppEvents = {applets}
  AppNames = {a}
  Failures = {"build", "thread"}
SPECIFICATION FairSpec
PROPERTY ManagementAnswered
CHECK_DEADLOCK FALSE
