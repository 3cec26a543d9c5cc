CONSTANTS
  MaxReq = 2
  MaxTime = 20
  Begin = 14
  Timeout = 2
  Wrap = 16
  QueueCap = 8
  SendFrom = {"idle"}
  TickAt = {"idle", "timeout"}
SPECIFICATION Spec
PROPERTY TimerForFirst
CHECK_DEADLOCK FALSE
