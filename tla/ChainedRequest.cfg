CONSTANTS
  MaxReq = 3
  MaxTime = 20
  Begin = 14
  Timeout = 2
  Wrap = 16
  QueueCap = 8
  SendFrom = {"idle", "response"}
  TickAt = {"idle", "response"}
SPECIFICATION Spec
INVARIANT NoTimerNoTransaction
CHECK_DEADLOCK FALSE
