CONSTANTS
  MaxReq = 4
  MaxTime = 20
  Begin = 14
  Timeout = 2
  Wrap = 16
  QueueCap = 8
  SendFrom = {"idle", "timeout"}
  TickAt = {"idle", "response"}
SPECIFICATION Spec
INVARIANTS HandledOnce OnTime
PROPERTY NeverEarly
CHECK_DEADLOCK FALSE
