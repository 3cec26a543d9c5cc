CONSTANTS
  MaxReq = 3
  MaxTime = 20
  Begin = 14
  Timeout = 2
  Wrap = 16
  QueueCap = 8
  SendFrom = {"idle"}
  TickAt = {"idle"}
SPECIFICATION Spec
PROPERTY AddedToTail
CHECK_DEADLOCK FALSE
