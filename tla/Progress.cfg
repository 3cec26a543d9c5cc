CONSTANTS
  TimerApp = {"p", "q"}
  AppTimer = {1, 2}
  TimerOwner <- OwnerOfTimer
  Periodic = {1}
  MaxInterval = 2
  SensorApp = {"p", "q"}
  Sensor = {"s"}
  DefaultInterval = 2
  Intervals = {0, 2}
  MaxSensorCalls = 3
  MaxWait = 2
  Nobody = Nobody
  Talker = {"reader", "manager"}
  Reader = "reader"
  MaxSends = 2
  MaxPeers = 2
  ToolTimeout = 2
  AliveTime = 1
  MaxResend = 1
  MaxEvents = 1
  MaxLosses = 1
  NoneGiven = NoneGiven
SPECIFICATION Spec
INVARIANTS
  CallbackModuleKept NoTimerSleptThrough
  LeastIsRead
  StreamsWhole
  OperationAsGiven StatusIsOwn
PROPERTIES
  TimerServed ClientServed SendReturns ToolEnds
CHECK_DEADLOCK FALSE
