\* A registered parameter is written and then removed from the device.
CONSTANTS
  Params = {p1}
  Threads = {t1}
  Writers = {t1}
  Receivers = {}
  Types = {"impulse", "int"}
  Payloads = {0, 1}
  CallbackIds = {mq}
  MQCallback = mq
  BoundingModes = {"FREE"}
  NoValue = NoValue
  MaxOps = 1
  MaxBundle = 0
  MaxRegs = 2
SPECIFICATION MQSpec
INVARIANT QueueHoldsLiveParams
CHECK_DEADLOCK FALSE
