\* A client registers one parameter twice and unregisters it once.
CONSTANTS
  Params = {p1}
  Threads = {t1}
  Writers = {t1}
  Receivers = {}
  Types = {"impulse", "int"}
  Payloads = {0, 1}
  CallbackIds = {mq}
  MQCallback = mq
  BoundingModes = {"FREE"}
  NoValue = NoValue
  MaxOps = 1
  MaxBundle = 0
  MaxRegs = 2
SPECIFICATION MQSpec
INVARIANT RegistrationKept
CHECK_DEADLOCK FALSE
