\* Two threads write one parameter while a client registers it up to twice
\* with the queue; another listener comes and goes.  Deadlock is not
\* checked: once the parameter is removed and the queue drained no call
\* remains.
CONSTANTS
  Params = {p1}
  Threads = {t1, t2}
  Writers = {t1, t2}
  Receivers = {t2}
  Types = {"impulse", "int"}
  Payloads = {0, 1}
  CallbackIds = {mq, c1}
  MQCallback = mq
  BoundingModes = {"FREE", "CLIP"}
  NoValue = NoValue
  MaxOps = 2
  MaxBundle = 0
  MaxRegs = 2
SPECIFICATION MQSpec
INVARIANTS
  MQTypeOK
  RegisteredIffCallback
CHECK_DEADLOCK FALSE
