\* Two writers racing set_value on one parameter with a listener attached.
CONSTANTS
  Params = {p1}
  Threads = {t1, t2}
  Writers = {t1, t2}
  Receivers = {}
  Types = {"impulse", "int"}
  Payloads = {0, 1}
  CallbackIds = {c1}
  BoundingModes = {"FREE"}
  NoValue = NoValue
  MaxOps = 2
  MaxBundle = 0
SPECIFICATION Spec
INVARIANT NotifyInCommitOrder
CHECK_DEADLOCK FALSE
