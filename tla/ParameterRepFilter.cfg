\* Only a protocol thread writes: every write goes through filter_value.
CONSTANTS
  Params = {p1}
  Threads = {t1}
  Writers = {}
  Receivers = {t1}
  Types = {"impulse", "int"}
  Payloads = {0, 1}
  CallbackIds = {c1}
  BoundingModes = {"FREE"}
  NoValue = NoValue
  MaxOps = 3
  MaxBundle = 0
SPECIFICATION Spec
INVARIANT RepeatNotSignalled
CHECK_DEADLOCK FALSE
