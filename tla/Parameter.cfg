\* Deadlock is not checked: once every parameter is destroyed no call remains.
\* Two writer threads racing on one parameter; a third thread applies remote
\* values.  Every value-changing call, push_value() and push_bundle, of up to
\* MaxBundle entries, is bounded by MaxOps.
CONSTANTS
  Params = {p1}
  Threads = {t1, t2, t3}
  Writers = {t1, t2}
  Receivers = {t3}
  Types = {"impulse", "bool", "int"}
  Payloads = {0, 1}
  CallbackIds = {c1}
  BoundingModes = {"FREE", "CLIP"}
  NoValue = NoValue
  MaxOps = 3
  MaxBundle = 2
SPECIFICATION Spec
INVARIANTS
  TypeOK
  ValueMatchesType
  BundleReportsAll
CHECK_DEADLOCK FALSE
