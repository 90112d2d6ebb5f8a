\* Every kind of domain but vector_domain: updates, reads and clamps in any
\* order, starting from any allowed values the domain was built with.
SPECIFICATION Spec
CONSTANTS
  Kinds = {"float", "string", "value", "vecf", "bool", "impulse"}
  Floats = {1, 2}
  Strings = {"a"}
  Positions = 2
  MaxVals = 2
  Modes = {"FREE", "CLIP"}
  NoValue = NoValue
INVARIANTS GetReflectsLastUpdate
