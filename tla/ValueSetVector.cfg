\* vector_domain with two positions: update, then read the sets back.
SPECIFICATION Spec
CONSTANTS
  Kinds = {"vector"}
  Floats = {1, 2}
  Strings = {"a"}
  Positions = 2
  MaxVals = 2
  Modes = {"FREE", "CLIP"}
  NoValue = NoValue
INVARIANT GetReflectsLastUpdate
