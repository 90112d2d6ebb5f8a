\* Every shape of domain against the spec's per-position bounding rule; the
\* bool specialisations run too, but no property reads them.
SPECIFICATION Spec
CONSTANTS
  Shapes = {"scalar", "vecBroadcast", "vec", "list", "valueList", "bool", "boolVec"}
  Xs = {0, 1, 2, 3, 4, 5, 7, 9}
  Mins = {2}
  Maxs = {4}
  AllowedSets = {{}, {1}}
  MaxLen = 2
  VecWidths = {2, 3, 4}
  VecXs = {0, 1, 5}
  NoValue = NoValue
INVARIANT BoundsMatchReference
