\* The builder fails.
CONSTANTS
  a = a
  b = b
  Keys = {k1, k2}
  NoKey = NoKey
  Paths <- MCPaths
  Layers <- MCLayers
  Procs = {p1}
  MaxId = 2
  Faults = {"builderFails"}
SPECIFICATION Spec
SYMMETRY Symmetry
INVARIANT AckedRooted
