\* The process dies between two removals of a sweep.
CONSTANTS
  a = a
  b = b
  Keys = {k1, k2}
  NoKey = NoKey
  Paths <- MCPaths
  Layers <- MCLayers
  Procs = {p1}
  MaxId = 2
  Faults = {"crash"}
SPECIFICATION Spec
SYMMETRY Symmetry
INVARIANT NoLeakedRoots
