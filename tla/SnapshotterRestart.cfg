\* One call at a time, and every way to die in it.
CONSTANTS
  a = a
  b = b
  Keys = {k1, k2, k3}
  NoKey = NoKey
  Paths <- MCPaths
  Layers <- MCLayers
  Procs = {p1}
  MaxId = 3
  Faults = {"crash", "tornCreate", "commitFails", "removeFails", "cancel"}
SPECIFICATION Spec
SYMMETRY Symmetry
INVARIANTS LiveHasDir AckedRooted
