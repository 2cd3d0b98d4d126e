\* Liveness of the reclamation of GC roots, so no symmetry.
CONSTANTS
  a = a
  b = b
  Keys = {k1, k2}
  NoKey = NoKey
  Paths <- MCPaths
  Layers <- MCLayers
  Procs = {p1, p2}
  MaxId = 2
  Faults = {"builderFails", "relabel"}
SPECIFICATION FairSpec
INVARIANT NoLeakedRoots
PROPERTIES RootsReclaimed RootsStay
