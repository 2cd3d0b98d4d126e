\* Two calls at a time, a process that dies and clients that give up.
CONSTANTS
  a = a
  b = b
  Keys = {k1, k2}
  NoKey = NoKey
  Paths <- MCPaths
  Layers <- MCLayers
  Procs = {p1, p2}
  MaxId = 3
  Faults = {"crash", "cancel", "removeFails"}
SPECIFICATION Spec
SYMMETRY Symmetry
INVARIANTS TypeOK LiveHasDir DoomedDead AckedRooted MountedPresent
PROPERTY ImplementsPinnedStore
