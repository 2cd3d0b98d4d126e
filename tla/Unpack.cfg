\* Two clients, three images, and ids for a lost race on two layers.
CONSTANTS
  a = a
  b = b
  base = base
  Paths <- MCPaths
  Layers <- MCLayers
  BaseDiffs = {base}
  Requests <- MCRequests
  Keys <- MCKeys
  NoKey = NoKey
  NoImage = NoImage
  NoMounts = NoMounts
  Procs = {p1, p2}
  Containers = {c1}
  MaxId = 5
  Faults = {}
SPECIFICATION UnpackSpec
SYMMETRY Symmetry
INVARIANTS ClosureMounted RootsExact
PROPERTY MountsRecovered
