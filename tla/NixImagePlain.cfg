\* Base images whose layers are plain tar without annotations.  A build stops.
CONSTANTS
  Paths <- MCPaths
  FileType <- MCFileType
  Names <- MCNames
  Parent <- MCParent
  Tree <- MCTree
  Requests <- PlainRequests
  Faults = {"io", "close"}
SPECIFICATION Spec
INVARIANTS TypeOK LayersAligned MountsComplete LinksResolve
CHECK_DEADLOCK FALSE
