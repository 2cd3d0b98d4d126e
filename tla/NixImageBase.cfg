\* Images with annotations as base images.  A build stops.
CONSTANTS
  Paths <- MCPaths
  FileType <- MCFileType
  Names <- MCNames
  Parent <- MCParent
  Tree <- MCTree
  Requests <- NixRequests
  Faults = {}
SPECIFICATION Spec
INVARIANTS BaseInherited
CHECK_DEADLOCK FALSE
