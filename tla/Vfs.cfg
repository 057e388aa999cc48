CONSTANTS
  Nodes <- MCNodes
  Root = "root"
  NodeParent <- MCParent
  NodeName <- MCName
  Directories <- MCDirectories
  Bucket <- ByParent
  Paths <- MCPaths
  WorkDirs <- MCWorkDirs
  OpenPaths <- FewPaths
  Garbage <- MCGarbage
  LOOKUP_ALLOCS = FALSE
  WithOps <- MCWithOps
  MAX_OPENS = 2
  NULL = NULL
SPECIFICATION Spec
INVARIANTS
  
  
  WalkReferences
  InodeReferences
