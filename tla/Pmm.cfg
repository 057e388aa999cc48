SPECIFICATION Spec
CONSTANTS
  PAGE_FRAME_SIZE = 4096
  MAX_SUPPORTED_ORDER = 2
  SLAB_THRESHOLD = 2048
  HeaderSize = 16
  MagicSize = 8
  MagicCounted = 4
  Pages <- MCPages
  Sizes <- RegularSizes
  Objects = {o1, o2, o3}
  SLABS_KEPT = 1
SYMMETRY Symmetry
INVARIANTS
  EveryPageAccounted
  KfreeFindsTheOwner
  
  CacheConsistent
