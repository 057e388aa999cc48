SPECIFICATION FairSpec
CONSTANTS
  PAGE_FRAME_SIZE = 2
  MAX_SUPPORTED_ORDER = 2
  MAX_BUDDY_ARENAS = 4
  block_size <- MCBlockSize
  MemMaps <- MCMemMaps
PROPERTIES
  CallsReturn
  RefinesPageAllocator
INVARIANTS
  NoOverlap
  NoPageLost
  BlocksAreUsableMemory
  Coalesced
  FailsOnlyWhenExhausted
