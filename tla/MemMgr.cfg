CONSTANTS
  PAGE_SIZE = 2
  HEAP_SIZE = 8
  HEAP_GROW_PAGES = 2
  GUARD_SIZE = 2
  STACK_SIZE = 4
  STACK_TOP = 23
  Layouts <- MCLayouts
  PPages = {1, 2, 3, 4, 5, 6}
  Touched = {3, 4, 9, 11, 12, 13, 18, 20}
  Accesses = {"WRITE", "EXEC"}
  MIN_REGIONS = 4
  None = None
SPECIFICATION Spec
INVARIANTS
  GuardNeverMapped
  MappedPagesOwned
 
