SPECIFICATION Spec
CONSTANTS
  c1 = c1
  c2 = c2
  NoCpu = NoCpu
  Cpus <- TwoCpus
  OBJECTS_PER_SLAB = 3
  COUNT_MOD = 8
  Workloads <- SeparateWorkloads
CHECK_DEADLOCK FALSE
INVARIANTS
  QuietSlabConsistent
