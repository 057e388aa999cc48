SPECIFICATION FairSpec
CHECK_DEADLOCK FALSE
CONSTANTS
  NULL = NULL
  p0 = p0
  p1 = p1
  t1 = t1
  t2 = t2
  t3 = t3
  t4 = t4
  bsp = p0
  Processors = {p0, p1}
  Machines <- Machines1
  COUNT_BITS = 24
  MAX_CORES = 2
  Tasks = {t1, t2, t3, t4}
  BOOT_TASKS = 3
  MAX_BELOW_ZERO = 1
INVARIANTS
  RunQueuesWellFormed
  AlwaysATaskOfItsOwn
  TicksFindATask
  TickEvery10ms
PROPERTY EveryTaskRuns
