SPECIFICATION LocksSpec
CONSTANTS
  c1 = c1
  c2 = c2
  t1 = t1
  t2 = t2
  t3 = t3
  Cpus = {c1, c2}
  Tasks = {t1, t2, t3}
  cpu_of <- MCCpuOf
  Locks = {1, 2}
  RWLOCK_WRITER_MASK = 4
  Trylockers = {t1, t2}
  TICKET_MOD = 5
INVARIANTS
  HolderKeepsProcessor
  InterruptsComeBack
PROPERTIES
  LocksAreReleased
  RefinesReadersWriter
  RefinesFifoLock
  EveryoneIsServed
