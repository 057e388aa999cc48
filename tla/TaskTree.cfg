CONSTANTS
  k1 = k1
  k2 = k2
  k3 = k3
  Tasks <- MCTasks
  PID_MAX = 3
  MAX_DRAWN = 4
  NULL = NULL
SPECIFICATION Spec
SYMMETRY Symmetry
INVARIANTS
  InitPidNeverReused
  FamilyConsistent
