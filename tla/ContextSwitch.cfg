CONSTANTS
  c0 = c0
  c1 = c1
  t1 = t1
  t2 = t2
  t3 = t3
  Cores <- MCCores
  Tasks <- MCTasks
  Queue <- MCQueue
  First <- MCFirst
  POINTS = 2
  Values = {0, 1}
  STACK_WORDS = 1
SPECIFICATION Spec
CHECK_DEADLOCK FALSE
INVARIANTS
  ContextPreserved
