SPECIFICATION Spec
CONSTANTS
  Threads = {t1, t2, t3, t4, t5, t6, t7}
  NULL = NULL
  MAX_THREADS = 6
  HALF = 4
  Keys = {0, 1, 2}
SYMMETRY Symmetry
VIEW InUse
INVARIANTS TypeOK IndexNamesNode HeapOrdered
PROPERTIES ImplementsPriorityMap
