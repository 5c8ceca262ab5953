SPECIFICATION Spec
CONSTANTS
  Threads = {t1, t2, t3, t4, t5}
  NULL = NULL
  MAX_THREADS = 4
INVARIANTS TypeOK SlotsAreQueue
PROPERTIES ImplementsBoundedFifo
