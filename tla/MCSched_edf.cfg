SPECIFICATION Spec
CONSTANTS
  Threads = {t1, t2}
  Main = main
  Kinds = {"PERIODIC", "APERIODIC"}
  Priorities = {}
  Periods = {1, 3}
  PERSISTENT_SLICE_TICKS = 2
  Delays = {1}
  Utils = {0}
  MAX_THREADS = 2
  MaxTick = 4
SYMMETRY Symmetry
INVARIANTS TypeOK NeverBeforeRelease EdfUnlessOverrun WindowOpen
PROPERTIES LateJobsCountedOnce TimesMonotone
