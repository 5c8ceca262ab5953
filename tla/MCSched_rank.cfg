SPECIFICATION FairSpec
CONSTANTS
  Threads = {t1, t2}
  Main = main
  Kinds = {"PERIODIC", "APERIODIC"}
  Priorities = {"LOW_PRIORITY", "MED_PRIORITY", "HIGH_PRIORITY"}
  Periods = {2}
  PERSISTENT_SLICE_TICKS = 1
  Delays = {1}
  Utils = {0, 1}
  MAX_THREADS = 2
  MaxTick = 2
INVARIANTS StrictClasses UtilizationIsSum
PROPERTIES NextUpEnds
