SPECIFICATION Spec
CONSTANTS
  Threads = {t1, t2}
  Main = main
  Kinds = {"PERIODIC"}
  Priorities = {}
  Periods = {2}
  PERSISTENT_SLICE_TICKS = 2
  Delays = {2}
  Utils = {0}
  MAX_THREADS = 2
  MaxTick = 3
SYMMETRY Symmetry
INVARIANTS ActiveSpInStack
