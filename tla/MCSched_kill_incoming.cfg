SPECIFICATION Spec
CONSTANTS
  Threads = {t1, t2}
  Main = main
  Kinds = {"PERIODIC"}
  Priorities = {}
  Periods = {2}
  PERSISTENT_SLICE_TICKS = 2
  Delays = {}
  Utils = {0}
  MAX_THREADS = 2
  MaxTick = 2
SYMMETRY Symmetry
PROPERTIES KilledNeverRevived
