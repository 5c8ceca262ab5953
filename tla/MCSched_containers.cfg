SPECIFICATION Spec
CONSTANTS
  Threads = {t1, t2, t3}
  Main = main
  Kinds = {"PERIODIC"}
  Priorities = {"MED_PRIORITY"}
  Periods = {2}
  PERSISTENT_SLICE_TICKS = 1
  Delays = {1}
  Utils = {0}
  MAX_THREADS = 3
  MaxTick = 2
SYMMETRY Symmetry
INVARIANTS NoSharing NothingLost OwnerIsContainer CurrentIsLive RunningHasFrame
