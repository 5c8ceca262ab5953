CONSTANTS
    MaxBlocks = 5
    MaxInits = 3
    MaxThreads = 1
    LateCalls = FALSE
SPECIFICATION Spec
INVARIANTS CpuOneIsReady AckMeansDone TeardownFreesItsOwn NothingElseLeaks
PROPERTIES CallsReturn TerminationHappens
