CONSTANTS
    MaxBlocks = 4
    MaxInits = 3
    MaxThreads = 1
    LateCalls = TRUE
SPECIFICATION Spec
PROPERTIES CallsReturn
