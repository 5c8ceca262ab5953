CONSTANTS
    FL_COUNT = 8
    SL_COUNT = 4
    LIN = 4
    WORD = 1024
    Requests <- MCRequests
    MaxHeld = 5
SPECIFICATION Spec
INVARIANTS TypeOK BlocksTile Coalesced ListsHoldTheFreeBlocks BitmapsMatchTheLists GoodFit OwnersKeepTheirBlocks
PROPERTY ImplementsArena
