SPECIFICATION FairSpec
CONSTANTS
    Procs = {p1, p2}
    Blocks = {b1, b2, b3}
    AfterLog = b1
    Vals <- MCVals
    InitVal = 0
    NoVal = NoVal
    MAXOPBLOCKS = 2
    OPBLOCKS = 1
    LOGSIZE = 4
    NLOG = 4
INVARIANTS
    SpaceRight WaitersServed
PROPERTIES
    CrashAtomic WaitEnds
