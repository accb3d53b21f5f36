SPECIFICATION FairSpec
CONSTANTS
    Procs = {p1,p2,p3}
    Blocks = {b1,b2,b3}
    Vals = {v1, v2}
    Writable = {b1}
    InitDisk <- MCDisk
    v1 = v1
    v2 = v2
    NBUF = 2
    MaxPins = 1
    NoProc = NoProc
    NoBlock = NoBlock
    NoVal = NoVal
INVARIANTS
    CountsRight ReadsRight LockWaiters
PROPERTIES
    IoEnds
