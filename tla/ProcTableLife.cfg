SPECIFICATION LifeSpec
CONSTANTS
    NPROC = 3
    NCPU = 2
    TICKS = TICKS
    Chans <- MCChans
    MAXPRIO = 0
    DEFAULTPRIO = 0
    BUDGET = 1
    TICKS_TO_PROMOTE = 1
    SCHED_INTERVAL = 1
    TICKMOD = 1
    MaxPid = 3
INVARIANTS
    ListsAgree OneCPUEach NoLostExit ParentAlive UniquePids LocksRight
