SPECIFICATION Spec
CONSTANTS
    NPROC = 3
    NCPU = 1
    TICKS = TICKS
    Chans <- MCChans
    MAXPRIO = 0
    DEFAULTPRIO = 0
    BUDGET = 1
    TICKS_TO_PROMOTE = 1
    SCHED_INTERVAL = 1
    TICKMOD = 1
    MaxPid = 3
INVARIANTS
    BornAlive
