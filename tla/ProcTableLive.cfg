SPECIFICATION FairSpec
CONSTANTS
    NPROC = 2
    NCPU = 1
    TICKS = TICKS
    Chans <- MCChans
    MAXPRIO = 1
    DEFAULTPRIO = 0
    BUDGET = 1
    TICKS_TO_PROMOTE = 1
    SCHED_INTERVAL = 1
    TICKMOD = 2
    MaxPid = 2
PROPERTIES
    NoStarvation WaitReturns
