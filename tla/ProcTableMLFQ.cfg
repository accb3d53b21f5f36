SPECIFICATION Spec
CONSTANTS
    NPROC = 2
    NCPU = 1
    TICKS = TICKS
    Chans <- MCChans
    MAXPRIO = 2
    DEFAULTPRIO = 0
    BUDGET = 2
    TICKS_TO_PROMOTE = 1
    SCHED_INTERVAL = 2
    TICKMOD = 3
    MaxPid = 2
INVARIANTS
    TypeOK BudgetLeft
