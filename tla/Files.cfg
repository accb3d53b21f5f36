SPECIFICATION FsSpec
CONSTANTS
    p1 = p1
    p2 = p2
    Procs = {p1, p2}
    Names = {"d", "f"}
    Inums = {1, 2, 3, 4}
    NINODE = 4
    NFILE = 2
    NOFILE = 2
    Calls <- MCCalls
    MaxCalls <- MCMaxCalls
    Image = {"f"}
    NoProc = NoProc
CHECK_DEADLOCK FALSE
INVARIANTS
    ReferencesRight InodesKept OnlyIputBlocks
    DataRight BlocksRight
    PathSplit
