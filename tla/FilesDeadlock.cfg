SPECIFICATION Spec
CONSTANTS
    p1 = p1
    p2 = p2
    Procs = {p1, p2}
    Names = {"d", "f"}
    Inums = {1, 2, 3, 4}
    NINODE = 4
    NFILE = 2
    NOFILE = 2
    Calls <- MCPair
    MaxCalls <- MCOne
    Image = {}
    NoProc = NoProc
CHECK_DEADLOCK FALSE
INVARIANTS
    NoDeadlock
