SPECIFICATION FairSpec
CONSTANTS
    Readers = {r1, r2}
    Writers = {w1}
    Killable = {}
    Bytes <- MCBlank
    PIPESIZE = 1
    UINTMOD = 2
    MaxN = 1
    WAKEONE = TRUE
    NoProc = NoProc
CHECK_DEADLOCK FALSE
PROPERTIES
    EofSeen
