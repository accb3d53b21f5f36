SPECIFICATION FairSpec
CONSTANTS
    Readers = {r1}
    Writers = {w1}
    Killable = {r1}
    Bytes <- MCBlank
    PIPESIZE = 1
    UINTMOD = 2
    MaxN = 1
    WAKEONE = FALSE
    NoProc = NoProc
CHECK_DEADLOCK FALSE
PROPERTIES
    KillEnds
