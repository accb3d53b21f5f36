SPECIFICATION WaitsSpec
CONSTANTS
    Readers = {r1}
    Writers = {w1}
    Killable = {r1, w1}
    Bytes <- MCBytes
    PIPESIZE = 2
    UINTMOD = 4
    MaxN = 3
    WAKEONE = TRUE
    NoProc = NoProc
CHECK_DEADLOCK FALSE
INVARIANTS
    PipeRight
PROPERTIES
    BytesInOrder CallsReturn LinesInOrder LineWakes CursorOnScreen SleepRight
