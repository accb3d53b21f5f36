SPECIFICATION UnitsSpec
CONSTANTS
    NPROC = 3
    NCPU = 2
    IO = 9
CHECK_DEADLOCK FALSE
INVARIANTS
    MemoryRight WakesRight PlainRight CommandsRight ParsesRight
    NoStuckModifier HeapSound ArgsInside
PROPERTIES
    ListsAreSequences
