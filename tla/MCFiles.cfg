SPECIFICATION Spec
CONSTANTS
    NUM_PAGES = 9
    LEVELS = 2
    ENTRIES = 4
    PS_4K = 4
    U32 = 2
    Machines <- Pairs
    Lines <- SomeLines
    ElfHeaders <- Headers
    ProcessTable = 0
    U64 = 256
CHECK_DEADLOCK FALSE
INVARIANTS TypeOK FilesRight ProgramLoaded
