SPECIFICATION Spec
CONSTANTS
    NUM_PAGES = 11
    LEVELS = 2
    ENTRIES = 4
    PS_4K = 12
    Harts <- TwoHarts
    Procs <- OneProc
    HEADER = 3
    MIN_NODE = 2
    Sizes <- SomeSizes
    PROC_SIZE = 8
    FRAME_SIZE = 6
    TEXT_VADDR = 144
    STACK_VADDR = 120
    STACK_PAGES = 1
    MaxBlocks = 2
CHECK_DEADLOCK FALSE
INVARIANTS TypeOK ExtentsKept HeapTiled
