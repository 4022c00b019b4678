SPECIFICATION Spec
CONSTANTS
    NUM_HARTS = 3
    BARRIER_INIT = 3
    prog1 = prog1
    prog2 = prog2
    Programs <- TwoPrograms
    Kernel = Kernel
    Zero = Zero
    NULL = NULL
    MaxCalls = 3
CHECK_DEADLOCK FALSE
INVARIANTS TypeOK StartsDelivered
PROPERTIES ServiceSpec
