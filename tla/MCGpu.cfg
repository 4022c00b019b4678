SPECIFICATION Spec
CONSTANTS
    Harts <- ThreeHarts
    QUEUE_SIZE = 6
    IDX_MOD = 6
    MaxFills = 1
CHECK_DEADLOCK FALSE
INVARIANTS TypeOK ChainsIntact ShownWhenReturned BlocksOwned
PROPERTIES ServiceSpec
