SPECIFICATION Spec
CONSTANTS
    Machines <- SomeMachines
    PCI_NUM_BUSES = 8
    PCI_NUM_SLOTS = 4
    PCI_MMIO_DEVICE_BASE = 8
    PCI_BRIDGE_MEMORY_ALIGNMENT = 4
    BRIDGE_UNIT = 2
    U64 = 2
    U64_BITS = 4
    Calls <- SomeCalls
    BLK_SIZE = 2
    QUEUE_SIZE = 4
    IDX_MOD = 4
    DiskBytes <- SixBytes
CHECK_DEADLOCK FALSE
INVARIANTS TypeOK ResourcesDisjoint AllAttached
PROPERTY DiskSpec
