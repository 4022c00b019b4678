SPECIFICATION Spec
CONSTANTS
    Harts <- ThreeHarts
CHECK_DEADLOCK FALSE
INVARIANTS TypeOK LocksNest OnlyTheHeapWedges
