SPECIFICATION Spec
CONSTANTS
    NUM_HARTS = 3
    p1 = p1
    p2 = p2
    p3 = p3
    Users <- ThreeUsers
    Idle = Idle
    NULL = NULL
    Freed = Freed
    SleepTimes <- ShortSleeps
    ProgLen = 1
    MaxTime = 1
SYMMETRY UserSymmetry
CHECK_DEADLOCK FALSE
INVARIANTS TypeOK OneHart Sorted Accounted TimeSlice RunsEligible LeavingWindow
PROPERTIES PopsLeastServed
