SPECIFICATION Spec
CONSTANTS
    NUM_HARTS = 3
    p1 = p1
    p2 = p2
    p3 = p3
    Users <- TwoUsers
    Idle = Idle
    NULL = NULL
    Freed = Freed
    SleepTimes <- ShortSleeps
    ProgLen = 2
    MaxTime = 0
CHECK_DEADLOCK FALSE
INVARIANT ResumesWhereItLeftOff
