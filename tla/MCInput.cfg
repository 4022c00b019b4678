SPECIFICATION PaintSpec
CONSTANTS
    EVENT_BUFFER_SIZE = 3
    NoEvent <- NoEventValue
    Devices <- KeyboardAndTablet
    QUEUE_SIZE = 2
    IDX_MOD = 4
    Readers = {1, 2}
    MaxEventsArgs = {0, 1}
    MaxMade <- Made
    Painter = 1
    EVENT_BUF_SIZE = 2
    Tablet = "tablet"
    Reports <- Scripts
    WIDTH = 30
    HEIGHT = 32
    ABS_MAX = 31
    BRUSH_SIZE = 4
    NUM_COLORS = 3
    COLORS_HEIGHT = 2
CHECK_DEADLOCK FALSE
INVARIANTS TypeOK EventsInOrder LinesShown FollowsReports
PROPERTIES QueueSpec DeliveredIsPushed
