SPECIFICATION Spec
CHECK_DEADLOCK FALSE
CONSTANTS
    MaxFiles = 2
    MaxLines = 3
    OnDisk = 1
    Kinds = {"good"}
    DayOf <- MCSameDay
    Floors = {1}
    CHUNK = 2
    MAX_PARTIAL = 1
    MAX_BACKFILL_FILES = 2
    QuietStart = FALSE
PROPERTY ReadOrFlagged
