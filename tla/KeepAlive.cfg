SPECIFICATION Spec
CONSTANTS
    KEEP_TIMEOUT = 4
    FIVE_MINUTE = 5
    LastMinute = 60
INVARIANTS
    TypeOK
    KeepNotEarly
    KeepOnQuietBoard
CHECK_DEADLOCK FALSE
