SPECIFICATION NmeaSpec
CONSTANTS
    SL868V2_MAX_MSG_LEN = 16
    StdHeader = 1
    MtkHeader = 2
    Sentences <- MCSentences
    MaxFaults = 1
    MaxLine = 4
CHECK_DEADLOCK FALSE
INVARIANTS
    NmeaTypeOK
PROPERTIES
    WholeLineProcessed
    OwnPositionOnly
    NoOverread
