SPECIFICATION FairSpec
CONSTANTS
    ConsoleRequests = {"enterConf", "reset", "write", "longWrite", "bad", "unknown", "enterData", "data", "bit"}
    GpsCommands = TRUE
    MaxSequence = 1
    FrameBytes = 1
INVARIANTS
    TypeOK
    ModelExclusive
    StatusOfFrame
    ModelReleased
    DataFrameInDataMode
PROPERTY
    RequestsComplete
CHECK_DEADLOCK FALSE
