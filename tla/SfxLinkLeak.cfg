SPECIFICATION Spec
CONSTANTS
    ConsoleRequests = {"longWrite", "data"}
    GpsCommands = FALSE
    MaxSequence = 2
    FrameBytes = 2
INVARIANT ModelAlwaysReleased
CHECK_DEADLOCK FALSE
