SPECIFICATION Spec
CONSTANTS
    ConsoleRequests = {"data"}
    GpsCommands = TRUE
    MaxSequence = 2
    FrameBytes = 2
INVARIANT FrameIntact
