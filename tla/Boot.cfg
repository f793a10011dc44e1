SPECIFICATION FairBootSpec
CONSTANTS
    QueueLength = 2
    KeepTimeout = 4
    IoExtEnabled = FALSE
    MaxFaults = 1
INVARIANTS
    TypeOK
    ReportsLockButtons
    NoGhostPress
    DevicesReleased
    StopsInWindow
PROPERTIES
    HandOver
    ReportsInCycle
    PressServed
    ButtonsUnlock
CHECK_DEADLOCK FALSE
