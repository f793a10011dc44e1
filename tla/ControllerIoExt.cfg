SPECIFICATION Spec
CONSTANTS
    QueueLength = 3
    KeepTimeout = 3
    IoExtEnabled = TRUE
INVARIANT NoGhostPress
PROPERTY ReportsInCycle
