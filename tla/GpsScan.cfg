SPECIFICATION FairSpec
CONSTANTS
    TimerQueueLength = 2
INVARIANTS
    TypeOK
    ScanConsistent
PROPERTY
    FixEndsScan
