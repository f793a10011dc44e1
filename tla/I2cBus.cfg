SPECIFICATION FairBusSpec
CONSTANTS
    Tasks = {"console", "control"}
    TIMEOUT = 1
    ConsoleSensors = {"HTS221"}
    ConsoleRegisters = {"outH"}
INVARIANTS
    TypeOK
PROPERTIES
    ReportHonest
    ReadsAreAtomic
    BusReleased
