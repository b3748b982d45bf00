\* A page, a command line and two shutdowns, one event at a time.
SPECIFICATION FairSpec
CONSTANTS
    Watchdog = watchdog
    Web = {web}
    Cli = {cli}
    Stoppers = {1, 2}
    MaxRequests = 1
    MaxFaults = 1
ACTION_CONSTRAINT OneEvent
INVARIANTS
    TypeOK
    NoOrphanUndisturbed
    OneShutdown
PROPERTIES
    StopsClean
    ShutdownEnds
    Repaired
CHECK_DEADLOCK FALSE
