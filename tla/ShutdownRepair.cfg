SPECIFICATION FairSpec
CONSTANTS
    Watchdog = watchdog
    Web = {web}
    Cli = {}
    Stoppers = {}
    MaxRequests = 1
    MaxFaults = 0
PROPERTIES
    EnsureRepairs
CHECK_DEADLOCK FALSE
