\* Three MTUs, two pages that follow the search, one stop().
SPECIFICATION FairSpec
CONSTANTS
    StartMtu = 3
    MinMtu = 1
    None = None
    Consumers = {c1, c2}
    Stoppers = {s1}
    StopType = "stopped"
    Finals <- DoneOrStopped
INVARIANTS
    ResultIsSound
    ResultReachesClient
PROPERTIES
    ImplementsStream
    StreamsEnd
CHECK_DEADLOCK FALSE
