\* Two hosts and a page, or one host with two pages and two calls of stop().
SPECIFICATION FairSpec
CONSTANTS
    Hosts = {1, 2}
    Consumers = {1, 2}
    Stoppers = {1, 2}
    StopType = "done"
    Finals <- Done
    MaxSamples = 2
ACTION_CONSTRAINT TwoHostsOrTwoPages
INVARIANTS
    CountsAgree
    AtMostOneEventAfterDone
    StopEndsStreams
PROPERTIES
    ImplementsStream
    StreamsClose
CHECK_DEADLOCK FALSE
