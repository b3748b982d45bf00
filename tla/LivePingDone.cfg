\* Nobody calls stop(): the hosts run out of samples.
SPECIFICATION FairSpec
CONSTANTS
    Hosts = {h1, h2}
    Consumers = {c1}
    Stoppers = {}
    StopType = "done"
    Finals <- Done
    MaxSamples = 2
PROPERTIES
    CompletionIsReported
CHECK_DEADLOCK FALSE
