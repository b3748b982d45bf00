\* Two places and a time to live of two ticks; two answers of two entries with two
\* replies; two settings of the decoder, and a key that bounces for two polls.
SPECIFICATION MCSpec
CONSTANTS
    Places <- MCPlaces
    LldpOf <- MCLldpOf
    MndpOf <- MCMndpOf
    IpOf <- MCIpOf
    Ttl = 2
    Answers <- MCAnswers
    Replies <- MCReplies
    Gateways <- MCGateways
    MaxHeard = 2
    StepsPerDetent = {0, 4}
    Debounce = 3
    Confirm = 3
    Bounce = 2
    MaxTurns = 5
    MaxSkipped = 2
    Savers = {c1, c2}
    Files <- MCFiles
    Edits <- MCEdits
    Posts <- MCPosts
    Template <- MCTemplate
    MaxSaves = 3
    OuiFiles <- MCOuiFiles
    Bundled <- MCBundled
    Macs <- MCMacs
    Prefix <- MCPrefix
    Vendors = {"", "v1", "v2"}
    MaxCalls = 4
    Hosts <- MCHosts
    Changes = 2
    Requests <- MCRequests
    Outputs <- MCOutputs
    PingCount = 3
    OpenPorts = {22, 53, 80, 443, 502}
    Dig = "missing"
    PoolSize = 2
    MaxPorts = 3
    ZebraNames = {"ZBR1"}
    MaxMissed = 1
INVARIANTS
    TypeOK
    NothingIsLost
    RepliesInAnyOrder
    DetentsAreCounted
    OneActionPerPress
    SavesCompose
    LearnedIsKept
    UnpluggedIsOffline
    ReportsAreTrue
    FindingsAreTrue
PROPERTIES
    ShownIsFresh
    FoundInTime
CHECK_DEADLOCK FALSE
