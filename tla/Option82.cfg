\* Passive checks: among other frames, a DHCP offer that a relay agent has marked.
SPECIFICATION JobsSpec
CONSTANTS
    Requests <- PassiveChecks
    Outputs <- MCOutputs
    PingCount = 3
    OpenPorts = {22, 53, 80, 443, 502}
    Dig = "missing"
    PoolSize = 2
    MaxPorts = 3
    ZebraNames = {"ZBR1"}
    MaxMissed = 1
INVARIANTS
    RelayAgentIsDetected
CHECK_DEADLOCK FALSE
