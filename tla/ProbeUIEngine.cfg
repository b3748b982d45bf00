\* A button and a request beside the engine.
SPECIFICATION FairSpec
CONSTANTS
    Worker = worker
    Web = {web}
    MaxPresses = 1
    MaxRequests = 1
PROPERTIES
    EngineGoesOn
CHECK_DEADLOCK FALSE
