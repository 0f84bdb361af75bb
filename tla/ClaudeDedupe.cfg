SPECIFICATION LogsSpec
CONSTANTS
    Files = 2
    Messages = {"m"}
    Requests = {"r1", "r2"}
    MaxTokens = 2
    MaxCandidates = 3
    None = none
CHECK_DEADLOCK FALSE
INVARIANT
    OneChargePerResponse
PROPERTY
    UsageNeverShrinks
