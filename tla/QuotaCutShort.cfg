SPECIFICATION FairSpec
CONSTANTS
    TicksPerHour = 120
    RateLimitCooldown = 1
    UnclassifiedCooldown = 2
    Buffer = 2
    DefaultCooldown = 6
    FallbackCooldown = 6
    Endpoints = {"a", "b"}
    Clock <- OneInstant
    Replies <- Overloaded
    MaxErrors = 0
    Requests = {1}
    Pieces <- MCPieces
    Names <- MCNames
    Models = {"large", "small"}
    Configs <- RankedOnly
    Inputs <- SmallInput
CHECK_DEADLOCK FALSE
PROPERTY QuotaHeld
