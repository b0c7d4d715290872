SPECIFICATION RoutingSpec
CONSTANTS
    TicksPerHour = 120
    RateLimitCooldown = 1
    UnclassifiedCooldown = 2
    Buffer = 2
    DefaultCooldown = 6
    FallbackCooldown = 6
    Endpoints = {"a", "b", "c", "d"}
    Clock <- OneInstant
    Replies <- Nothing
    MaxErrors = 1
    Requests = {1, 2, 3, 4}
    Pieces <- MCPieces
    Names <- OneName
    Models = {"large", "small", "next"}
    Configs <- EqualsOnly
INVARIANT EvenRotation
