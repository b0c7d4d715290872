SPECIFICATION RoutingSpec
CONSTANTS
    TicksPerHour = 120
    RateLimitCooldown = 1
    UnclassifiedCooldown = 2
    Buffer = 2
    DefaultCooldown = 6
    FallbackCooldown = 6
    Endpoints = {"a", "b", "c"}
    Clock <- MCClock
    Replies <- Nothing
    MaxErrors = 1
    Requests = {1}
    Pieces <- MCPieces
    Names <- TwoNames
    Models = {"large", "small", "next"}
    Configs <- OldAndNew
INVARIANT ReloadIsAtomic
