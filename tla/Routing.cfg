SPECIFICATION RoutingSpec
CONSTANTS
    TicksPerHour = 120
    RateLimitCooldown = 1
    UnclassifiedCooldown = 2
    Buffer = 2
    DefaultCooldown = 6
    FallbackCooldown = 6
    Endpoints = {"a", "b", "c"}
    Clock <- MCClock
    Replies <- TransportError
    MaxErrors = 1
    Requests = {1}
    Pieces <- MCPieces
    Names <- ManyNames
    Models = {"large", "small", "next"}
    Configs <- OldAndNew
INVARIANTS RoutingTypeOK RoutedAsConfigured RankOrder EachPairOnce
PROPERTIES OnlyCoolingDropped SelectionEnds
