SPECIFICATION FairSpec
CONSTANTS
    TicksPerHour = 120
    RateLimitCooldown = 1
    UnclassifiedCooldown = 2
    Buffer = 2
    DefaultCooldown = 6
    FallbackCooldown = 6
    Endpoints = {"a", "b"}
    Clock <- MCClock
    Replies <- AllReplies
    MaxErrors = 0
    Requests = {1}
    Pieces <- MCPieces
    Names <- MCNames
    Models = {"large", "small"}
    Configs <- BothConfigs
    Inputs <- AllInputs
CHECK_DEADLOCK FALSE
INVARIANTS TypeOK AnswerOnce LedgerMatchesAnswer LedgerCountsAttempts FailoverExhaustive
PROPERTIES ImplementsGateway AllAnswered
