SPECIFICATION ViewsSpec
CONSTANTS
    TicksPerHour = 120
    RateLimitCooldown = 1
    UnclassifiedCooldown = 2
    Buffer = 2
    DefaultCooldown = 6
    FallbackCooldown = 6
    Endpoints = {"a"}
    Clock <- MCClock
    Replies <- MCReplies
    MaxErrors = 0
    Requests = {q1, q2}
    Pieces = {"claude"}
    Names <- MCNames
    Models = {"large"}
    Configs <- MCConfigs
    Inputs <- MCInputs
    MaxGone = 1
    MonthStarts <- MCMonthStarts
INVARIANTS ViewsTypeOK DetailComplete WindowsNested InflightExact CooldownsExplained
PROPERTY ErrorsTraceable
SYMMETRY Either
CHECK_DEADLOCK FALSE
